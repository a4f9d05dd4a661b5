------------------------- MODULE AlertDeliveryProofs -------------------------
(***************************************************************************)
(* What the alert tables say is true, for any number of watches, alerts,   *)
(* processors, evaluators, failures and crashes, and any batch threshold   *)
(* and chunk size.                                                         *)
(*                                                                         *)
(* NotifiedOnlyIfReached and AttemptsTruthful speak of the tables; what    *)
(* makes them inductive is Claims: whatever a call of ProcessAlerts is     *)
(* about to write, by its stage and its locals, has reached Discord.       *)
(* NotResent needs that a processor that nobody disturbs holds no alert    *)
(* with a succeeded attempt between its question and its post (Asked).     *)
(* The second part bounds the alerts within a cooldown, the third maps the *)
(* pipeline to AlertOutbox.                                                *)
(***************************************************************************)
EXTENDS AlertDelivery, SequenceTheorems, FiniteSetTheorems, TLAPS

AlertRow == [watch : Watches, listing : Listings, notified : BOOLEAN, recent : BOOLEAN,
             dismissed : BOOLEAN]

AtStages == {"idle", "watch", "check", "send", "attempt", "mark", "filter", "post", "attempts", "markAll"}

AlertTypes ==
    /\ alerts \in Seq(AlertRow) /\ Len(alerts) <= MaxAlerts
    /\ succeeded \subseteq Ids
    /\ reached \in [Ids -> Nat]
    /\ eval \in [Evaluators -> (Watches \X Listings) \cup {None}]
    /\ stage \in [Processors -> AtStages]
    /\ snap \in [Processors -> SUBSET Ids]
    /\ todo \in [Processors -> Seq(Ids)]
    /\ batch \in [Processors -> Seq(Ids)]
    /\ sent \in [Processors -> Nat]
    /\ retry # None => retry \in [alert : Ids, ok : BOOLEAN]

\* The locals of a call by its stage.
Locals(p) ==
    /\ stage[p] \in {"idle", "watch", "check", "send", "mark", "filter"} => sent[p] = 0
    /\ stage[p] \in {"idle", "watch", "check", "send", "attempt", "mark"} => batch[p] = <<>>
    /\ stage[p] \in {"send", "attempt", "mark"} => todo[p] # <<>>
    /\ stage[p] \in {"post", "attempts", "markAll"} => sent[p] <= Len(batch[p])

\* What the call is going to record as delivered has been.
Claims(p) ==
    /\ stage[p] = "attempt" /\ sent[p] = 1 => reached[todo[p][1]] > 0
    /\ stage[p] = "mark" => reached[todo[p][1]] > 0
    /\ stage[p] \in {"post", "attempts", "markAll"} =>
          \A i \in 1..sent[p] : reached[batch[p][i]] > 0
    /\ stage[p] = "attempts" => \A i \in 1..Len(todo[p]) : reached[todo[p][i]] > 0

RetryTruthful == retry # None /\ retry.ok => retry.alert \in byHand

\* One caller of the notifier at a time.
Undisturbed ==
    ~overlapped =>
        /\ \A p, q \in Processors : stage[p] # "idle" /\ stage[q] # "idle" => p = q
        /\ retry # None => \A p \in Processors : stage[p] = "idle"

\* What the call is going to post has no succeeded attempt.
Asked(p) ==
    /\ stage[p] = "send" => todo[p][1] \notin succeeded
    /\ stage[p] \in {"filter", "post"} => \A i \in 1..Len(batch[p]) : batch[p][i] \notin succeeded

AskedIfAlone(p) == ~overlapped /\ ~summaryOnly => Asked(p)

AlertInv ==
    /\ AlertTypes
    /\ \A p \in Processors : Locals(p) /\ Claims(p)
    /\ NotifiedOnlyIfReached
    /\ AttemptsTruthful
    /\ RetryTruthful
    /\ Undisturbed
    /\ \A p \in Processors : AskedIfAlone(p)

-----------------------------------------------------------------------------
(* Sequences of alerts, and the table.                                     *)

LEMMA IdsAreNat == Ids \subseteq Nat /\ MaxAlerts \in Nat
  BY AlertConstants DEF Ids

LEMMA IdSeq ==
    ASSUME NEW s \in Seq(Ids)
    PROVE  /\ Len(s) \in Nat /\ DOMAIN s = 1..Len(s)
           /\ \A i \in 1..Len(s) : s[i] \in Ids
           /\ s # <<>> => /\ Len(s) > 0 /\ Head(s) = s[1] /\ s[1] \in Ids
                          /\ Tail(s) \in Seq(Ids) /\ Len(Tail(s)) = Len(s) - 1
                          /\ \A i \in 1..Len(Tail(s)) : Tail(s)[i] = s[i + 1]
  <1>1. Len(s) \in Nat /\ DOMAIN s = 1..Len(s) /\ \A i \in 1..Len(s) : s[i] \in Ids
    BY LenProperties, ElementOfSeq
  <1>2. ASSUME s # <<>>
        PROVE  /\ Len(s) > 0 /\ Head(s) = s[1] /\ s[1] \in Ids
               /\ Tail(s) \in Seq(Ids) /\ Len(Tail(s)) = Len(s) - 1
               /\ \A i \in 1..Len(Tail(s)) : Tail(s)[i] = s[i + 1]
    <2>1. Len(s) > 0
      BY <1>1, <1>2, EmptySeq
    <2>2. QED BY <1>1, <1>2, <2>1, HeadTailProperties
  <1>3. QED BY <1>1, <1>2

LEMMA Rows ==
    ASSUME AlertTypes
    PROVE  /\ Len(alerts) \in Nat /\ DOMAIN alerts = 1..Len(alerts) /\ DOMAIN alerts \subseteq Ids
           /\ \A a \in DOMAIN alerts : alerts[a] \in AlertRow
  BY LenProperties, ElementOfSeq, IdsAreNat DEF AlertTypes, Ids

\* A table with the same rows, some of them changed.
LEMMA ChangedRows ==
    ASSUME AlertTypes, NEW g \in [DOMAIN alerts -> AlertRow]
    PROVE  g \in Seq(AlertRow) /\ Len(g) = Len(alerts) /\ DOMAIN g = DOMAIN alerts
  <1>1. Len(alerts) \in Nat /\ DOMAIN alerts = 1..Len(alerts)
    BY Rows
  <1>2. g \in [1..Len(alerts) -> AlertRow]
    BY <1>1
  <1>3. g \in Seq(AlertRow)
    BY <1>1, <1>2, SeqDef
  <1>4. Len(g) = Len(alerts)
    BY <1>1, <1>2, <1>3, LenProperties
  <1>5. QED BY <1>1, <1>2, <1>3, <1>4

\* The listing of a set of rows is a sequence of ids.
LEMMA ListingIsSeq ==
    ASSUME NEW S \in SUBSET Ids, NEW rows \in NewestFirst(S)
    PROVE  rows \in Seq(Ids)
  <1>1. IsFiniteSet(Ids)
    BY IdsAreNat, FS_Interval DEF Ids
  <1>2. Cardinality(S) \in Nat
    BY <1>1, FS_Subset, FS_CardinalityType
  <1>3. rows \in [1..Cardinality(S) -> Ids]
    BY DEF NewestFirst
  <1>4. QED BY <1>2, <1>3, SeqDef

\* MarkAlertNotified and MarkAlertsNotified touch the rows of S and set the flag.
LEMMA MarkedRows ==
    ASSUME AlertTypes, NEW S
    PROVE  /\ Marked(S) \in Seq(AlertRow) /\ Len(Marked(S)) = Len(alerts)
           /\ DOMAIN Marked(S) = DOMAIN alerts
           /\ \A a \in DOMAIN alerts : Marked(S)[a].notified => alerts[a].notified \/ a \in S
  <1>1. Marked(S) \in [DOMAIN alerts -> AlertRow]
    BY Rows DEF Marked, AlertRow
  <1>2. \A a \in DOMAIN alerts : Marked(S)[a].notified => alerts[a].notified \/ a \in S
    BY DEF Marked
  <1>3. QED BY <1>1, <1>2, ChangedRows

-----------------------------------------------------------------------------
(* Frames: what a step of one processor, or of nobody, leaves in place.    *)

\* The claims of a call whose locals do not change stand while embeds only
\* arrive.
LEMMA ClaimsStand ==
    ASSUME AlertTypes, NEW q \in Processors, Locals(q), Claims(q),
           stage'[q] = stage[q], todo'[q] = todo[q], batch'[q] = batch[q], sent'[q] = sent[q],
           AlertTypes', \A a \in Ids : reached'[a] >= reached[a]
    PROVE  Locals(q)' /\ Claims(q)'
  <1>1. Locals(q)'
    BY DEF Locals
  <1>2. /\ todo[q] \in Seq(Ids) /\ batch[q] \in Seq(Ids) /\ sent[q] \in Nat
        /\ \A a \in Ids : reached[a] \in Nat /\ reached'[a] \in Nat
    BY DEF AlertTypes
  <1>3. /\ Len(todo[q]) \in Nat /\ Len(batch[q]) \in Nat
        /\ todo[q] # <<>> => todo[q][1] \in Ids
        /\ \A i \in 1..Len(todo[q]) : todo[q][i] \in Ids
        /\ \A i \in 1..Len(batch[q]) : batch[q][i] \in Ids
    BY <1>2, IdSeq
  <1>4. \A a \in Ids : reached[a] > 0 => reached'[a] > 0
    BY <1>2
  <1>5. stage[q] \in {"attempt", "mark"} => todo[q][1] \in Ids
    BY <1>3 DEF Locals
  <1>6. stage[q] \in {"post", "attempts", "markAll"} => \A i \in 1..sent[q] : batch[q][i] \in Ids
    BY <1>2, <1>3 DEF Locals
  <1>7. Claims(q)'
    BY <1>3, <1>4, <1>5, <1>6 DEF Claims
  <1>8. QED BY <1>1, <1>7

\* A step of processor p.
LEMMA ProcessorFrame ==
    ASSUME AlertInv, NEW p \in Processors, AlertTypes',
           \A q \in Processors \ {p} : /\ stage'[q] = stage[q] /\ todo'[q] = todo[q]
                                       /\ batch'[q] = batch[q] /\ sent'[q] = sent[q],
           \A a \in Ids : reached'[a] >= reached[a],
           UNCHANGED <<byHand, summaryOnly, retry>>,
           ~overlapped' => ~overlapped /\ retry = None /\ \A q \in Processors \ {p} : stage[q] = "idle",
           Locals(p)', Claims(p)', NotifiedOnlyIfReached', AttemptsTruthful',
           AskedIfAlone(p)'
    PROVE  AlertInv'
  <1>1. \A q \in Processors : Locals(q)' /\ Claims(q)'
    <2> TAKE q \in Processors
    <2>1. CASE q = p
      BY <2>1
    <2>2. CASE q # p
      BY <2>2, ClaimsStand DEF AlertInv
    <2>3. QED BY <2>1, <2>2
  <1>2. RetryTruthful'
    BY DEF AlertInv, RetryTruthful
  <1>3. Undisturbed'
    BY DEF Undisturbed
  <1>4. \A q \in Processors : AskedIfAlone(q)'
    BY DEF Asked, AskedIfAlone
  <1>5. QED BY <1>1, <1>2, <1>3, <1>4 DEF AlertInv

\* A processor that is under way and not disturbed is the only one.
LEMMA OnlyOne ==
    ASSUME AlertInv, NEW p \in Processors, stage[p] # "idle", ~overlapped
    PROVE  retry = None /\ \A q \in Processors \ {p} : stage[q] = "idle"
  BY DEF AlertInv, Undisturbed

\* A step outside ProcessAlerts.
LEMMA OutsideFrame ==
    ASSUME AlertInv, AlertTypes', UNCHANGED <<procVars, reached, summaryOnly>>,
           NotifiedOnlyIfReached', AttemptsTruthful', RetryTruthful', Undisturbed',
           ~overlapped' => ~overlapped,
           ~overlapped' => succeeded' = succeeded \/ \A p \in Processors : stage[p] = "idle"
    PROVE  AlertInv'
  <1>1. UNCHANGED <<stage, snap, todo, batch, sent>>
    BY DEF procVars
  <1>2. \A p \in Processors : Locals(p)' /\ Claims(p)'
    BY <1>1 DEF AlertInv, Locals, Claims
  <1>3. ASSUME NEW p \in Processors PROVE AskedIfAlone(p)'
    BY <1>1 DEF AlertInv, Asked, AskedIfAlone
  <1>4. QED BY <1>2, <1>3 DEF AlertInv

\* What the tables say stays true while rows and attempts stay as they are.
LEMMA TablesStand ==
    ASSUME AlertInv, \A a \in Ids : reached'[a] \in Nat /\ reached'[a] >= reached[a], byHand \subseteq byHand'
    PROVE  /\ alerts' = alerts => NotifiedOnlyIfReached'
           /\ succeeded' = succeeded => AttemptsTruthful'
  <1>1. \A a \in Ids : reached[a] > 0 => reached'[a] > 0
    BY DEF AlertInv, AlertTypes
  <1>2. ASSUME alerts' = alerts PROVE NotifiedOnlyIfReached'
    BY <1>1, <1>2, Rows DEF AlertInv, NotifiedOnlyIfReached
  <1>3. ASSUME succeeded' = succeeded PROVE AttemptsTruthful'
    BY <1>1, <1>3 DEF AlertInv, AlertTypes, AttemptsTruthful
  <1>4. QED BY <1>2, <1>3

LEMMA InitAlertInv == Init => AlertInv
  <1> SUFFICES ASSUME Init PROVE AlertInv
    OBVIOUS
  <1>1. AlertTypes
    BY IdsAreNat, EmptySeq DEF Init, AlertTypes, AtStages
  <1>2. NotifiedOnlyIfReached
    BY DEF Init, NotifiedOnlyIfReached
  <1>3. \A p \in Processors : Locals(p) /\ Claims(p) /\ Asked(p)
    BY DEF Init, Locals, Claims, Asked
  <1>4. QED BY <1>1, <1>2, <1>3 DEF Init, AlertInv, AttemptsTruthful, RetryTruthful, Undisturbed,
                                   AskedIfAlone

-----------------------------------------------------------------------------
(* The steps of ProcessAlerts.                                             *)

\* The state of the call of p, as the lemmas below read it.
LEMMA CallOf ==
    ASSUME AlertInv, NEW p \in Processors
    PROVE  /\ AlertTypes /\ Locals(p) /\ Claims(p)
           /\ NotifiedOnlyIfReached /\ AttemptsTruthful
           /\ AskedIfAlone(p)
           /\ stage[p] \in AtStages /\ snap[p] \in SUBSET Ids
           /\ todo[p] \in Seq(Ids) /\ batch[p] \in Seq(Ids) /\ sent[p] \in Nat
           /\ [stage EXCEPT ![p] = stage[p]] = stage /\ [todo EXCEPT ![p] = todo[p]] = todo
           /\ [batch EXCEPT ![p] = batch[p]] = batch /\ [sent EXCEPT ![p] = sent[p]] = sent
  <1>1. /\ AlertTypes /\ Locals(p) /\ Claims(p)
        /\ NotifiedOnlyIfReached /\ AttemptsTruthful
        /\ AskedIfAlone(p)
    BY DEF AlertInv
  <1>2. /\ stage[p] \in AtStages /\ snap[p] \in SUBSET Ids
        /\ todo[p] \in Seq(Ids) /\ batch[p] \in Seq(Ids) /\ sent[p] \in Nat
    BY <1>1 DEF AlertTypes
  <1>3. /\ [stage EXCEPT ![p] = stage[p]] = stage /\ [todo EXCEPT ![p] = todo[p]] = todo
        /\ [batch EXCEPT ![p] = batch[p]] = batch /\ [sent EXCEPT ![p] = sent[p]] = sent
    BY <1>1 DEF AlertTypes
  <1>4. QED BY <1>1, <1>2, <1>3

\* A call goes on with other values of its locals.
LEMMA CallStep ==
    ASSUME AlertInv, NEW p \in Processors,
           NEW st \in AtStages, NEW td \in Seq(Ids), NEW bt \in Seq(Ids), NEW sn \in Nat,
           stage' = [stage EXCEPT ![p] = st], todo' = [todo EXCEPT ![p] = td],
           batch' = [batch EXCEPT ![p] = bt], sent' = [sent EXCEPT ![p] = sn],
           snap' \in [Processors -> SUBSET Ids],
           alerts' \in Seq(AlertRow), Len(alerts') = Len(alerts), succeeded' \subseteq Ids,
           reached' \in [Ids -> Nat], \A a \in Ids : reached'[a] >= reached[a],
           UNCHANGED <<byHand, summaryOnly, eval, retry>>,
           ~overlapped' => ~overlapped /\ retry = None /\ \A q \in Processors \ {p} : stage[q] = "idle",
           stage'[p] = st /\ todo'[p] = td /\ batch'[p] = bt /\ sent'[p] = sn
               => Locals(p)' /\ Claims(p)' /\ AskedIfAlone(p)',
           NotifiedOnlyIfReached', AttemptsTruthful'
    PROVE  AlertInv'
  <1>1. AlertTypes
    BY DEF AlertInv
  <1>2. AlertTypes'
    <2>1. stage' \in [Processors -> AtStages] /\ todo' \in [Processors -> Seq(Ids)]
      BY <1>1 DEF AlertTypes
    <2>2. batch' \in [Processors -> Seq(Ids)] /\ sent' \in [Processors -> Nat]
      BY <1>1 DEF AlertTypes
    <2>3. Len(alerts') <= MaxAlerts /\ eval' \in [Evaluators -> (Watches \X Listings) \cup {None}]
      BY <1>1 DEF AlertTypes
    <2>4. retry' # None => retry' \in [alert : Ids, ok : BOOLEAN]
      BY <1>1 DEF AlertTypes
    <2>5. QED BY <2>1, <2>2, <2>3, <2>4 DEF AlertTypes
  <1>3. stage'[p] = st /\ todo'[p] = td /\ batch'[p] = bt /\ sent'[p] = sn
    BY <1>1 DEF AlertTypes
  <1>4. \A q \in Processors \ {p} : /\ stage'[q] = stage[q] /\ todo'[q] = todo[q]
                                    /\ batch'[q] = batch[q] /\ sent'[q] = sent[q]
    BY <1>1 DEF AlertTypes
  <1>5. QED BY <1>2, <1>3, <1>4, ProcessorFrame

\* So does a call that is under way: nobody else begins.
LEMMA ActiveStep ==
    ASSUME AlertInv, NEW p \in Processors, stage[p] # "idle",
           NEW st \in AtStages, NEW td \in Seq(Ids), NEW bt \in Seq(Ids), NEW sn \in Nat,
           stage' = [stage EXCEPT ![p] = st], todo' = [todo EXCEPT ![p] = td],
           batch' = [batch EXCEPT ![p] = bt], sent' = [sent EXCEPT ![p] = sn],
           snap' \in [Processors -> SUBSET Ids],
           alerts' \in Seq(AlertRow), Len(alerts') = Len(alerts), succeeded' \subseteq Ids,
           reached' \in [Ids -> Nat], \A a \in Ids : reached'[a] >= reached[a],
           UNCHANGED <<byHand, world, eval, retry>>,
           stage'[p] = st /\ todo'[p] = td /\ batch'[p] = bt /\ sent'[p] = sn
               => Locals(p)' /\ Claims(p)' /\ AskedIfAlone(p)',
           NotifiedOnlyIfReached', AttemptsTruthful'
    PROVE  AlertInv'
  <1>1. UNCHANGED <<alive, summaryOnly, overlapped>>
    BY DEF world
  <1>2. ~overlapped' => ~overlapped /\ retry = None /\ \A q \in Processors \ {p} : stage[q] = "idle"
    BY <1>1, OnlyOne
  <1>3. UNCHANGED <<byHand, summaryOnly, eval, retry>>
    BY <1>1
  <1>4. QED BY <1>2, <1>3, CallStep

\* A step that leaves the tables and Discord alone.
LEMMA QuietStep ==
    ASSUME AlertInv, NEW p \in Processors, stage[p] # "idle",
           NEW st \in AtStages, NEW td \in Seq(Ids), NEW bt \in Seq(Ids), NEW sn \in Nat,
           stage' = [stage EXCEPT ![p] = st], todo' = [todo EXCEPT ![p] = td],
           batch' = [batch EXCEPT ![p] = bt], sent' = [sent EXCEPT ![p] = sn],
           snap' \in [Processors -> SUBSET Ids],
           UNCHANGED <<tableVars, reached, byHand, world, eval, retry>>,
           stage'[p] = st /\ todo'[p] = td /\ batch'[p] = bt /\ sent'[p] = sn
               => Locals(p)' /\ Claims(p)' /\ AskedIfAlone(p)'
    PROVE  AlertInv'
  <1>1. UNCHANGED <<alerts, succeeded>>
    BY DEF tableVars
  <1>2. AlertTypes /\ reached' \in [Ids -> Nat] /\ \A a \in Ids : reached'[a] \in Nat /\ reached'[a] >= reached[a]
    BY DEF AlertInv, AlertTypes
  <1>3. alerts' \in Seq(AlertRow) /\ Len(alerts') = Len(alerts) /\ succeeded' \subseteq Ids
    BY <1>1, <1>2 DEF AlertTypes
  <1>4. NotifiedOnlyIfReached' /\ AttemptsTruthful'
    BY <1>1, <1>2, TablesStand
  <1>5. QED BY <1>2, <1>3, <1>4, ActiveStep

\* Abandon: back to the next watch with no locals left.
LEMMA AbandonFits ==
    ASSUME NEW p \in Processors, stage'[p] = "watch", batch'[p] = <<>>, sent'[p] = 0
    PROVE  Locals(p)' /\ Claims(p)' /\ AskedIfAlone(p)'
  BY DEF Locals, Claims, Asked, AskedIfAlone, world

LEMMA NoIds == <<>> \in Seq(Ids) /\ Len(<<>>) = 0
  BY EmptySeq

LEMMA CheckSingleKeeps ==
    ASSUME AlertInv, NEW p \in Processors, CheckSingle(p)
    PROVE  AlertInv'
  <1>1. /\ stage[p] = "check" /\ stage[p] # "idle" /\ UNCHANGED <<tableVars, reached, byHand, world, eval, snap, retry>>
    BY DEF CheckSingle
  <1>2. /\ AlertTypes /\ Locals(p) /\ snap' \in [Processors -> SUBSET Ids]
        /\ sent[p] = 0 /\ batch[p] = <<>>
        /\ UNCHANGED succeeded
    BY <1>1, CallOf DEF AlertTypes, Locals, tableVars
  <1>3. CASE todo[p] = <<>> /\ To(p, "watch") /\ UNCHANGED <<todo, batch, sent, budget>>
    <2>1. stage' = [stage EXCEPT ![p] = "watch"] /\ "watch" \in AtStages
      BY <1>3 DEF To, AtStages
    <2>2. /\ todo' = [todo EXCEPT ![p] = todo[p]] /\ batch' = [batch EXCEPT ![p] = batch[p]]
          /\ sent' = [sent EXCEPT ![p] = sent[p]]
          /\ todo[p] \in Seq(Ids) /\ batch[p] \in Seq(Ids) /\ sent[p] \in Nat
      BY <1>3, CallOf
    <2>3. QED BY <1>1, <1>2, <2>1, <2>2, AbandonFits, QuietStep
  <1>4. CASE todo[p] # <<>> /\ HasSuccessfulNotification(Current(p)) /\ Advance(p) /\ UNCHANGED <<stage, batch, sent>>
    <2>1. todo' = [todo EXCEPT ![p] = Tail(todo[p])] /\ Tail(todo[p]) \in Seq(Ids)
      BY <1>4, CallOf, IdSeq DEF Advance
    <2>2. stage'[p] = "check" /\ batch'[p] = <<>> /\ sent'[p] = 0
              => Locals(p)' /\ Claims(p)' /\ AskedIfAlone(p)'
      BY DEF Locals, Claims, Asked, AskedIfAlone, world
    <2>3. /\ stage' = [stage EXCEPT ![p] = stage[p]] /\ batch' = [batch EXCEPT ![p] = batch[p]]
          /\ sent' = [sent EXCEPT ![p] = sent[p]]
          /\ stage[p] \in AtStages /\ batch[p] \in Seq(Ids) /\ sent[p] \in Nat
      BY <1>4, CallOf
    <2>4. QED BY <1>1, <1>2, <2>1, <2>2, <2>3, QuietStep
  <1>5. CASE todo[p] # <<>> /\ ~HasSuccessfulNotification(Current(p)) /\ To(p, "send") /\ UNCHANGED <<todo, batch, sent>>
    <2>1. stage' = [stage EXCEPT ![p] = "send"] /\ "send" \in AtStages
      BY <1>5 DEF To, AtStages
    <2>2. todo[p][1] \notin succeeded
      BY <1>5, CallOf, IdSeq DEF HasSuccessfulNotification, Current
    <2>3. stage'[p] = "send" /\ todo'[p] = todo[p] /\ batch'[p] = <<>> /\ sent'[p] = 0
              => Locals(p)' /\ Claims(p)' /\ AskedIfAlone(p)'
      BY <1>2, <1>5, <2>2 DEF Locals, Claims, Asked, AskedIfAlone, world
    <2>4. /\ todo' = [todo EXCEPT ![p] = todo[p]] /\ batch' = [batch EXCEPT ![p] = batch[p]]
          /\ sent' = [sent EXCEPT ![p] = sent[p]]
          /\ todo[p] \in Seq(Ids) /\ batch[p] \in Seq(Ids) /\ sent[p] \in Nat
      BY <1>5, CallOf
    <2>5. QED BY <1>1, <1>2, <2>1, <2>3, <2>4, QuietStep
  <1>6. CASE Abandon(p)
    <2>1. /\ stage' = [stage EXCEPT ![p] = "watch"] /\ "watch" \in AtStages
          /\ todo' = [todo EXCEPT ![p] = <<>>] /\ batch' = [batch EXCEPT ![p] = <<>>]
          /\ sent' = [sent EXCEPT ![p] = 0]
      BY <1>6 DEF Abandon, To, AtStages
    <2>2. QED BY <1>1, <1>2, <2>1, NoIds, AbandonFits, QuietStep
  <1>7. QED BY <1>3, <1>4, <1>5, <1>6 DEF CheckSingle

\* A post, answered or not: embeds only arrive, and those of an answered one did.
LEMMA PostArrives ==
    ASSUME AlertTypes, NEW S, PostSucceeds(S) \/ PostFails(S)
    PROVE  /\ reached' \in [Ids -> Nat]
           /\ \A a \in Ids : reached'[a] \in Nat /\ reached'[a] >= reached[a]
           /\ \A a \in Ids : reached'[a] > reached[a] => a \in S
           /\ PostSucceeds(S) => \A a \in S \cap Ids : reached'[a] > 0
  <1>1. reached \in [Ids -> Nat]
    BY DEF AlertTypes
  <1>2. /\ Delivered(S) \in [Ids -> Nat]
        /\ \A a \in Ids : Delivered(S)[a] = IF a \in S THEN reached[a] + 1 ELSE reached[a]
    BY <1>1 DEF Delivered
  <1>3. reached' \in {reached, Delivered(S)} /\ (PostSucceeds(S) => reached' = Delivered(S))
    BY DEF PostSucceeds, PostFails
  <1>4. QED BY <1>1, <1>2, <1>3

LEMMA SendSingleKeeps ==
    ASSUME AlertInv, NEW p \in Processors, SendSingle(p)
    PROVE  AlertInv'
  <1>1. /\ stage[p] = "send" /\ stage[p] # "idle"
        /\ UNCHANGED <<tableVars, byHand, world, eval, snap, todo, batch, retry>>
        /\ stage' = [stage EXCEPT ![p] = "attempt"] /\ "attempt" \in AtStages
    BY DEF SendSingle, To, AtStages
  <1>2. /\ AlertTypes /\ Locals(p) /\ snap' \in [Processors -> SUBSET Ids]
        /\ sent[p] = 0 /\ batch[p] = <<>> /\ todo[p] # <<>>
        /\ UNCHANGED <<alerts, succeeded>>
    BY <1>1, CallOf DEF AlertTypes, Locals, tableVars
  <1>3. Current(p) = todo[p][1] /\ todo[p][1] \in Ids
    BY <1>2, CallOf, IdSeq DEF Current
  <1>4. PostSucceeds({Current(p)}) \/ PostFails({Current(p)})
    BY DEF SendSingle
  <1>5. /\ reached' \in [Ids -> Nat]
        /\ \A a \in Ids : reached'[a] \in Nat /\ reached'[a] >= reached[a]
        /\ PostSucceeds({Current(p)}) => reached'[todo[p][1]] > 0
    BY <1>2, <1>3, <1>4, PostArrives
  <1>6. NotifiedOnlyIfReached' /\ AttemptsTruthful'
    BY <1>1, <1>2, <1>5, TablesStand
  <1>7. PICK n \in {0, 1} : /\ sent' = [sent EXCEPT ![p] = n]
                            /\ n = 1 => reached'[todo[p][1]] > 0
    BY <1>2, <1>5, CallOf DEF SendSingle
  <1>8. /\ alerts' \in Seq(AlertRow) /\ Len(alerts') = Len(alerts) /\ succeeded' \subseteq Ids
        /\ n \in Nat
    BY <1>2 DEF AlertTypes
  <1>9. stage'[p] = "attempt" /\ todo'[p] = todo[p] /\ batch'[p] = batch[p] /\ sent'[p] = n
              => Locals(p)' /\ Claims(p)' /\ AskedIfAlone(p)'
    BY <1>2, <1>7 DEF Locals, Claims, Asked, AskedIfAlone, world
  <1>10. /\ todo' = [todo EXCEPT ![p] = todo[p]] /\ batch' = [batch EXCEPT ![p] = batch[p]]
         /\ todo[p] \in Seq(Ids) /\ batch[p] \in Seq(Ids)
    BY <1>1, CallOf
  <1>11. QED BY <1>1, <1>2, <1>5, <1>6, <1>7, <1>8, <1>9, <1>10, ActiveStep

\* InsertNotificationAttempt for an embed that arrived keeps the attempts true.
LEMMA RecordingIsTrue ==
    ASSUME AlertInv, NEW a \in Ids, NEW ok, ok => reached[a] > 0,
           succeeded' \in {succeeded, Recorded(a, ok)}, UNCHANGED <<reached, byHand>>
    PROVE  succeeded' \subseteq Ids /\ AttemptsTruthful'
  <1>1. succeeded \subseteq Ids /\ AttemptsTruthful
    BY DEF AlertInv, AlertTypes
  <1>2. \A x \in succeeded' : x \in succeeded \/ (x = a /\ reached[a] > 0)
    BY DEF Recorded
  <1>3. QED BY <1>1, <1>2 DEF AttemptsTruthful

LEMMA AttemptSingleKeeps ==
    ASSUME AlertInv, NEW p \in Processors, AttemptSingle(p)
    PROVE  AlertInv'
  <1>1. /\ stage[p] = "attempt" /\ stage[p] # "idle"
        /\ UNCHANGED <<alerts, reached, byHand, world, eval, snap, retry>>
        /\ succeeded' \in {succeeded, Recorded(Current(p), sent[p] = 1)}
    BY DEF AttemptSingle
  <1>2. /\ AlertTypes /\ Locals(p) /\ Claims(p) /\ snap' \in [Processors -> SUBSET Ids]
        /\ batch[p] = <<>> /\ todo[p] # <<>>
    BY <1>1, CallOf DEF AlertTypes, Locals
  <1>3. Current(p) = todo[p][1] /\ todo[p][1] \in Ids
    BY <1>2, CallOf, IdSeq DEF Current
  <1>4. sent[p] = 1 => reached[todo[p][1]] > 0
    BY <1>1, <1>2 DEF Claims
  <1>5. succeeded' \subseteq Ids /\ AttemptsTruthful'
    BY <1>1, <1>3, <1>4, RecordingIsTrue
  <1>6. /\ reached' \in [Ids -> Nat]
        /\ \A a \in Ids : reached'[a] \in Nat /\ reached'[a] >= reached[a]
        /\ alerts' \in Seq(AlertRow) /\ Len(alerts') = Len(alerts)
    BY <1>1, <1>2 DEF AlertTypes
  <1>7. NotifiedOnlyIfReached'
    BY <1>1, <1>6, TablesStand
  <1>8. CASE sent[p] = 1
    <2>1. /\ stage' = [stage EXCEPT ![p] = "mark"] /\ "mark" \in AtStages
          /\ todo' = [todo EXCEPT ![p] = todo[p]] /\ batch' = [batch EXCEPT ![p] = batch[p]]
          /\ sent' = [sent EXCEPT ![p] = 0]
          /\ todo[p] \in Seq(Ids) /\ batch[p] \in Seq(Ids)
      BY <1>8, CallOf DEF AttemptSingle, To, AtStages
    <2>2. stage'[p] = "mark" /\ todo'[p] = todo[p] /\ batch'[p] = batch[p] /\ sent'[p] = 0
              => Locals(p)' /\ Claims(p)' /\ AskedIfAlone(p)'
      BY <1>1, <1>2, <1>4, <1>8 DEF Locals, Claims, Asked, AskedIfAlone, world
    <2>3. QED BY <1>1, <1>2, <1>5, <1>6, <1>7, <2>1, <2>2, ActiveStep
  <1>9. CASE sent[p] # 1
    <2>1. /\ stage' = [stage EXCEPT ![p] = "watch"] /\ "watch" \in AtStages
          /\ todo' = [todo EXCEPT ![p] = <<>>] /\ batch' = [batch EXCEPT ![p] = <<>>]
          /\ sent' = [sent EXCEPT ![p] = 0]
      BY <1>9 DEF AttemptSingle, Abandon, To, AtStages
    <2>2. QED BY <1>1, <1>2, <1>5, <1>6, <1>7, <2>1, NoIds, AbandonFits, ActiveStep
  <1>10. QED BY <1>8, <1>9

\* MarkAlertNotified and MarkAlertsNotified for embeds that arrived keep the flags true.
LEMMA MarkingIsTrue ==
    ASSUME AlertInv, NEW S, \A a \in S : reached[a] > 0,
           alerts' \in {alerts, Marked(S)}, UNCHANGED reached
    PROVE  alerts' \in Seq(AlertRow) /\ Len(alerts') = Len(alerts) /\ NotifiedOnlyIfReached'
  <1>1. AlertTypes /\ NotifiedOnlyIfReached
    BY DEF AlertInv
  <1>2. CASE alerts' = alerts
    BY <1>1, <1>2 DEF AlertTypes, NotifiedOnlyIfReached
  <1>3. CASE alerts' = Marked(S)
    <2>1. /\ Marked(S) \in Seq(AlertRow) /\ Len(Marked(S)) = Len(alerts)
          /\ DOMAIN Marked(S) = DOMAIN alerts
          /\ \A a \in DOMAIN alerts : Marked(S)[a].notified => alerts[a].notified \/ a \in S
      BY <1>1, MarkedRows
    <2>2. \A a \in DOMAIN alerts' : alerts'[a].notified => reached'[a] > 0
      BY <1>1, <1>3, <2>1 DEF NotifiedOnlyIfReached
    <2>3. QED BY <1>3, <2>1, <2>2 DEF NotifiedOnlyIfReached
  <1>4. QED BY <1>2, <1>3

LEMMA MarkSingleKeeps ==
    ASSUME AlertInv, NEW p \in Processors, MarkSingle(p)
    PROVE  AlertInv'
  <1>1. /\ stage[p] = "mark" /\ stage[p] # "idle"
        /\ UNCHANGED <<succeeded, reached, byHand, world, eval, snap, retry>>
        /\ alerts' \in {alerts, Marked({Current(p)})}
    BY DEF MarkSingle
  <1>2. /\ AlertTypes /\ Locals(p) /\ Claims(p) /\ snap' \in [Processors -> SUBSET Ids]
        /\ batch[p] = <<>> /\ todo[p] # <<>> /\ sent[p] = 0
    BY <1>1, CallOf DEF AlertTypes, Locals
  <1>3. Current(p) = todo[p][1] /\ todo[p][1] \in Ids /\ Tail(todo[p]) \in Seq(Ids)
    BY <1>2, CallOf, IdSeq DEF Current
  <1>4. \A a \in {Current(p)} : reached[a] > 0
    BY <1>1, <1>2, <1>3 DEF Claims
  <1>5. alerts' \in Seq(AlertRow) /\ Len(alerts') = Len(alerts) /\ NotifiedOnlyIfReached'
    BY <1>1, <1>4, MarkingIsTrue
  <1>6. /\ reached' \in [Ids -> Nat] /\ succeeded' \subseteq Ids
        /\ \A a \in Ids : reached'[a] \in Nat /\ reached'[a] >= reached[a]
    BY <1>1, <1>2 DEF AlertTypes
  <1>7. AttemptsTruthful'
    BY <1>1, <1>6, TablesStand
  <1>8. CASE To(p, "check") /\ Advance(p) /\ UNCHANGED <<batch, sent>>
    <2>1. /\ stage' = [stage EXCEPT ![p] = "check"] /\ "check" \in AtStages
          /\ todo' = [todo EXCEPT ![p] = Tail(todo[p])] /\ batch' = [batch EXCEPT ![p] = batch[p]]
          /\ sent' = [sent EXCEPT ![p] = sent[p]]
          /\ batch[p] \in Seq(Ids) /\ sent[p] \in Nat
      BY <1>8, CallOf DEF Advance, To, AtStages
    <2>2. stage'[p] = "check" /\ batch'[p] = batch[p] /\ sent'[p] = sent[p]
              => Locals(p)' /\ Claims(p)' /\ AskedIfAlone(p)'
      BY <1>2 DEF Locals, Claims, Asked, AskedIfAlone, world
    <2>3. QED BY <1>1, <1>2, <1>3, <1>5, <1>6, <1>7, <2>1, <2>2, ActiveStep
  <1>9. CASE Abandon(p)
    <2>1. /\ stage' = [stage EXCEPT ![p] = "watch"] /\ "watch" \in AtStages
          /\ todo' = [todo EXCEPT ![p] = <<>>] /\ batch' = [batch EXCEPT ![p] = <<>>]
          /\ sent' = [sent EXCEPT ![p] = 0]
      BY <1>9 DEF Abandon, To, AtStages
    <2>2. QED BY <1>1, <1>2, <1>5, <1>6, <1>7, <2>1, NoIds, AbandonFits, ActiveStep
  <1>10. QED BY <1>8, <1>9 DEF MarkSingle

\* A batch with one more alert.
LEMMA OneMore ==
    ASSUME NEW s \in Seq(Ids), NEW a \in Ids
    PROVE  /\ Append(s, a) \in Seq(Ids) /\ Len(Append(s, a)) = Len(s) + 1
           /\ \A i \in 1..Len(Append(s, a)) :
                 Append(s, a)[i] = a \/ (i \in 1..Len(s) /\ Append(s, a)[i] = s[i])
  <1>1. Len(s) \in Nat /\ DOMAIN s = 1..Len(s)
    BY IdSeq
  <1>2. Append(s, a) \in Seq(Ids) /\ Len(Append(s, a)) = Len(s) + 1
    BY AppendProperties
  <1>3. \A i \in 1..Len(s) : Append(s, a)[i] = s[i]
    BY AppendProperties
  <1>4. Append(s, a)[Len(s) + 1] = a
    BY AppendProperties
  <1>5. QED BY <1>1, <1>2, <1>3, <1>4

LEMMA FilterBatchKeeps ==
    ASSUME AlertInv, NEW p \in Processors, FilterBatch(p)
    PROVE  AlertInv'
  <1>1. /\ stage[p] = "filter" /\ stage[p] # "idle" /\ todo[p] # <<>>
        /\ UNCHANGED <<tableVars, reached, byHand, world, eval, stage, snap, sent, retry>>
        /\ todo' = [todo EXCEPT ![p] = Tail(todo[p])]
    BY DEF FilterBatch, Advance
  <1>2. /\ AlertTypes /\ Locals(p) /\ snap' \in [Processors -> SUBSET Ids]
        /\ sent[p] = 0 /\ UNCHANGED succeeded
    BY <1>1, CallOf DEF AlertTypes, Locals, tableVars
  <1>3. Current(p) = todo[p][1] /\ todo[p][1] \in Ids /\ Tail(todo[p]) \in Seq(Ids)
    BY <1>1, CallOf, IdSeq DEF Current
  <1>4. /\ stage' = [stage EXCEPT ![p] = stage[p]] /\ stage[p] \in AtStages
        /\ sent' = [sent EXCEPT ![p] = sent[p]] /\ sent[p] \in Nat
        /\ batch[p] \in Seq(Ids) /\ [batch EXCEPT ![p] = batch[p]] = batch
        /\ AskedIfAlone(p)
    BY <1>1, CallOf
  <1>5. /\ UNCHANGED <<tableVars, reached, byHand, world, eval, retry>>
        /\ snap' \in [Processors -> SUBSET Ids] /\ stage[p] # "idle"
        /\ stage' = [stage EXCEPT ![p] = stage[p]] /\ todo' = [todo EXCEPT ![p] = Tail(todo[p])]
        /\ sent' = [sent EXCEPT ![p] = sent[p]]
        /\ stage[p] \in AtStages /\ batch[p] \in Seq(Ids) /\ sent[p] \in Nat
    BY <1>1, <1>2, <1>4
  <1>6. CASE batch' = batch
    <2>1. batch' = [batch EXCEPT ![p] = batch[p]]
      BY <1>4, <1>6
    <2>2. stage'[p] = stage[p] /\ todo'[p] = Tail(todo[p]) /\ batch'[p] = batch[p] /\ sent'[p] = sent[p]
              => Locals(p)' /\ Claims(p)' /\ AskedIfAlone(p)'
      BY <1>1, <1>2, <1>4 DEF Locals, Claims, Asked, AskedIfAlone, world
    <2>3. QED BY <1>3, <1>5, <2>1, <2>2, QuietStep
  <1>7. CASE /\ ~HasSuccessfulNotification(Current(p))
             /\ batch' = [batch EXCEPT ![p] = Append(batch[p], Current(p))]
    <2>1. Current(p) \notin succeeded /\ Current(p) \in Ids
      BY <1>3, <1>7 DEF HasSuccessfulNotification
    <2>2. /\ Append(batch[p], Current(p)) \in Seq(Ids)
          /\ \A i \in 1..Len(Append(batch[p], Current(p))) :
                 \/ Append(batch[p], Current(p))[i] = Current(p)
                 \/ i \in 1..Len(batch[p]) /\ Append(batch[p], Current(p))[i] = batch[p][i]
      BY <1>4, <2>1, OneMore
    <2>3. stage'[p] = stage[p] /\ todo'[p] = Tail(todo[p]) /\ batch'[p] = Append(batch[p], Current(p)) /\ sent'[p] = sent[p]
              => Locals(p)' /\ Claims(p)' /\ AskedIfAlone(p)'
      BY <1>1, <1>2, <1>4, <2>1, <2>2 DEF Locals, Claims, Asked, AskedIfAlone, world
    <2>4. QED BY <1>3, <1>7, <1>5, <2>2, <2>3, QuietStep
  <1>8. QED BY <1>6, <1>7 DEF FilterBatch

LEMMA BatchBuiltKeeps ==
    ASSUME AlertInv, NEW p \in Processors, BatchBuilt(p)
    PROVE  AlertInv'
  <1>1. /\ stage[p] = "filter" /\ stage[p] # "idle"
        /\ UNCHANGED <<tableVars, reached, byHand, world, eval, snap, todo, batch, sent, retry>>
    BY DEF BatchBuilt
  <1>2. /\ AlertTypes /\ Locals(p) /\ snap' \in [Processors -> SUBSET Ids]
        /\ sent[p] = 0 /\ UNCHANGED succeeded
    BY <1>1, CallOf DEF AlertTypes, Locals, tableVars
  <1>3. /\ todo' = [todo EXCEPT ![p] = todo[p]] /\ batch' = [batch EXCEPT ![p] = batch[p]]
        /\ sent' = [sent EXCEPT ![p] = sent[p]]
        /\ todo[p] \in Seq(Ids) /\ batch[p] \in Seq(Ids) /\ sent[p] \in Nat
        /\ AskedIfAlone(p)
    BY <1>1, CallOf
  <1>4. Len(batch[p]) \in Nat
    BY <1>3, IdSeq
  <1>5. PICK st \in {"watch", "post"} : stage' = [stage EXCEPT ![p] = st] /\ (st = "watch" => batch[p] = <<>>)
    BY DEF BatchBuilt, To
  <1>6. st \in AtStages
    BY DEF AtStages
  <1>7. stage'[p] = st /\ todo'[p] = todo[p] /\ batch'[p] = batch[p] /\ sent'[p] = sent[p]
              => Locals(p)' /\ Claims(p)' /\ AskedIfAlone(p)'
    BY <1>1, <1>2, <1>3, <1>4, <1>5 DEF Locals, Claims, Asked, AskedIfAlone, world
  <1>8. /\ UNCHANGED <<tableVars, reached, byHand, world, eval, retry>>
        /\ snap' \in [Processors -> SUBSET Ids] /\ stage[p] # "idle"
        /\ stage' = [stage EXCEPT ![p] = st] /\ todo' = [todo EXCEPT ![p] = todo[p]]
        /\ batch' = [batch EXCEPT ![p] = batch[p]] /\ sent' = [sent EXCEPT ![p] = sent[p]]
        /\ todo[p] \in Seq(Ids) /\ batch[p] \in Seq(Ids) /\ sent[p] \in Nat
    BY <1>1, <1>2, <1>3, <1>5
  <1>9. QED BY <1>6, <1>7, <1>8, QuietStep

\* A slice of a sequence of alerts.
LEMMA Slice ==
    ASSUME NEW s \in Seq(Ids), NEW m \in Nat, NEW n \in Nat, m <= n, n <= Len(s)
    PROVE  /\ SubSeq(s, m + 1, n) \in Seq(Ids) /\ Len(SubSeq(s, m + 1, n)) = n - m
           /\ \A i \in 1..(n - m) : SubSeq(s, m + 1, n)[i] = s[m + i]
           /\ SetOf(SubSeq(s, m + 1, n)) = {s[i] : i \in (m + 1)..n}
  <1>1. Len(s) \in Nat /\ DOMAIN s = 1..Len(s) /\ \A i \in 1..Len(s) : s[i] \in Ids
    BY IdSeq
  <1>2. \A i \in (m + 1)..n : i \in 1..Len(s)
    BY <1>1
  <1>3. SubSeq(s, m + 1, n) = [i \in 1..(n - m) |-> s[m + i]]
    BY <1>1
  <1>4. \A i \in 1..(n - m) : m + i \in 1..Len(s)
    BY <1>1
  <1>5. [i \in 1..(n - m) |-> s[m + i]] \in [1..(n - m) -> Ids]
    BY <1>1, <1>4
  <1>6. SubSeq(s, m + 1, n) \in Seq(Ids) /\ n - m \in Nat
    BY <1>3, <1>5, SeqDef
  <1>7. DOMAIN SubSeq(s, m + 1, n) = 1..(n - m) /\ Len(SubSeq(s, m + 1, n)) = n - m
    BY <1>3, <1>6, LenProperties
  <1>8. \A i \in 1..(n - m) : SubSeq(s, m + 1, n)[i] = s[m + i]
    BY <1>3
  <1>9. SetOf(SubSeq(s, m + 1, n)) = {s[i] : i \in (m + 1)..n}
    <2>1. ASSUME NEW i \in 1..(n - m) PROVE s[m + i] \in {s[k] : k \in (m + 1)..n}
      <3>1. m + i \in (m + 1)..n
        OBVIOUS
      <3>2. QED BY <3>1
    <2>2. ASSUME NEW k \in (m + 1)..n PROVE \E i \in 1..(n - m) : s[k] = s[m + i]
      <3>1. k - m \in 1..(n - m) /\ m + (k - m) = k
        OBVIOUS
      <3>2. QED BY <3>1
    <2>3. SetOf(SubSeq(s, m + 1, n)) = {s[m + i] : i \in 1..(n - m)}
      BY <1>7, <1>8 DEF SetOf
    <2>4. {s[m + i] : i \in 1..(n - m)} = {s[k] : k \in (m + 1)..n}
      BY <2>1, <2>2
    <2>5. QED BY <2>3, <2>4
  <1>10. QED BY <1>6, <1>7, <1>8, <1>9

\* The next chunk of SendBatchAlert is the batch from sent + 1 to some end.
LEMMA ChunkIs ==
    ASSUME NEW p \in Processors, batch[p] \in Seq(Ids), sent[p] \in Nat, sent[p] <= Len(batch[p])
    PROVE  \E end \in Nat : /\ sent[p] <= end /\ end <= Len(batch[p])
                            /\ Len(Chunk(p)) = end - sent[p]
                            /\ SetOf(Chunk(p)) = {batch[p][i] : i \in (sent[p] + 1)..end}
  <1> DEFINE end == IF summaryOnly \/ sent[p] + ChunkSize > Len(batch[p])
                    THEN Len(batch[p]) ELSE sent[p] + ChunkSize
  <1>1. Len(batch[p]) \in Nat /\ ChunkSize \in Nat
    BY IdSeq, AlertConstants
  <1>2. end \in Nat /\ sent[p] <= end /\ end <= Len(batch[p])
    BY <1>1
  <1>3. Chunk(p) = SubSeq(batch[p], sent[p] + 1, end)
    BY DEF Chunk
  <1> HIDE DEF end
  <1>4. /\ Len(Chunk(p)) = end - sent[p]
        /\ SetOf(Chunk(p)) = {batch[p][i] : i \in (sent[p] + 1)..end}
    <2>1. /\ Len(SubSeq(batch[p], sent[p] + 1, end)) = end - sent[p]
          /\ SetOf(SubSeq(batch[p], sent[p] + 1, end)) = {batch[p][i] : i \in (sent[p] + 1)..end}
      BY <1>2, Slice
    <2>2. QED BY <1>3, <2>1
  <1>5. QED BY <1>2, <1>4

\* The claims of a call that has just posted, n alerts of its batch being sent.
LEMMA PostedFits ==
    ASSUME NEW p \in Processors, AlertTypes, NEW n \in Nat, n <= Len(batch[p]),
           \A i \in 1..n : reached'[batch[p][i]] > 0, AskedIfAlone(p), UNCHANGED <<world, succeeded>>,
           stage[p] = "post",
           \/ stage'[p] = "post" /\ todo'[p] = todo[p]
           \/ stage'[p] = "attempts" /\ todo'[p] = DeliveredIds(p, n),
           batch'[p] = batch[p], sent'[p] = n
    PROVE  Locals(p)' /\ Claims(p)' /\ AskedIfAlone(p)'
  <1>1. Locals(p)'
    BY DEF Locals
  <1>2. batch[p] \in Seq(Ids)
    BY DEF AlertTypes
  <1>3. Len(DeliveredIds(p, n)) = n /\ \A i \in 1..n : DeliveredIds(p, n)[i] = batch[p][i]
    <2>1. 0 \in Nat /\ 0 <= n /\ 0 + 1 = 1 /\ n - 0 = n /\ \A i \in 1..n : 0 + i = i
      OBVIOUS
    <2>2. /\ Len(SubSeq(batch[p], 0 + 1, n)) = n - 0
          /\ \A i \in 1..(n - 0) : SubSeq(batch[p], 0 + 1, n)[i] = batch[p][0 + i]
      BY <1>2, <2>1, Slice
    <2>3. QED BY <2>1, <2>2 DEF DeliveredIds
  <1>4. Claims(p)'
    BY <1>3 DEF Claims
  <1>5. AskedIfAlone(p)'
    BY DEF AskedIfAlone, Asked, world
  <1>6. QED BY <1>1, <1>4, <1>5

LEMMA DeliveredIdsAre ==
    ASSUME NEW p \in Processors, batch[p] \in Seq(Ids), NEW n \in Nat, n <= Len(batch[p])
    PROVE  /\ DeliveredIds(p, n) \in Seq(Ids)
           /\ SetOf(DeliveredIds(p, n)) = {batch[p][i] : i \in 1..n}
  <1>1. 0 \in Nat /\ 0 <= n /\ 0 + 1 = 1
    OBVIOUS
  <1>2. /\ SubSeq(batch[p], 0 + 1, n) \in Seq(Ids)
        /\ SetOf(SubSeq(batch[p], 0 + 1, n)) = {batch[p][i] : i \in (0 + 1)..n}
    BY <1>1, Slice
  <1>3. QED BY <1>1, <1>2 DEF DeliveredIds

LEMMA SendChunkKeeps ==
    ASSUME AlertInv, NEW p \in Processors, SendChunk(p)
    PROVE  AlertInv'
  <1>1. /\ stage[p] = "post" /\ stage[p] # "idle"
        /\ UNCHANGED <<tableVars, byHand, world, eval, snap, batch, retry>>
        /\ PostSucceeds(SetOf(Chunk(p))) \/ PostFails(SetOf(Chunk(p)))
    BY DEF SendChunk
  <1>2. /\ AlertTypes /\ Locals(p) /\ Claims(p) /\ AskedIfAlone(p)
        /\ todo[p] \in Seq(Ids) /\ batch[p] \in Seq(Ids) /\ sent[p] \in Nat
        /\ [stage EXCEPT ![p] = stage[p]] = stage /\ [todo EXCEPT ![p] = todo[p]] = todo
        /\ [batch EXCEPT ![p] = batch[p]] = batch /\ [sent EXCEPT ![p] = sent[p]] = sent
    BY CallOf
  <1>3. /\ snap' \in [Processors -> SUBSET Ids] /\ sent[p] <= Len(batch[p]) /\ UNCHANGED <<alerts, succeeded>>
        /\ batch' = [batch EXCEPT ![p] = batch[p]]
    BY <1>1, <1>2 DEF AlertTypes, Locals, tableVars
  <1>4. PICK end \in Nat : /\ sent[p] <= end /\ end <= Len(batch[p])
                           /\ Len(Chunk(p)) = end - sent[p]
                           /\ SetOf(Chunk(p)) = {batch[p][i] : i \in (sent[p] + 1)..end}
    BY <1>2, <1>3, ChunkIs
  <1>5. /\ reached' \in [Ids -> Nat]
        /\ \A a \in Ids : reached'[a] \in Nat /\ reached'[a] >= reached[a]
        /\ PostSucceeds(SetOf(Chunk(p))) => \A a \in SetOf(Chunk(p)) \cap Ids : reached'[a] > 0
    BY <1>1, <1>2, PostArrives
  <1>6. NotifiedOnlyIfReached' /\ AttemptsTruthful'
    BY <1>1, <1>3, <1>5, TablesStand
  <1>7. /\ alerts' \in Seq(AlertRow) /\ Len(alerts') = Len(alerts) /\ succeeded' \subseteq Ids
    BY <1>2, <1>3 DEF AlertTypes
  <1>8. /\ Len(batch[p]) \in Nat /\ \A i \in 1..Len(batch[p]) : batch[p][i] \in Ids
        /\ \A i \in 1..sent[p] : reached[batch[p][i]] > 0
    BY <1>1, <1>2, IdSeq DEF Claims
  <1>9. \A i \in 1..sent[p] : reached'[batch[p][i]] > 0
    <2>1. ASSUME NEW i \in 1..sent[p] PROVE reached'[batch[p][i]] > 0
      <3>1. batch[p][i] \in Ids
        BY <1>2, <1>3, <1>8
      <3>2. reached[batch[p][i]] \in Nat /\ reached'[batch[p][i]] >= reached[batch[p][i]]
        BY <1>2, <1>5, <3>1 DEF AlertTypes
      <3>3. reached'[batch[p][i]] \in Nat /\ reached[batch[p][i]] > 0
        BY <1>5, <1>8, <3>1
      <3>4. QED BY <3>2, <3>3
    <2>2. QED BY <2>1
  <1>10. PICK n \in Nat :
            /\ n <= Len(batch[p]) /\ sent' = [sent EXCEPT ![p] = n]
            /\ \A i \in 1..n : reached'[batch[p][i]] > 0
            /\ \/ UNCHANGED <<stage, todo>>
               \/ /\ stage' = [stage EXCEPT ![p] = "attempts"]
                  /\ todo' = [todo EXCEPT ![p] = DeliveredIds(p, n)]
    <2>1. CASE /\ PostSucceeds(SetOf(Chunk(p)))
               /\ sent' = [sent EXCEPT ![p] = @ + Len(Chunk(p))]
               /\ IF sent'[p] = Len(batch[p])
                  THEN PostingEnds(p, sent'[p]) ELSE UNCHANGED <<stage, todo>>
      <3>1. sent' = [sent EXCEPT ![p] = end]
        <4>1. sent[p] + Len(Chunk(p)) = end
          BY <1>2, <1>4
        <4>2. sent' = [sent EXCEPT ![p] = sent[p] + Len(Chunk(p))]
          BY <2>1
        <4>3. QED BY <4>1, <4>2
      <3>2. sent'[p] = end
        BY <1>2, <3>1 DEF AlertTypes
      <3>3. ASSUME NEW i \in 1..end PROVE reached'[batch[p][i]] > 0
        <4>1. CASE i \in 1..sent[p]
          BY <1>9, <4>1
        <4>2. CASE i \notin 1..sent[p]
          <5>1. i \in (sent[p] + 1)..end
            BY <1>2, <4>2
          <5>2. batch[p][i] \in SetOf(Chunk(p)) /\ batch[p][i] \in Ids
            BY <1>4, <1>8, <5>1
          <5>3. QED BY <1>5, <2>1, <5>2
        <4>3. QED BY <4>1, <4>2
      <3>4. \/ UNCHANGED <<stage, todo>>
            \/ /\ stage' = [stage EXCEPT ![p] = "attempts"]
               /\ todo' = [todo EXCEPT ![p] = DeliveredIds(p, end)]
        BY <2>1, <3>2 DEF PostingEnds, To
      <3>5. QED BY <1>4, <3>1, <3>3, <3>4
    <2>2. CASE PostingEnds(p, sent[p]) /\ UNCHANGED sent
      BY <1>2, <1>3, <1>9, <2>2 DEF PostingEnds, To
    <2>3. QED BY <2>1, <2>2 DEF SendChunk
  <1>11. DeliveredIds(p, n) \in Seq(Ids) /\ "attempts" \in AtStages /\ "post" \in AtStages
    BY <1>2, <1>10, DeliveredIdsAre DEF AtStages
  <1>12. UNCHANGED <<byHand, world, eval, retry>> /\ UNCHANGED <<world, succeeded>>
    BY <1>1, <1>3
  <1>13. CASE UNCHANGED <<stage, todo>>
    <2>1. stage' = [stage EXCEPT ![p] = "post"] /\ todo' = [todo EXCEPT ![p] = todo[p]]
      BY <1>1, <1>2, <1>13
    <2>2. stage'[p] = "post" /\ todo'[p] = todo[p] /\ batch'[p] = batch[p] /\ sent'[p] = n
              => Locals(p)' /\ Claims(p)' /\ AskedIfAlone(p)'
      BY <1>1, <1>2, <1>10, <1>12, PostedFits
    <2>3. stage[p] # "idle" /\ todo[p] \in Seq(Ids) /\ batch[p] \in Seq(Ids) /\ sent' = [sent EXCEPT ![p] = n]
      BY <1>1, <1>2, <1>10
    <2>4. /\ snap' \in [Processors -> SUBSET Ids] /\ batch' = [batch EXCEPT ![p] = batch[p]]
      BY <1>3
    <2>5. QED BY <1>5, <1>6, <1>7, <1>11, <1>12, <2>1, <2>2, <2>3, <2>4, ActiveStep
  <1>14. CASE /\ stage' = [stage EXCEPT ![p] = "attempts"]
              /\ todo' = [todo EXCEPT ![p] = DeliveredIds(p, n)]
    <2>2. stage'[p] = "attempts" /\ todo'[p] = DeliveredIds(p, n) /\ batch'[p] = batch[p] /\ sent'[p] = n
              => Locals(p)' /\ Claims(p)' /\ AskedIfAlone(p)'
      BY <1>1, <1>2, <1>10, <1>12, PostedFits
    <2>3. stage[p] # "idle" /\ batch[p] \in Seq(Ids) /\ sent' = [sent EXCEPT ![p] = n]
      BY <1>1, <1>2, <1>10
    <2>4. /\ snap' \in [Processors -> SUBSET Ids] /\ batch' = [batch EXCEPT ![p] = batch[p]]
      BY <1>3
    <2>5. QED BY <1>5, <1>6, <1>7, <1>11, <1>12, <1>14, <2>2, <2>3, <2>4, ActiveStep
  <1>15. QED BY <1>10, <1>13, <1>14

LEMMA RecordAttemptKeeps ==
    ASSUME AlertInv, NEW p \in Processors, RecordAttempt(p)
    PROVE  AlertInv'
  <1>1. /\ stage[p] = "attempts" /\ stage[p] # "idle" /\ todo[p] # <<>>
        /\ UNCHANGED <<alerts, reached, byHand, world, eval, stage, snap, batch, sent, retry>>
        /\ succeeded' \in {succeeded, Recorded(Current(p), TRUE)}
        /\ todo' = [todo EXCEPT ![p] = Tail(todo[p])]
    BY DEF RecordAttempt, Advance
  <1>2. /\ AlertTypes /\ Locals(p) /\ Claims(p)
        /\ todo[p] \in Seq(Ids) /\ batch[p] \in Seq(Ids) /\ sent[p] \in Nat
        /\ stage' = [stage EXCEPT ![p] = stage[p]] /\ stage[p] \in AtStages
        /\ batch' = [batch EXCEPT ![p] = batch[p]] /\ sent' = [sent EXCEPT ![p] = sent[p]]
    BY <1>1, CallOf
  <1>3. /\ Current(p) = todo[p][1] /\ todo[p][1] \in Ids /\ Tail(todo[p]) \in Seq(Ids)
        /\ Len(todo[p]) \in Nat /\ Len(todo[p]) > 0 /\ Len(Tail(todo[p])) = Len(todo[p]) - 1
        /\ \A i \in 1..Len(Tail(todo[p])) : Tail(todo[p])[i] = todo[p][i + 1]
    BY <1>1, <1>2, IdSeq DEF Current
  <1>4. \A i \in 1..Len(todo[p]) : reached[todo[p][i]] > 0
    BY <1>1, <1>2 DEF Claims
  <1>5. reached[todo[p][1]] > 0 /\ \A i \in 1..Len(Tail(todo[p])) : reached[Tail(todo[p])[i]] > 0
    <2>1. 1 \in 1..Len(todo[p]) /\ \A i \in 1..Len(Tail(todo[p])) : i + 1 \in 1..Len(todo[p])
      BY <1>3
    <2>2. QED BY <1>3, <1>4, <2>1
  <1>6. succeeded' \subseteq Ids /\ AttemptsTruthful'
    BY <1>1, <1>3, <1>5, RecordingIsTrue
  <1>7. /\ reached' \in [Ids -> Nat] /\ snap' \in [Processors -> SUBSET Ids]
        /\ \A a \in Ids : reached'[a] \in Nat /\ reached'[a] >= reached[a]
        /\ alerts' \in Seq(AlertRow) /\ Len(alerts') = Len(alerts)
    BY <1>1, <1>2 DEF AlertTypes
  <1>8. NotifiedOnlyIfReached'
    BY <1>1, <1>7, TablesStand
  <1>9. stage'[p] = stage[p] /\ todo'[p] = Tail(todo[p]) /\ batch'[p] = batch[p] /\ sent'[p] = sent[p]
              => Locals(p)' /\ Claims(p)' /\ AskedIfAlone(p)'
    BY <1>1, <1>2, <1>5 DEF Locals, Claims, Asked, AskedIfAlone
  <1>10. UNCHANGED <<byHand, world, eval, retry>> /\ stage[p] # "idle"
    BY <1>1
  <1>11. /\ todo' = [todo EXCEPT ![p] = Tail(todo[p])] /\ Tail(todo[p]) \in Seq(Ids)
         /\ stage' = [stage EXCEPT ![p] = stage[p]] /\ stage[p] \in AtStages
         /\ batch' = [batch EXCEPT ![p] = batch[p]] /\ sent' = [sent EXCEPT ![p] = sent[p]]
         /\ batch[p] \in Seq(Ids) /\ sent[p] \in Nat
    BY <1>1, <1>2, <1>3
  <1>12. QED BY <1>6, <1>7, <1>8, <1>9, <1>10, <1>11, ActiveStep

LEMMA AttemptsRecordedKeeps ==
    ASSUME AlertInv, NEW p \in Processors, AttemptsRecorded(p)
    PROVE  AlertInv'
  <1>1. /\ stage[p] = "attempts" /\ stage[p] # "idle" /\ todo[p] = <<>>
        /\ UNCHANGED <<tableVars, reached, byHand, world, eval, snap, retry>>
    BY DEF AttemptsRecorded
  <1>2. /\ AlertTypes /\ Locals(p) /\ Claims(p)
        /\ todo[p] \in Seq(Ids) /\ batch[p] \in Seq(Ids) /\ sent[p] \in Nat
        /\ [todo EXCEPT ![p] = todo[p]] = todo
        /\ [batch EXCEPT ![p] = batch[p]] = batch /\ [sent EXCEPT ![p] = sent[p]] = sent
    BY <1>1, CallOf
  <1>3. /\ snap' \in [Processors -> SUBSET Ids] /\ UNCHANGED <<tableVars, reached, byHand, world, eval, retry>>
        /\ stage[p] # "idle" /\ "markAll" \in AtStages /\ "watch" \in AtStages
    BY <1>1, <1>2 DEF AlertTypes, AtStages
  <1>4. CASE sent[p] > 0
    <2>1. /\ stage' = [stage EXCEPT ![p] = "markAll"]
          /\ todo' = [todo EXCEPT ![p] = todo[p]] /\ batch' = [batch EXCEPT ![p] = batch[p]]
          /\ sent' = [sent EXCEPT ![p] = sent[p]]
          /\ todo[p] \in Seq(Ids) /\ batch[p] \in Seq(Ids) /\ sent[p] \in Nat
      BY <1>2, <1>4 DEF AttemptsRecorded, To
    <2>2. stage'[p] = "markAll" /\ todo'[p] = todo[p] /\ batch'[p] = batch[p] /\ sent'[p] = sent[p]
              => Locals(p)' /\ Claims(p)' /\ AskedIfAlone(p)'
      BY <1>1, <1>2 DEF Locals, Claims, Asked, AskedIfAlone
    <2>3. QED BY <1>3, <2>1, <2>2, QuietStep
  <1>5. CASE ~(sent[p] > 0)
    <2>1. /\ stage' = [stage EXCEPT ![p] = "watch"]
          /\ todo' = [todo EXCEPT ![p] = <<>>] /\ batch' = [batch EXCEPT ![p] = <<>>]
          /\ sent' = [sent EXCEPT ![p] = 0]
      BY <1>5 DEF AttemptsRecorded, Abandon, To
    <2>2. QED BY <1>3, <2>1, NoIds, AbandonFits, QuietStep
  <1>6. QED BY <1>4, <1>5

LEMMA MarkBatchKeeps ==
    ASSUME AlertInv, NEW p \in Processors, MarkBatch(p)
    PROVE  AlertInv'
  <1>1. /\ stage[p] = "markAll" /\ stage[p] # "idle"
        /\ UNCHANGED <<succeeded, reached, byHand, world, eval, snap, retry>>
        /\ alerts' \in {alerts, Marked(SetOf(DeliveredIds(p, sent[p])))}
    BY DEF MarkBatch
  <1>2. /\ AlertTypes /\ Locals(p) /\ Claims(p) /\ batch[p] \in Seq(Ids) /\ sent[p] \in Nat
    BY <1>1, CallOf
  <1>3. /\ sent[p] <= Len(batch[p]) /\ \A i \in 1..sent[p] : reached[batch[p][i]] > 0
        /\ snap' \in [Processors -> SUBSET Ids]
    BY <1>1, <1>2 DEF Locals, Claims, AlertTypes
  <1>4. \A a \in SetOf(DeliveredIds(p, sent[p])) : reached[a] > 0
    <2>1. SetOf(DeliveredIds(p, sent[p])) = {batch[p][i] : i \in 1..sent[p]}
      BY <1>2, <1>3, DeliveredIdsAre
    <2>2. QED BY <1>3, <2>1
  <1>5. alerts' \in Seq(AlertRow) /\ Len(alerts') = Len(alerts) /\ NotifiedOnlyIfReached'
    BY <1>1, <1>4, MarkingIsTrue
  <1>6. /\ reached' \in [Ids -> Nat] /\ succeeded' \subseteq Ids
        /\ \A a \in Ids : reached'[a] \in Nat /\ reached'[a] >= reached[a]
    BY <1>1, <1>2 DEF AlertTypes
  <1>7. AttemptsTruthful'
    BY <1>1, <1>6, TablesStand
  <1>8. /\ stage' = [stage EXCEPT ![p] = "watch"] /\ "watch" \in AtStages
        /\ todo' = [todo EXCEPT ![p] = <<>>] /\ batch' = [batch EXCEPT ![p] = <<>>]
        /\ sent' = [sent EXCEPT ![p] = 0]
    BY DEF MarkBatch, Abandon, To, AtStages
  <1>9. UNCHANGED <<byHand, world, eval, retry>> /\ stage[p] # "idle"
    BY <1>1
  <1>10. QED BY <1>3, <1>5, <1>6, <1>7, <1>8, <1>9, NoIds, AbandonFits, ActiveStep

LEMMA NextWatchKeeps ==
    ASSUME AlertInv, NEW p \in Processors, NextWatch(p)
    PROVE  AlertInv'
  <1>1. /\ stage[p] = "watch" /\ stage[p] # "idle"
        /\ UNCHANGED <<tableVars, reached, byHand, world, eval, batch, sent, retry>>
    BY DEF NextWatch
  <1>2. /\ AlertTypes /\ Locals(p) /\ snap[p] \in SUBSET Ids
        /\ todo[p] \in Seq(Ids) /\ batch[p] \in Seq(Ids) /\ sent[p] \in Nat
        /\ [stage EXCEPT ![p] = stage[p]] = stage /\ [todo EXCEPT ![p] = todo[p]] = todo
        /\ batch' = [batch EXCEPT ![p] = batch[p]] /\ sent' = [sent EXCEPT ![p] = sent[p]]
        /\ stage[p] \in AtStages
    BY <1>1, CallOf
  <1>3. sent[p] = 0 /\ batch[p] = <<>>
    BY <1>1, <1>2 DEF Locals
  <1>4. ASSUME NEW st \in {"idle", "watch", "check", "filter"}, NEW td,
               stage'[p] = st /\ todo'[p] = td /\ batch'[p] = batch[p] /\ sent'[p] = sent[p]
        PROVE  Locals(p)' /\ Claims(p)' /\ AskedIfAlone(p)'
    BY <1>3, <1>4, NoIds DEF Locals, Claims, Asked, AskedIfAlone
  <1>5. /\ snap' \in [Processors -> SUBSET Ids]
        /\ \E st \in {"idle", "watch", "check", "filter"}, td \in Seq(Ids) :
              stage' = [stage EXCEPT ![p] = st] /\ todo' = [todo EXCEPT ![p] = td]
    <2>1. CASE snap[p] = {}
      <3>1. stage' = [stage EXCEPT ![p] = "idle"] /\ todo' = [todo EXCEPT ![p] = todo[p]] /\ snap' = snap
        BY <1>2, <2>1 DEF NextWatch, To
      <3>2. QED BY <1>2, <3>1 DEF AlertTypes
    <2>2. CASE snap[p] # {}
      <3>1. PICK w \in {alerts[a].watch : a \in snap[p]} :
              LET group == {a \in snap[p] : alerts[a].watch = w} IN
              /\ snap' = [snap EXCEPT ![p] = @ \ group]
              /\ \/ /\ w \in alive
                    /\ \E rows \in NewestFirst(group) : todo' = [todo EXCEPT ![p] = rows]
                    /\ To(p, IF Cardinality(group) >= BatchThreshold
                             THEN "filter" ELSE "check")
                 \/ UNCHANGED <<stage, todo>>
        BY <2>2 DEF NextWatch
      <3> DEFINE group == {a \in snap[p] : alerts[a].watch = w}
      <3>2. group \in SUBSET Ids
        BY <1>2
      <3> HIDE DEF group
      <3>3. snap' \in [Processors -> SUBSET Ids]
        BY <1>2, <3>1 DEF AlertTypes
      <3>4. CASE /\ \E rows \in NewestFirst(group) : todo' = [todo EXCEPT ![p] = rows]
                 /\ To(p, IF Cardinality(group) >= BatchThreshold THEN "filter" ELSE "check")
        <4>1. PICK rows \in NewestFirst(group) : todo' = [todo EXCEPT ![p] = rows]
          BY <3>4
        <4>2. rows \in Seq(Ids)
          BY <3>2, ListingIsSeq
        <4>3. \E st \in {"check", "filter"} : stage' = [stage EXCEPT ![p] = st]
          BY <3>4 DEF To
        <4>4. QED BY <3>3, <4>1, <4>2, <4>3
      <3>5. CASE UNCHANGED <<stage, todo>>
        BY <1>1, <1>2, <3>3, <3>5
      <3>6. QED BY <3>1, <3>4, <3>5 DEF group
    <2>3. QED BY <2>1, <2>2
  <1>6. PICK st \in {"idle", "watch", "check", "filter"}, td \in Seq(Ids) :
              stage' = [stage EXCEPT ![p] = st] /\ todo' = [todo EXCEPT ![p] = td]
    BY <1>5
  <1>7. /\ UNCHANGED <<tableVars, reached, byHand, world, eval, retry>> /\ stage[p] # "idle"
        /\ snap' \in [Processors -> SUBSET Ids] /\ st \in AtStages
        /\ batch' = [batch EXCEPT ![p] = batch[p]] /\ sent' = [sent EXCEPT ![p] = sent[p]]
        /\ batch[p] \in Seq(Ids) /\ sent[p] \in Nat
    BY <1>1, <1>2, <1>5 DEF AtStages
  <1>8. QED BY <1>4, <1>6, <1>7, QuietStep

LEMMA CrashKeeps ==
    ASSUME AlertInv, NEW p \in Processors, Crash(p)
    PROVE  AlertInv'
  <1>1. /\ stage[p] # "idle" /\ UNCHANGED <<tableVars, reached, byHand, world, eval, retry>>
        /\ stage' = [stage EXCEPT ![p] = "idle"] /\ todo' = [todo EXCEPT ![p] = <<>>]
        /\ batch' = [batch EXCEPT ![p] = <<>>] /\ sent' = [sent EXCEPT ![p] = 0]
        /\ "idle" \in AtStages
    BY DEF Crash, To, AtStages
  <1>2. snap' \in [Processors -> SUBSET Ids]
    BY CallOf DEF Crash, AlertTypes
  <1>3. stage'[p] = "idle" /\ todo'[p] = <<>> /\ batch'[p] = <<>> /\ sent'[p] = 0
              => Locals(p)' /\ Claims(p)' /\ AskedIfAlone(p)'
    BY DEF Locals, Claims, Asked, AskedIfAlone
  <1>4. QED BY <1>1, <1>2, <1>3, NoIds, QuietStep

LEMMA ListPendingAlertsKeeps ==
    ASSUME AlertInv, NEW p \in Processors, ListPendingAlerts(p)
    PROVE  AlertInv'
  <1> DEFINE pending == {a \in DOMAIN alerts : Pending(a)}
  <1>1. /\ stage[p] = "idle"
        /\ UNCHANGED <<tableVars, reached, byHand, alive, summaryOnly, eval, todo, sent, retry>>
        /\ overlapped' = (overlapped \/ retry # None \/ \E q \in Processors \ {p} : stage[q] # "idle")
    BY DEF ListPendingAlerts, Overlapping
  <1>2. /\ AlertTypes /\ Locals(p) /\ snap[p] \in SUBSET Ids
        /\ todo[p] \in Seq(Ids) /\ batch[p] \in Seq(Ids) /\ sent[p] \in Nat
        /\ todo' = [todo EXCEPT ![p] = todo[p]] /\ sent' = [sent EXCEPT ![p] = sent[p]]
        /\ [batch EXCEPT ![p] = batch[p]] = batch
    BY <1>1, CallOf
  <1>3. sent[p] = 0 /\ batch[p] = <<>> /\ UNCHANGED <<alerts, succeeded>>
    BY <1>1, <1>2 DEF Locals, tableVars
  <1>4. pending \in SUBSET Ids
    BY <1>2, Rows
  <1>5. ~overlapped' => ~overlapped /\ retry = None /\ \A q \in Processors \ {p} : stage[q] = "idle"
    BY <1>1
  <1>6. /\ reached' \in [Ids -> Nat] /\ succeeded' \subseteq Ids
        /\ \A a \in Ids : reached'[a] \in Nat /\ reached'[a] >= reached[a]
        /\ alerts' \in Seq(AlertRow) /\ Len(alerts') = Len(alerts)
    BY <1>1, <1>2, <1>3 DEF AlertTypes
  <1>7. NotifiedOnlyIfReached' /\ AttemptsTruthful'
    BY <1>1, <1>3, <1>6, TablesStand
  <1>8. UNCHANGED <<byHand, summaryOnly, eval, retry>> /\ "post" \in AtStages /\ "watch" \in AtStages
    BY <1>1 DEF AtStages
  <1>9. /\ todo' = [todo EXCEPT ![p] = todo[p]] /\ sent' = [sent EXCEPT ![p] = sent[p]]
        /\ todo[p] \in Seq(Ids) /\ sent[p] \in Nat
    BY <1>2
  <1>10. CASE summaryOnly
    <2>1. PICK rows \in NewestFirst(pending) : batch' = [batch EXCEPT ![p] = rows]
      BY <1>10 DEF ListPendingAlerts
    <2>2. rows \in Seq(Ids)
      BY <1>4, ListingIsSeq
    <2>3. stage' = [stage EXCEPT ![p] = "post"] /\ snap' \in [Processors -> SUBSET Ids]
      BY <1>2, <1>10 DEF ListPendingAlerts, To, AlertTypes
    <2>4. Len(rows) \in Nat
      BY <2>2, IdSeq
    <2>5. stage'[p] = "post" /\ todo'[p] = todo[p] /\ batch'[p] = rows /\ sent'[p] = sent[p]
              => Locals(p)' /\ Claims(p)' /\ AskedIfAlone(p)'
      BY <1>3, <1>8, <1>10, <2>4 DEF Locals, Claims, AskedIfAlone
    <2>6. QED BY <1>5, <1>6, <1>7, <1>8, <1>9, <2>1, <2>2, <2>3, <2>5, CallStep
  <1>11. CASE ~summaryOnly
    <2>1. /\ stage' = [stage EXCEPT ![p] = "watch"] /\ snap' \in [Processors -> SUBSET Ids]
          /\ batch' = [batch EXCEPT ![p] = batch[p]] /\ batch[p] \in Seq(Ids)
      <3>1. stage' = [stage EXCEPT ![p] = "watch"] /\ snap' = [snap EXCEPT ![p] = pending] /\ batch' = batch
        BY <1>11 DEF ListPendingAlerts, To
      <3>2. snap' \in [Processors -> SUBSET Ids]
        BY <1>2, <1>4, <3>1 DEF AlertTypes
      <3>3. QED BY <1>2, <3>1, <3>2
    <2>2. stage'[p] = "watch" /\ todo'[p] = todo[p] /\ batch'[p] = batch[p] /\ sent'[p] = sent[p]
              => Locals(p)' /\ Claims(p)' /\ AskedIfAlone(p)'
      BY <1>3 DEF Locals, Claims, Asked, AskedIfAlone
    <2>3. QED BY <1>5, <1>6, <1>7, <1>8, <1>9, <2>1, <2>2, CallStep
  <1>12. QED BY <1>10, <1>11

-----------------------------------------------------------------------------
(* The steps outside ProcessAlerts.                                        *)

\* A step that writes rows or evaluates, and sends nothing.
LEMMA RowStep ==
    ASSUME AlertInv, UNCHANGED <<succeeded, reached, byHand, summaryOnly, overlapped, procVars, retry>>,
           alerts' \in Seq(AlertRow), Len(alerts') <= MaxAlerts,
           eval' \in [Evaluators -> (Watches \X Listings) \cup {None}],
           NotifiedOnlyIfReached'
    PROVE  AlertInv'
  <1>1. UNCHANGED <<stage, snap, todo, batch, sent>>
    BY DEF procVars
  <1>2. AlertTypes /\ AttemptsTruthful /\ RetryTruthful /\ Undisturbed
    BY DEF AlertInv
  <1>3. AlertTypes'
    BY <1>1, <1>2 DEF AlertTypes
  <1>4. AttemptsTruthful' /\ RetryTruthful'
    BY <1>2 DEF AttemptsTruthful, RetryTruthful
  <1>5. Undisturbed'
    BY <1>1, <1>2 DEF Undisturbed
  <1>6. QED BY <1>3, <1>4, <1>5, OutsideFrame

LEMMA EvaluateAlertKeeps ==
    ASSUME AlertInv, NEW e \in Evaluators, NEW w \in Watches, NEW l \in Listings, EvaluateAlert(e, w, l)
    PROVE  AlertInv'
  <1>1. AlertTypes /\ NotifiedOnlyIfReached
    BY DEF AlertInv
  <1>2. /\ eval' = [eval EXCEPT ![e] = <<w, l>>]
        /\ UNCHANGED <<alerts, succeeded, reached, byHand, summaryOnly, overlapped, procVars, retry>>
    BY DEF EvaluateAlert, tableVars, world
  <1>3. eval' \in [Evaluators -> (Watches \X Listings) \cup {None}]
    BY <1>1, <1>2 DEF AlertTypes
  <1>4. alerts' \in Seq(AlertRow) /\ Len(alerts') <= MaxAlerts /\ NotifiedOnlyIfReached'
    BY <1>1, <1>2 DEF AlertTypes, NotifiedOnlyIfReached
  <1>5. QED BY <1>2, <1>3, <1>4, RowStep

\* A new row is not notified.
LEMMA InsertedRows ==
    ASSUME AlertInv, NEW w \in Watches, NEW l \in Listings, alerts' = Inserted(w, l), UNCHANGED reached
    PROVE  alerts' \in Seq(AlertRow) /\ NotifiedOnlyIfReached'
  <1>1. AlertTypes /\ NotifiedOnlyIfReached /\ alerts \in Seq(AlertRow)
    BY DEF AlertInv, AlertTypes
  <1>2. CASE alerts' = alerts
    BY <1>1, <1>2 DEF NotifiedOnlyIfReached
  <1>3. CASE alerts' = Append(alerts, NewAlert(w, l))
    <2>1. NewAlert(w, l) \in AlertRow /\ NewAlert(w, l).notified = FALSE
      BY DEF NewAlert, AlertRow
    <2>2. /\ Append(alerts, NewAlert(w, l)) \in Seq(AlertRow)
          /\ Len(Append(alerts, NewAlert(w, l))) = Len(alerts) + 1
          /\ \A i \in 1..Len(alerts) : Append(alerts, NewAlert(w, l))[i] = alerts[i]
          /\ Append(alerts, NewAlert(w, l))[Len(alerts) + 1] = NewAlert(w, l)
      BY <1>1, <2>1, AppendProperties
    <2>3. DOMAIN alerts' = 1..(Len(alerts) + 1) /\ DOMAIN alerts = 1..Len(alerts) /\ Len(alerts) \in Nat
      BY <1>1, <1>3, <2>2, LenProperties
    <2>4. ASSUME NEW a \in DOMAIN alerts', alerts'[a].notified PROVE reached'[a] > 0
      <3>1. a \in 1..Len(alerts)
        BY <1>3, <2>1, <2>2, <2>3, <2>4
      <3>2. QED BY <1>1, <1>3, <2>2, <2>3, <2>4, <3>1 DEF NotifiedOnlyIfReached
    <2>5. QED BY <1>3, <2>2, <2>4 DEF NotifiedOnlyIfReached
  <1>4. QED BY <1>2, <1>3 DEF Inserted

LEMMA CreateAlertKeeps ==
    ASSUME AlertInv, NEW e \in Evaluators, CreateAlert(e)
    PROVE  AlertInv'
  <1>1. AlertTypes /\ NotifiedOnlyIfReached
    BY DEF AlertInv
  <1>2. /\ eval[e] # None /\ eval' = [eval EXCEPT ![e] = None]
        /\ UNCHANGED <<succeeded, reached, byHand, summaryOnly, overlapped, procVars, retry>>
    BY DEF CreateAlert, world
  <1>3. eval' \in [Evaluators -> (Watches \X Listings) \cup {None}]
    BY <1>1, <1>2 DEF AlertTypes
  <1>4. eval[e][1] \in Watches /\ eval[e][2] \in Listings
    <2>1. eval[e] \in Watches \X Listings
      BY <1>1, <1>2 DEF AlertTypes
    <2>2. QED BY <2>1
  <1>5. alerts' \in Seq(AlertRow) /\ Len(alerts') <= MaxAlerts /\ NotifiedOnlyIfReached'
    <2>1. CASE alerts' = Inserted(eval[e][1], eval[e][2]) /\ Len(alerts') <= MaxAlerts
      BY <1>2, <1>4, <2>1, InsertedRows
    <2>2. CASE UNCHANGED alerts
      BY <1>1, <1>2, <2>2 DEF AlertTypes, NotifiedOnlyIfReached
    <2>3. QED BY <2>1, <2>2 DEF CreateAlert
  <1>6. QED BY <1>2, <1>3, <1>5, RowStep

\* A row of the table gets another value of a field that no claim rests on.
LEMMA EditedRow ==
    ASSUME AlertInv, NEW a \in DOMAIN alerts, NEW row \in AlertRow, row.notified = alerts[a].notified,
           alerts' = [alerts EXCEPT ![a] = row], UNCHANGED reached
    PROVE  alerts' \in Seq(AlertRow) /\ Len(alerts') <= MaxAlerts /\ NotifiedOnlyIfReached'
  <1>1. AlertTypes /\ NotifiedOnlyIfReached
    BY DEF AlertInv
  <1>2. \A b \in DOMAIN alerts : alerts[b] \in AlertRow
    BY <1>1, Rows
  <1>3. alerts \in [DOMAIN alerts -> AlertRow]
    <2>1. alerts \in Seq(AlertRow)
      BY <1>1 DEF AlertTypes
    <2>2. alerts \in [1..Len(alerts) -> AlertRow] /\ DOMAIN alerts = 1..Len(alerts)
      BY <2>1, LenProperties
    <2>3. QED BY <2>2
  <1>4. alerts' \in [DOMAIN alerts -> AlertRow]
    BY <1>3
  <1>5. alerts' \in Seq(AlertRow) /\ Len(alerts') = Len(alerts) /\ DOMAIN alerts' = DOMAIN alerts
    BY <1>1, <1>4, ChangedRows
  <1>6. \A b \in DOMAIN alerts : alerts'[b].notified => alerts[b].notified
    BY <1>3
  <1>7. QED BY <1>1, <1>5, <1>6 DEF NotifiedOnlyIfReached, AlertTypes

LEMMA EditKeeps ==
    ASSUME AlertInv, NEW a \in DOMAIN alerts, CooldownElapses(a) \/ DismissAlert(a) \/ RestoreAlert(a)
    PROVE  AlertInv'
  <1>1. AlertTypes /\ alerts[a] \in AlertRow
    BY Rows DEF AlertInv
  <1>2. UNCHANGED <<succeeded, reached, byHand, summaryOnly, overlapped, procVars, retry, eval>>
    BY DEF CooldownElapses, DismissAlert, RestoreAlert, SetDismissed, world
  <1>3. PICK row \in AlertRow : row.notified = alerts[a].notified /\ alerts' = [alerts EXCEPT ![a] = row]
    <2>1. CASE CooldownElapses(a)
      <3>1. [alerts[a] EXCEPT !.recent = FALSE] \in AlertRow
        BY <1>1 DEF AlertRow
      <3>2. [alerts[a] EXCEPT !.recent = FALSE].notified = alerts[a].notified
        BY <1>1 DEF AlertRow
      <3>3. alerts' = [alerts EXCEPT ![a] = [alerts[a] EXCEPT !.recent = FALSE]]
        BY <2>1 DEF CooldownElapses
      <3>4. QED BY <3>1, <3>2, <3>3
    <2>2. CASE DismissAlert(a) \/ RestoreAlert(a)
      <3>1. PICK to \in BOOLEAN : SetDismissed(a, to)
        BY <2>2 DEF DismissAlert, RestoreAlert
      <3>2. [alerts[a] EXCEPT !.dismissed = to] \in AlertRow
        BY <1>1 DEF AlertRow
      <3>3. [alerts[a] EXCEPT !.dismissed = to].notified = alerts[a].notified
        BY <1>1 DEF AlertRow
      <3>4. alerts' = [alerts EXCEPT ![a] = [alerts[a] EXCEPT !.dismissed = to]]
        BY <3>1 DEF SetDismissed
      <3>5. QED BY <3>2, <3>3, <3>4
    <2>3. QED BY <2>1, <2>2
  <1>4. alerts' \in Seq(AlertRow) /\ Len(alerts') <= MaxAlerts /\ NotifiedOnlyIfReached'
    BY <1>2, <1>3, EditedRow
  <1>5. eval' \in [Evaluators -> (Watches \X Listings) \cup {None}]
    BY <1>1, <1>2 DEF AlertTypes
  <1>6. QED BY <1>2, <1>4, <1>5, RowStep

LEMMA DeleteWatchKeeps ==
    ASSUME AlertInv, NEW w \in Watches, DeleteWatch(w)
    PROVE  AlertInv'
  <1>1. AlertTypes /\ NotifiedOnlyIfReached
    BY DEF AlertInv
  <1>2. UNCHANGED <<alerts, succeeded, reached, byHand, summaryOnly, overlapped, procVars, retry, eval>>
    BY DEF DeleteWatch, tableVars
  <1>3. /\ alerts' \in Seq(AlertRow) /\ Len(alerts') <= MaxAlerts /\ NotifiedOnlyIfReached'
        /\ eval' \in [Evaluators -> (Watches \X Listings) \cup {None}]
    BY <1>1, <1>2 DEF AlertTypes, NotifiedOnlyIfReached
  <1>4. QED BY <1>2, <1>3, RowStep

LEMMA RetrySendKeeps ==
    ASSUME AlertInv, NEW a \in DOMAIN alerts, RetrySend(a)
    PROVE  AlertInv'
  <1>1. AlertTypes /\ NotifiedOnlyIfReached /\ AttemptsTruthful /\ a \in Ids
    BY Rows DEF AlertInv
  <1>2. /\ UNCHANGED <<alerts, succeeded, reached, summaryOnly, eval, procVars>>
        /\ overlapped' = (overlapped \/ FALSE \/ \E q \in Processors : stage[q] # "idle")
    BY DEF RetrySend, Overlapping, tableVars
  <1>3. PICK ok \in BOOLEAN : /\ retry' = [alert |-> a, ok |-> ok]
                              /\ byHand' \in IF ok THEN {byHand \cup {a}} ELSE {byHand, byHand \cup {a}}
    BY DEF RetrySend
  <1>4. byHand \subseteq byHand' /\ (ok => a \in byHand')
    BY <1>3
  <1>5. UNCHANGED <<stage, snap, todo, batch, sent>>
    BY <1>2 DEF procVars
  <1>6. AlertTypes'
    <2>1. retry' \in [alert : Ids, ok : BOOLEAN]
      BY <1>1, <1>3
    <2>2. QED BY <1>1, <1>2, <1>5, <2>1 DEF AlertTypes
  <1>7. NotifiedOnlyIfReached' /\ AttemptsTruthful'
    BY <1>1, <1>2, <1>4 DEF NotifiedOnlyIfReached, AttemptsTruthful
  <1>8. RetryTruthful'
    BY <1>3, <1>4 DEF RetryTruthful
  <1>9. Undisturbed'
    BY <1>2, <1>5 DEF Undisturbed
  <1>10. QED BY <1>2, <1>6, <1>7, <1>8, <1>9, OutsideFrame

LEMMA RetryRecordKeeps ==
    ASSUME AlertInv, RetryRecord
    PROVE  AlertInv'
  <1>1. AlertTypes /\ NotifiedOnlyIfReached /\ AttemptsTruthful /\ RetryTruthful /\ Undisturbed
    BY DEF AlertInv
  <1>2. /\ UNCHANGED <<alerts, reached, byHand, summaryOnly, overlapped, eval, procVars>>
        /\ retry # None /\ retry' = None
        /\ succeeded' \in {succeeded, Recorded(retry.alert, retry.ok)}
    BY DEF RetryRecord, world
  <1>3. UNCHANGED <<stage, snap, todo, batch, sent>>
    BY <1>2 DEF procVars
  <1>4. retry.alert \in Ids
    BY <1>1, <1>2 DEF AlertTypes
  <1>5. \A x \in succeeded' : x \in succeeded \/ (x = retry.alert /\ retry.ok)
    BY <1>2 DEF Recorded
  <1>6. AlertTypes'
    <2>1. succeeded' \subseteq Ids
      BY <1>1, <1>4, <1>5 DEF AlertTypes
    <2>2. QED BY <1>1, <1>2, <1>3, <2>1 DEF AlertTypes
  <1>7. NotifiedOnlyIfReached' /\ AttemptsTruthful'
    BY <1>1, <1>2, <1>5 DEF NotifiedOnlyIfReached, AttemptsTruthful, RetryTruthful
  <1>8. RetryTruthful' /\ Undisturbed'
    BY <1>1, <1>2, <1>3 DEF RetryTruthful, Undisturbed
  <1>9. ~overlapped' => \A p \in Processors : stage[p] = "idle"
    BY <1>1, <1>2 DEF Undisturbed
  <1>10. QED BY <1>2, <1>6, <1>7, <1>8, <1>9, OutsideFrame

-----------------------------------------------------------------------------
(* The theorems.                                                           *)

LEMMA AlertStep == AlertInv /\ [Next]_vars => AlertInv'
  <1> SUFFICES ASSUME AlertInv, [Next]_vars PROVE AlertInv'
    OBVIOUS
  <1>1. ASSUME NEW e \in Evaluators, NEW w \in Watches, NEW l \in Listings, EvaluateAlert(e, w, l)
        PROVE  AlertInv'
    BY <1>1, EvaluateAlertKeeps
  <1>2. ASSUME NEW e \in Evaluators, CreateAlert(e) PROVE AlertInv'
    BY <1>2, CreateAlertKeeps
  <1>3. ASSUME NEW p \in Processors, ProcessorStep(p) PROVE AlertInv'
    BY <1>3, ListPendingAlertsKeeps, NextWatchKeeps, CheckSingleKeeps, SendSingleKeeps,
       AttemptSingleKeeps, MarkSingleKeeps, FilterBatchKeeps, BatchBuiltKeeps, SendChunkKeeps,
       RecordAttemptKeeps, AttemptsRecordedKeeps, MarkBatchKeeps DEF ProcessorStep
  <1>4. ASSUME NEW p \in Processors, Crash(p) PROVE AlertInv'
    BY <1>4, CrashKeeps
  <1>5. ASSUME NEW a \in DOMAIN alerts, RetrySend(a) PROVE AlertInv'
    BY <1>5, RetrySendKeeps
  <1>6. ASSUME NEW a \in DOMAIN alerts, CooldownElapses(a) \/ DismissAlert(a) \/ RestoreAlert(a)
        PROVE  AlertInv'
    BY <1>6, EditKeeps
  <1>7. ASSUME NEW w \in Watches, DeleteWatch(w) PROVE AlertInv'
    BY <1>7, DeleteWatchKeeps
  <1>8. CASE UNCHANGED vars
    <2>1. /\ UNCHANGED <<succeeded, reached, byHand, summaryOnly, overlapped, procVars, retry>>
          /\ UNCHANGED <<alerts, eval>>
      BY <1>8 DEF vars, tableVars, world
    <2>2. AlertTypes /\ NotifiedOnlyIfReached
      BY DEF AlertInv
    <2>3. /\ alerts' \in Seq(AlertRow) /\ Len(alerts') <= MaxAlerts /\ NotifiedOnlyIfReached'
          /\ eval' \in [Evaluators -> (Watches \X Listings) \cup {None}]
      BY <2>1, <2>2 DEF AlertTypes, NotifiedOnlyIfReached
    <2>4. QED BY <2>1, <2>3, RowStep
  <1>9. QED BY <1>1, <1>2, <1>3, <1>4, <1>5, <1>6, <1>7, <1>8, RetryRecordKeeps DEF Next

\* The inductive invariant of the alert pipeline holds in every reachable
\* state: what each call of ProcessAlerts is about to write is true.
THEOREM AlertInvariant == Spec => []AlertInv
  BY InitAlertInv, AlertStep, PTL DEF Spec

\* MarkAlertNotified and MarkAlertsNotified flag only alerts whose own embed got
\* into Discord, for any batch cut short and any crash between two writes.
THEOREM FlagsAreTrue == Spec => []NotifiedOnlyIfReached
  BY AlertInvariant, PTL DEF AlertInv

\* InsertNotificationAttempt records a success only for an embed that arrived,
\* posted by ProcessAlerts or by the Retry handler.
THEOREM AttemptsAreTrue == Spec => []AttemptsTruthful
  BY AlertInvariant, PTL DEF AlertInv

\* Only the two posts bring embeds into Discord, and only their own.
LEMMA OnlyPostsArrive ==
    ASSUME AlertInv, [Next]_vars, NEW a \in Ids, reached'[a] > reached[a]
    PROVE  \E p \in Processors : \/ SendSingle(p) /\ a = todo[p][1]
                                 \/ /\ SendChunk(p)
                                    /\ \E i \in 1..Len(batch[p]) : a = batch[p][i]
  <1>1. reached' # reached
    BY DEF AlertInv, AlertTypes
  <1>2. PICK p \in Processors : SendSingle(p) \/ SendChunk(p)
    BY <1>1 DEF Next, vars, EvaluateAlert, CreateAlert, ProcessorStep, Crash, RetrySend, RetryRecord,
       CooldownElapses, DismissAlert, RestoreAlert, SetDismissed, DeleteWatch, ListPendingAlerts, NextWatch,
       CheckSingle, AttemptSingle, MarkSingle, FilterBatch, BatchBuilt, RecordAttempt,
       AttemptsRecorded, MarkBatch
  <1>3. CASE SendSingle(p)
    <2>1. Current(p) = todo[p][1]
      BY <1>3, CallOf, IdSeq DEF SendSingle, Locals, Current
    <2>2. a \in {Current(p)}
      BY <1>3, CallOf, PostArrives DEF SendSingle
    <2>3. QED BY <1>3, <2>1, <2>2
  <1>4. CASE SendChunk(p)
    <2>1. batch[p] \in Seq(Ids) /\ sent[p] \in Nat /\ sent[p] <= Len(batch[p])
      BY <1>4, CallOf DEF SendChunk, Locals
    <2>2. PICK end \in Nat : /\ sent[p] <= end /\ end <= Len(batch[p])
                             /\ SetOf(Chunk(p)) = {batch[p][i] : i \in (sent[p] + 1)..end}
      BY <2>1, ChunkIs
    <2>3. a \in SetOf(Chunk(p))
      BY <1>4, CallOf, PostArrives DEF SendChunk
    <2>4. PICK i \in (sent[p] + 1)..end : a = batch[p][i]
      BY <2>2, <2>3
    <2>5. Len(batch[p]) \in Nat
      BY <2>1, IdSeq
    <2>6. i \in 1..Len(batch[p])
      BY <2>1, <2>2, <2>4, <2>5
    <2>7. QED BY <1>4, <2>4, <2>6
  <1>5. QED BY <1>2, <1>3, <1>4

\* A call of ProcessAlerts with no other sender beside it, and that asks before
\* it sends, never posts an embed whose delivery is on record, whatever failed
\* or crashed before.
THEOREM NothingIsSentTwice == Spec => NotResent
  <1>1. ASSUME AlertInv, [Next]_vars
        PROVE  [\A a \in Ids : reached'[a] > reached[a] /\ ~summaryOnly /\ ~overlapped
                   => a \notin succeeded]_vars
    <2>1. ASSUME NEW a \in Ids, reached'[a] > reached[a], ~summaryOnly, ~overlapped
          PROVE  a \notin succeeded
      <3>1. PICK p \in Processors : \/ SendSingle(p) /\ a = todo[p][1]
                                    \/ /\ SendChunk(p)
                                       /\ \E i \in 1..Len(batch[p]) : a = batch[p][i]
        BY <1>1, <2>1, OnlyPostsArrive
      <3>2. Asked(p)
        BY <1>1, <2>1 DEF AlertInv, AskedIfAlone
      <3>3. QED BY <3>1, <3>2 DEF Asked, SendSingle, SendChunk
    <2>2. QED BY <2>1
  <1>2. QED BY <1>1, AlertInvariant, PTL DEF Spec, NotResent

-----------------------------------------------------------------------------
(***************************************************************************)
(* The cooldown. OneOpen is the partial unique index; WithinCooldown counts *)
(* the rows of a pair that are open or cooling down together with the       *)
(* evaluators that have asked and not yet inserted. A mark must not wake a  *)
(* row whose cooldown has ended, and that takes InHand: what a call holds   *)
(* has not been marked, and it holds it once.                               *)
(***************************************************************************)
\* A row of a pair that stands for an alert of this cooldown: it may still be
\* notified, or has been.
Live(a) == Exists(a) /\ (~alerts[a].notified \/ alerts[a].recent)
OfPair(a, w, l) == a \in DOMAIN alerts /\ alerts[a].watch = w /\ alerts[a].listing = l
LiveOf(w, l) == {a \in Ids : OfPair(a, w, l) /\ Live(a)}

\* The evaluators that found no recent alert of the pair.
Passed(w, l) == {e \in Evaluators : eval[e] = <<w, l>>}

\* alerts_pending_unique
OneOpen ==
    \A a, b \in DOMAIN alerts :
        /\ Pending(a) /\ Pending(b)
        /\ alerts[a].watch = alerts[b].watch /\ alerts[a].listing = alerts[b].listing
        => a = b

Unmarked(a) == a \in DOMAIN alerts /\ ~alerts[a].notified

\* What a call holds has not been marked, and is marked once.
InHand(p) ==
    /\ stage[p] = "idle" => snap[p] = {}
    /\ \A a \in snap[p] : Unmarked(a)
    /\ stage[p] \in {"check", "send", "attempt", "mark", "filter"} =>
          \A i \in 1..Len(todo[p]) : Unmarked(todo[p][i]) /\ todo[p][i] \notin snap[p]
    /\ stage[p] \in {"check", "send", "attempt", "mark"} =>
          \A i, k \in 1..Len(todo[p]) : todo[p][i] = todo[p][k] => i = k
    /\ \A i \in 1..Len(batch[p]) : Unmarked(batch[p][i]) /\ batch[p][i] \notin snap[p]

WithinCooldown ==
    \A w \in Watches, l \in Listings :
        Cardinality(LiveOf(w, l)) + Cardinality(Passed(w, l)) <= 1 + Cardinality(Evaluators)

CooldownInv ==
    /\ OneOpen
    /\ ~overlapped => WithinCooldown /\ \A p \in Processors : InHand(p)

-----------------------------------------------------------------------------
LEMMA FiniteParts ==
    ASSUME NEW w, NEW l
    PROVE  /\ IsFiniteSet(Evaluators) /\ Cardinality(Evaluators) \in Nat
           /\ IsFiniteSet(LiveOf(w, l)) /\ Cardinality(LiveOf(w, l)) \in Nat
           /\ IsFiniteSet(Passed(w, l)) /\ Cardinality(Passed(w, l)) \in Nat
           /\ Cardinality(Passed(w, l)) <= Cardinality(Evaluators)
  <1>1. IsFiniteSet(Evaluators) /\ IsFiniteSet(Ids)
    BY IdsAreNat, FS_Interval, AlertConstants DEF Ids
  <1>2. LiveOf(w, l) \subseteq Ids /\ Passed(w, l) \subseteq Evaluators
    BY DEF LiveOf, Passed
  <1>3. IsFiniteSet(LiveOf(w, l)) /\ IsFiniteSet(Passed(w, l)) /\ Cardinality(Passed(w, l)) <= Cardinality(Evaluators)
    BY <1>1, <1>2, FS_Subset
  <1>4. QED BY <1>1, <1>3, FS_CardinalityType

\* The claims on the cooldown of a pair do not grow while its rows and its
\* evaluators only lose.
LEMMA NoNewClaims ==
    ASSUME NEW w, NEW l, LiveOf(w, l)' \subseteq LiveOf(w, l), Passed(w, l)' \subseteq Passed(w, l)
    PROVE  Cardinality(LiveOf(w, l))' + Cardinality(Passed(w, l))'
               <= Cardinality(LiveOf(w, l)) + Cardinality(Passed(w, l))
  <1>1. /\ Cardinality(LiveOf(w, l)') <= Cardinality(LiveOf(w, l)) /\ Cardinality(LiveOf(w, l)') \in Nat
        /\ Cardinality(Passed(w, l)') <= Cardinality(Passed(w, l)) /\ Cardinality(Passed(w, l)') \in Nat
    BY FiniteParts, FS_Subset, FS_CardinalityType
  <1>2. QED BY <1>1, FiniteParts

\* What the step of a row may be, other than an insert.
RowLoses(a) ==
    /\ a \in DOMAIN alerts
    /\ alerts'[a].watch = alerts[a].watch /\ alerts'[a].listing = alerts[a].listing
    /\ Pending(a)' => Pending(a)
    /\ ~overlapped' => (Live(a)' => Live(a))

RowsLose == \A a \in DOMAIN alerts' : RowLoses(a)

EvalLoses ==
    \A e \in Evaluators, w \in Watches, l \in Listings : eval'[e] = <<w, l>> => eval[e] = <<w, l>>

LEMMA ClaimsShrink ==
    ASSUME CooldownInv, RowsLose, EvalLoses, ~overlapped' => ~overlapped,
           ~overlapped' => \A p \in Processors : InHand(p)'
    PROVE  CooldownInv'
  <1>1. OneOpen'
    BY DEF CooldownInv, OneOpen, RowsLose, RowLoses, Pending
  <1>2. ASSUME ~overlapped', NEW w \in Watches, NEW l \in Listings
        PROVE  (Cardinality(LiveOf(w, l)) + Cardinality(Passed(w, l)) <= 1 + Cardinality(Evaluators))'
    <2>1. LiveOf(w, l)' \subseteq LiveOf(w, l)
      BY <1>2 DEF LiveOf, OfPair, RowsLose, RowLoses
    <2>2. Passed(w, l)' \subseteq Passed(w, l)
      BY DEF Passed, EvalLoses
    <2>3. Cardinality(LiveOf(w, l))' + Cardinality(Passed(w, l))'
               <= Cardinality(LiveOf(w, l)) + Cardinality(Passed(w, l))
      BY <2>1, <2>2, NoNewClaims
    <2>4. Cardinality(LiveOf(w, l)) + Cardinality(Passed(w, l)) <= 1 + Cardinality(Evaluators)
      BY <1>2 DEF CooldownInv, WithinCooldown
    <2>5. /\ Cardinality(LiveOf(w, l)) \in Nat /\ Cardinality(Passed(w, l)) \in Nat
          /\ Cardinality(LiveOf(w, l))' \in Nat /\ Cardinality(Passed(w, l))' \in Nat
          /\ Cardinality(Evaluators) \in Nat
      <3>1. Cardinality(LiveOf(w, l)') \in Nat /\ Cardinality(Passed(w, l)') \in Nat
        BY <2>1, <2>2, FiniteParts, FS_Subset, FS_CardinalityType
      <3>2. QED BY <3>1, FiniteParts
    <2>6. QED BY <2>3, <2>4, <2>5
  <1>3. QED BY <1>1, <1>2 DEF CooldownInv, WithinCooldown

\* The other calls are idle and hold nothing.
LEMMA IdleHolds ==
    ASSUME AlertInv, CooldownInv, ~overlapped, NEW q \in Processors, stage[q] = "idle",
           stage'[q] = stage[q], snap'[q] = snap[q], batch'[q] = batch[q]
    PROVE  InHand(q)'
  <1>1. batch[q] = <<>> /\ Len(batch[q]) = 0
    BY CallOf, NoIds DEF Locals
  <1>2. snap[q] = {}
    BY DEF CooldownInv, InHand
  <1>3. QED BY <1>1, <1>2 DEF InHand

\* Rows that nothing touches lose nothing.
LEMMA SameRows ==
    ASSUME UNCHANGED <<alerts, alive>>
    PROVE  RowsLose /\ \A a : Unmarked(a)' = Unmarked(a)
  BY DEF RowsLose, RowLoses, Pending, Exists, Live, Unmarked

\* A step of the call of p that keeps what it holds unmarked.
LEMMA CallKeepsCooldown ==
    ASSUME AlertInv, CooldownInv, NEW p \in Processors, RowsLose, UNCHANGED eval,
           \A q \in Processors \ {p} : stage'[q] = stage[q] /\ snap'[q] = snap[q] /\ batch'[q] = batch[q],
           ~overlapped' => ~overlapped /\ \A q \in Processors \ {p} : stage[q] = "idle",
           ~overlapped' /\ ~overlapped /\ InHand(p) => InHand(p)'
    PROVE  CooldownInv'
  <1>1. ASSUME ~overlapped', NEW q \in Processors PROVE InHand(q)'
    <2>1. CASE q = p
      BY <1>1, <2>1 DEF CooldownInv
    <2>2. CASE q # p
      BY <1>1, <2>2, IdleHolds
    <2>3. QED BY <2>1, <2>2
  <1>2. EvalLoses
    BY DEF EvalLoses
  <1>3. QED BY <1>1, <1>2, ClaimsShrink

\* What p is allowed to do with its locals under its stage.
LEMMA ActiveKeepsCooldown ==
    ASSUME AlertInv, CooldownInv, NEW p \in Processors, stage[p] # "idle",
           RowsLose, UNCHANGED <<eval, world>>,
           NEW st, NEW td, NEW bt, NEW sn,
           stage' = [stage EXCEPT ![p] = st], todo' = [todo EXCEPT ![p] = td],
           batch' = [batch EXCEPT ![p] = bt], snap' = [snap EXCEPT ![p] = sn],
           /\ ~overlapped /\ InHand(p)
           /\ stage'[p] = st /\ todo'[p] = td /\ batch'[p] = bt /\ snap'[p] = sn
           => InHand(p)'
    PROVE  CooldownInv'
  <1>1. AlertTypes /\ UNCHANGED overlapped
    BY DEF AlertInv, world
  <1>2. stage'[p] = st /\ todo'[p] = td /\ batch'[p] = bt /\ snap'[p] = sn
    BY <1>1 DEF AlertTypes
  <1>3. \A q \in Processors \ {p} : stage'[q] = stage[q] /\ snap'[q] = snap[q] /\ batch'[q] = batch[q]
    BY <1>1 DEF AlertTypes
  <1>4. ~overlapped' => ~overlapped /\ \A q \in Processors \ {p} : stage[q] = "idle"
    BY <1>1, OnlyOne
  <1>5. QED BY <1>2, <1>3, <1>4, CallKeepsCooldown

\* MarkAlertNotified and MarkAlertsNotified on alerts that nobody has marked.
LEMMA MarkingLoses ==
    ASSUME AlertInv, NEW S, alerts' \in {alerts, Marked(S)}, UNCHANGED <<alive, overlapped>>,
           ~overlapped => \A a \in S : Unmarked(a)
    PROVE  /\ RowsLose
           /\ \A a : a \notin S /\ Unmarked(a) => Unmarked(a)'
  <1>1. AlertTypes
    BY DEF AlertInv
  <1>2. CASE alerts' = alerts
    BY <1>2, SameRows
  <1>3. CASE alerts' = Marked(S)
    <2>1. /\ DOMAIN alerts' = DOMAIN alerts
          /\ \A a \in DOMAIN alerts : alerts[a] \in AlertRow
          /\ \A a \in DOMAIN alerts : alerts'[a] =
                IF a \in S /\ Exists(a)
                THEN [alerts[a] EXCEPT !.notified = TRUE, !.recent = TRUE] ELSE alerts[a]
      BY <1>1, <1>3, Rows DEF Marked
    <2>2. ASSUME NEW a \in DOMAIN alerts
          PROVE  /\ alerts'[a].watch = alerts[a].watch /\ alerts'[a].listing = alerts[a].listing
                 /\ Exists(a)' = Exists(a)
                 /\ a \in S /\ Exists(a) => alerts'[a].notified
                 /\ ~(a \in S /\ Exists(a)) => alerts'[a] = alerts[a]
      BY <2>1, <2>2 DEF AlertRow, Exists
    <2>3. ASSUME NEW a \in DOMAIN alerts PROVE RowLoses(a)
      <3>1. CASE a \in S /\ Exists(a)
        BY <2>1, <2>2, <3>1 DEF RowLoses, Pending, Live, Unmarked
      <3>2. CASE ~(a \in S /\ Exists(a))
        BY <2>1, <2>2, <3>2 DEF RowLoses, Pending, Live
      <3>3. QED BY <3>1, <3>2
    <2>4. \A a : a \notin S /\ Unmarked(a) => Unmarked(a)'
      BY <2>1 DEF Unmarked
    <2>5. QED BY <2>1, <2>3, <2>4 DEF RowsLose
  <1>4. QED BY <1>2, <1>3

\* A call that gives up the rest of its watch holds what is left of its listing.
LEMMA AbandonHolds ==
    ASSUME NEW p \in Processors, InHand(p),
           \A a \in snap[p] : Unmarked(a) => Unmarked(a)',
           stage'[p] = "watch", batch'[p] = <<>>, snap'[p] = snap[p]
    PROVE  InHand(p)'
  BY NoIds DEF InHand

-----------------------------------------------------------------------------
\* A listing of rows holds each of them once.
LEMMA ListingIsDistinct ==
    ASSUME NEW S \in SUBSET Ids, NEW rows \in NewestFirst(S)
    PROVE  /\ \A i \in 1..Len(rows) : rows[i] \in S
           /\ \A i, k \in 1..Len(rows) : rows[i] = rows[k] => i = k
  <1>1. rows \in Seq(Ids)
    BY ListingIsSeq
  <1>2. DOMAIN rows = 1..Len(rows) /\ Len(rows) \in Nat /\ \A i \in 1..Len(rows) : rows[i] \in Ids
    BY <1>1, IdSeq
  <1>3. rows \in [1..Cardinality(S) -> S] /\ \A i, k \in DOMAIN rows : i < k => rows[i] > rows[k]
    BY DEF NewestFirst
  <1>4. \A i \in 1..Len(rows) : rows[i] \in S
    BY <1>2, <1>3
  <1>5. ASSUME NEW i \in 1..Len(rows), NEW k \in 1..Len(rows), rows[i] = rows[k] PROVE i = k
    <2>1. rows[i] \in Nat /\ rows[k] \in Nat
      BY <1>2, IdsAreNat
    <2>2. ~(i < k) /\ ~(k < i)
      BY <1>2, <1>3, <1>5, <2>1
    <2>3. QED BY <1>2, <2>2
  <1>6. QED BY <1>4, <1>5

\* The rest of a call's list.
LEMMA RestHolds ==
    ASSUME NEW p \in Processors, todo[p] \in Seq(Ids), todo[p] # <<>>, InHand(p),
           stage[p] \in {"check", "send", "attempt", "mark", "filter"}
    PROVE  LET rest == Tail(todo[p]) IN
           /\ todo[p][1] \notin snap[p] /\ Unmarked(todo[p][1])
           /\ \A i \in 1..Len(rest) : Unmarked(rest[i]) /\ rest[i] \notin snap[p]
           /\ stage[p] # "filter" =>
                 /\ \A i \in 1..Len(rest) : rest[i] # todo[p][1]
                 /\ \A i, k \in 1..Len(rest) : rest[i] = rest[k] => i = k
  <1> DEFINE rest == Tail(todo[p])
  <1>1. /\ Len(todo[p]) \in Nat /\ Len(todo[p]) > 0 /\ Len(rest) = Len(todo[p]) - 1
        /\ \A i \in 1..Len(rest) : rest[i] = todo[p][i + 1]
    BY IdSeq
  <1>2. 1 \in 1..Len(todo[p]) /\ \A i \in 1..Len(rest) : i + 1 \in 1..Len(todo[p]) /\ i + 1 # 1
    BY <1>1
  <1>3. todo[p][1] \notin snap[p] /\ Unmarked(todo[p][1])
    BY <1>2 DEF InHand
  <1>4. \A i \in 1..Len(rest) : Unmarked(rest[i]) /\ rest[i] \notin snap[p]
    BY <1>1, <1>2 DEF InHand
  <1>5. ASSUME stage[p] # "filter"
        PROVE  /\ \A i \in 1..Len(rest) : rest[i] # todo[p][1]
               /\ \A i, k \in 1..Len(rest) : rest[i] = rest[k] => i = k
    <2>1. \A i, k \in 1..Len(todo[p]) : todo[p][i] = todo[p][k] => i = k
      BY <1>5 DEF InHand
    <2>2. ASSUME NEW i \in 1..Len(rest) PROVE rest[i] # todo[p][1]
      BY <1>1, <1>2, <2>1
    <2>3. ASSUME NEW i \in 1..Len(rest), NEW k \in 1..Len(rest), rest[i] = rest[k] PROVE i = k
      <3>1. i + 1 = k + 1
        BY <1>1, <1>2, <2>1, <2>3
      <3>2. QED BY <3>1
    <2>4. QED BY <2>2, <2>3
  <1>6. QED BY <1>3, <1>4, <1>5

\* The steps of a call that read, send or record.
LEMMA QuietCooldown ==
    ASSUME AlertInv, CooldownInv, NEW p \in Processors, stage[p] # "idle",
           UNCHANGED <<alerts, eval, world>>,
           NEW st, NEW td, NEW bt, NEW sn,
           stage' = [stage EXCEPT ![p] = st], todo' = [todo EXCEPT ![p] = td],
           batch' = [batch EXCEPT ![p] = bt], snap' = [snap EXCEPT ![p] = sn],
           /\ ~overlapped /\ InHand(p) /\ \A a : Unmarked(a)' = Unmarked(a)
           /\ stage'[p] = st /\ todo'[p] = td /\ batch'[p] = bt /\ snap'[p] = sn
           => InHand(p)'
    PROVE  CooldownInv'
  <1>1. UNCHANGED <<alerts, alive>>
    BY DEF world
  <1>2. RowsLose /\ \A a : Unmarked(a)' = Unmarked(a)
    BY <1>1, SameRows
  <1>3. UNCHANGED <<eval, world>>
    OBVIOUS
  <1>4. QED BY <1>2, <1>3, ActiveKeepsCooldown

LEMMA CallLocals ==
    ASSUME AlertInv, NEW p \in Processors
    PROVE  /\ [stage EXCEPT ![p] = stage[p]] = stage /\ [todo EXCEPT ![p] = todo[p]] = todo
           /\ [batch EXCEPT ![p] = batch[p]] = batch /\ [snap EXCEPT ![p] = snap[p]] = snap
           /\ snap[p] \subseteq Ids /\ todo[p] \in Seq(Ids) /\ batch[p] \in Seq(Ids)
           /\ Locals(p)
  BY DEF AlertInv, AlertTypes

LEMMA CheckSingleCooldown ==
    ASSUME AlertInv, CooldownInv, NEW p \in Processors, CheckSingle(p)
    PROVE  CooldownInv'
  <1>1. stage[p] = "check" /\ stage[p] # "idle" /\ UNCHANGED <<alerts, eval, world>> /\ UNCHANGED snap
    BY DEF CheckSingle, tableVars
  <1>2. snap' = [snap EXCEPT ![p] = snap[p]] /\ batch[p] = <<>>
    BY <1>1, CallLocals DEF Locals
  <1>3. CASE todo[p] = <<>> /\ To(p, "watch") /\ UNCHANGED <<todo, batch>>
    <2>1. /\ stage' = [stage EXCEPT ![p] = "watch"] /\ todo' = [todo EXCEPT ![p] = todo[p]]
          /\ batch' = [batch EXCEPT ![p] = batch[p]]
      BY <1>3, CallLocals DEF To
    <2>2. ASSUME InHand(p), \A a : Unmarked(a)' = Unmarked(a),
                 stage'[p] = "watch", batch'[p] = batch[p], snap'[p] = snap[p]
          PROVE  InHand(p)'
      BY <1>1, <2>2 DEF InHand
    <2>3. QED BY <1>1, <1>2, <2>1, <2>2, QuietCooldown
  <1>4. CASE todo[p] # <<>> /\ Advance(p) /\ UNCHANGED <<stage, batch>>
    <2>1. /\ stage' = [stage EXCEPT ![p] = "check"] /\ todo' = [todo EXCEPT ![p] = Tail(todo[p])]
          /\ batch' = [batch EXCEPT ![p] = batch[p]]
      BY <1>1, <1>4, CallLocals DEF Advance
    <2>2. ASSUME InHand(p), \A a : Unmarked(a)' = Unmarked(a),
                 stage'[p] = "check", todo'[p] = Tail(todo[p]), batch'[p] = batch[p], snap'[p] = snap[p]
          PROVE  InHand(p)'
      <3>1. todo[p] \in Seq(Ids) /\ todo[p] # <<>>
        BY <1>4, CallLocals
      <3>2. /\ \A i \in 1..Len(Tail(todo[p])) : Unmarked(Tail(todo[p])[i]) /\ Tail(todo[p])[i] \notin snap[p]
            /\ \A i, k \in 1..Len(Tail(todo[p])) : Tail(todo[p])[i] = Tail(todo[p])[k] => i = k
        BY <1>1, <2>2, <3>1, RestHolds
      <3>3. QED BY <1>1, <2>2, <3>2 DEF InHand
    <2>3. QED BY <1>1, <1>2, <2>1, <2>2, QuietCooldown
  <1>5. CASE To(p, "send") /\ UNCHANGED <<todo, batch>>
    <2>1. /\ stage' = [stage EXCEPT ![p] = "send"] /\ todo' = [todo EXCEPT ![p] = todo[p]]
          /\ batch' = [batch EXCEPT ![p] = batch[p]]
      BY <1>5, CallLocals DEF To
    <2>2. ASSUME InHand(p), \A a : Unmarked(a)' = Unmarked(a),
                 stage'[p] = "send", todo'[p] = todo[p], batch'[p] = batch[p], snap'[p] = snap[p]
          PROVE  InHand(p)'
      BY <1>1, <2>2 DEF InHand
    <2>3. QED BY <1>1, <1>2, <2>1, <2>2, QuietCooldown
  <1>6. CASE Abandon(p)
    <2>1. /\ stage' = [stage EXCEPT ![p] = "watch"] /\ todo' = [todo EXCEPT ![p] = <<>>]
          /\ batch' = [batch EXCEPT ![p] = <<>>]
      BY <1>6 DEF Abandon, To
    <2>2. QED BY <1>1, <1>2, <2>1, AbandonHolds, QuietCooldown
  <1>7. QED BY <1>3, <1>4, <1>5, <1>6 DEF CheckSingle

LEMMA SendSingleCooldown ==
    ASSUME AlertInv, CooldownInv, NEW p \in Processors, SendSingle(p)
    PROVE  CooldownInv'
  <1>1. stage[p] = "send" /\ stage[p] # "idle" /\ UNCHANGED <<alerts, eval, world>>
    BY DEF SendSingle, tableVars
  <1>2. /\ stage' = [stage EXCEPT ![p] = "attempt"] /\ snap' = [snap EXCEPT ![p] = snap[p]]
        /\ todo' = [todo EXCEPT ![p] = todo[p]] /\ batch' = [batch EXCEPT ![p] = batch[p]]
    BY CallLocals DEF SendSingle, To
  <1>3. ASSUME InHand(p), \A a : Unmarked(a)' = Unmarked(a),
               stage'[p] = "attempt", todo'[p] = todo[p], batch'[p] = batch[p], snap'[p] = snap[p]
        PROVE  InHand(p)'
    BY <1>1, <1>3 DEF InHand
  <1>4. QED BY <1>1, <1>2, <1>3, QuietCooldown

LEMMA AttemptSingleCooldown ==
    ASSUME AlertInv, CooldownInv, NEW p \in Processors, AttemptSingle(p)
    PROVE  CooldownInv'
  <1>1. /\ stage[p] = "attempt" /\ stage[p] # "idle" /\ UNCHANGED <<alerts, eval, world>>
        /\ UNCHANGED snap
    BY DEF AttemptSingle
  <1>2. snap' = [snap EXCEPT ![p] = snap[p]]
    BY <1>1, CallLocals
  <1>3. CASE To(p, "mark") /\ UNCHANGED <<todo, batch>>
    <2>1. /\ stage' = [stage EXCEPT ![p] = "mark"] /\ todo' = [todo EXCEPT ![p] = todo[p]]
          /\ batch' = [batch EXCEPT ![p] = batch[p]]
      BY <1>3, CallLocals DEF To
    <2>2. ASSUME InHand(p), \A a : Unmarked(a)' = Unmarked(a),
                 stage'[p] = "mark", todo'[p] = todo[p], batch'[p] = batch[p], snap'[p] = snap[p]
          PROVE  InHand(p)'
      BY <1>1, <2>2 DEF InHand
    <2>3. QED BY <1>1, <1>2, <2>1, <2>2, QuietCooldown
  <1>4. CASE Abandon(p)
    <2>1. /\ stage' = [stage EXCEPT ![p] = "watch"] /\ todo' = [todo EXCEPT ![p] = <<>>]
          /\ batch' = [batch EXCEPT ![p] = <<>>]
      BY <1>4 DEF Abandon, To
    <2>2. QED BY <1>1, <1>2, <2>1, AbandonHolds, QuietCooldown
  <1>5. QED BY <1>3, <1>4 DEF AttemptSingle

LEMMA MarkSingleCooldown ==
    ASSUME AlertInv, CooldownInv, NEW p \in Processors, MarkSingle(p)
    PROVE  CooldownInv'
  <1>1. /\ stage[p] = "mark" /\ stage[p] # "idle"
        /\ UNCHANGED <<eval, world>> /\ UNCHANGED snap /\ UNCHANGED <<alive, overlapped>>
        /\ alerts' \in {alerts, Marked({Current(p)})}
    BY DEF MarkSingle, world
  <1>2. /\ snap' = [snap EXCEPT ![p] = snap[p]] /\ batch[p] = <<>>
        /\ todo[p] \in Seq(Ids) /\ todo[p] # <<>> /\ Current(p) = todo[p][1]
    BY <1>1, CallLocals, IdSeq DEF Locals, Current
  <1>3. ~overlapped => InHand(p)
    BY DEF CooldownInv
  <1>4. ~overlapped => \A a \in {Current(p)} : Unmarked(a)
    BY <1>1, <1>2, <1>3, RestHolds
  <1>5. RowsLose /\ \A a : a \notin {Current(p)} /\ Unmarked(a) => Unmarked(a)'
    BY <1>1, <1>4, MarkingLoses
  <1>6. CASE To(p, "check") /\ Advance(p) /\ UNCHANGED batch
    <2>1. /\ stage' = [stage EXCEPT ![p] = "check"] /\ todo' = [todo EXCEPT ![p] = Tail(todo[p])]
          /\ batch' = [batch EXCEPT ![p] = batch[p]]
      BY <1>6, CallLocals DEF To, Advance
    <2>2. ASSUME InHand(p), stage'[p] = "check", todo'[p] = Tail(todo[p]), batch'[p] = batch[p],
                 snap'[p] = snap[p]
          PROVE  InHand(p)'
      <3>1. /\ todo[p][1] \notin snap[p]
            /\ \A i \in 1..Len(Tail(todo[p])) : /\ Unmarked(Tail(todo[p])[i]) /\ Tail(todo[p])[i] \notin snap[p]
                                                /\ Tail(todo[p])[i] # todo[p][1]
            /\ \A i, k \in 1..Len(Tail(todo[p])) : Tail(todo[p])[i] = Tail(todo[p])[k] => i = k
        BY <1>1, <1>2, <2>2, RestHolds
      <3>2. QED BY <1>1, <1>2, <1>5, <2>2, <3>1, NoIds DEF InHand
    <2>3. QED BY <1>1, <1>2, <1>5, <2>1, <2>2, ActiveKeepsCooldown
  <1>7. CASE Abandon(p)
    <2>1. /\ stage' = [stage EXCEPT ![p] = "watch"] /\ todo' = [todo EXCEPT ![p] = <<>>]
          /\ batch' = [batch EXCEPT ![p] = <<>>]
      BY <1>7 DEF Abandon, To
    <2>2. ASSUME InHand(p), stage'[p] = "watch", batch'[p] = <<>>, snap'[p] = snap[p]
          PROVE  InHand(p)'
      <3>1. \A a \in snap[p] : Unmarked(a) => Unmarked(a)'
        BY <1>1, <1>2, <1>5, <2>2, RestHolds
      <3>2. QED BY <2>2, <3>1, AbandonHolds
    <2>3. QED BY <1>1, <1>2, <1>5, <2>1, <2>2, ActiveKeepsCooldown
  <1>8. QED BY <1>6, <1>7 DEF MarkSingle

LEMMA FilterBatchCooldown ==
    ASSUME AlertInv, CooldownInv, NEW p \in Processors, FilterBatch(p)
    PROVE  CooldownInv'
  <1>1. stage[p] = "filter" /\ stage[p] # "idle" /\ UNCHANGED <<alerts, eval, world>>
    BY DEF FilterBatch, tableVars
  <1>2. /\ stage' = [stage EXCEPT ![p] = "filter"] /\ snap' = [snap EXCEPT ![p] = snap[p]]
        /\ todo' = [todo EXCEPT ![p] = Tail(todo[p])]
    BY <1>1, CallLocals DEF FilterBatch, Advance
  <1>3. /\ todo[p] \in Seq(Ids) /\ todo[p] # <<>> /\ Current(p) = todo[p][1] /\ todo[p][1] \in Ids
        /\ batch[p] \in Seq(Ids)
    BY CallLocals, IdSeq DEF FilterBatch, Current
  <1>4. PICK bt \in {batch[p], Append(batch[p], Current(p))} : batch' = [batch EXCEPT ![p] = bt]
    BY CallLocals DEF FilterBatch
  <1>5. \A i \in 1..Len(bt) : bt[i] = todo[p][1] \/ (i \in 1..Len(batch[p]) /\ bt[i] = batch[p][i])
    BY <1>3, <1>4, OneMore
  <1>6. ASSUME InHand(p), \A a : Unmarked(a)' = Unmarked(a),
               stage'[p] = "filter", todo'[p] = Tail(todo[p]), batch'[p] = bt, snap'[p] = snap[p]
        PROVE  InHand(p)'
    <2>1. /\ todo[p][1] \notin snap[p] /\ Unmarked(todo[p][1])
          /\ \A i \in 1..Len(Tail(todo[p])) : Unmarked(Tail(todo[p])[i]) /\ Tail(todo[p])[i] \notin snap[p]
      BY <1>1, <1>3, <1>6, RestHolds
    <2>2. \A i \in 1..Len(bt) : Unmarked(bt[i]) /\ bt[i] \notin snap[p]
      BY <1>5, <1>6, <2>1 DEF InHand
    <2>3. QED BY <1>1, <1>6, <2>1, <2>2 DEF InHand
  <1>7. QED BY <1>1, <1>2, <1>4, <1>6, QuietCooldown

\* A step that changes no more than where the call is.
LEMMA StageCooldown ==
    ASSUME AlertInv, CooldownInv, NEW p \in Processors, stage[p] # "idle",
           UNCHANGED <<alerts, eval, world>>,
           snap' = [snap EXCEPT ![p] = snap[p]], batch' = [batch EXCEPT ![p] = batch[p]],
           NEW st \in {"watch", "post", "attempts", "markAll"}, NEW td,
           stage' = [stage EXCEPT ![p] = st], todo' = [todo EXCEPT ![p] = td]
    PROVE  CooldownInv'
  <1>1. ASSUME InHand(p), \A a : Unmarked(a)' = Unmarked(a),
               stage'[p] = st, batch'[p] = batch[p], snap'[p] = snap[p]
        PROVE  InHand(p)'
    BY <1>1 DEF InHand
  <1>2. UNCHANGED <<alerts, eval, world>>
    OBVIOUS
  <1>3. QED BY <1>1, <1>2, QuietCooldown

LEMMA BatchStepsCooldown ==
    ASSUME AlertInv, CooldownInv, NEW p \in Processors,
           BatchBuilt(p) \/ SendChunk(p) \/ RecordAttempt(p) \/ (AttemptsRecorded(p) /\ sent[p] > 0)
    PROVE  CooldownInv'
  <1>1. /\ stage[p] \in {"filter", "post", "attempts"} /\ stage[p] # "idle"
        /\ UNCHANGED <<alerts, eval, world>>
        /\ snap' = [snap EXCEPT ![p] = snap[p]] /\ batch' = [batch EXCEPT ![p] = batch[p]]
    BY CallLocals DEF BatchBuilt, SendChunk, RecordAttempt, AttemptsRecorded, tableVars
  <1>2. [stage EXCEPT ![p] = stage[p]] = stage /\ [todo EXCEPT ![p] = todo[p]] = todo
    BY CallLocals
  <1>3. \E st \in {"watch", "post", "attempts", "markAll"} : \E td :
           stage' = [stage EXCEPT ![p] = st] /\ todo' = [todo EXCEPT ![p] = td]
    <2>1. CASE BatchBuilt(p)
      BY <1>2, <2>1 DEF BatchBuilt, To
    <2>2. CASE SendChunk(p)
      <3>1. UNCHANGED <<stage, todo>> \/ \E n : PostingEnds(p, n)
        BY <2>2 DEF SendChunk
      <3>2. CASE UNCHANGED <<stage, todo>>
        <4>1. stage' = [stage EXCEPT ![p] = "post"] /\ todo' = [todo EXCEPT ![p] = todo[p]]
          BY <1>2, <2>2, <3>2 DEF SendChunk
        <4>2. QED BY <4>1
      <3>3. CASE \E n : PostingEnds(p, n)
        BY <3>3 DEF PostingEnds, To
      <3>4. QED BY <3>1, <3>2, <3>3
    <2>3. CASE RecordAttempt(p)
      <3>1. stage' = [stage EXCEPT ![p] = "attempts"] /\ todo' = [todo EXCEPT ![p] = Tail(todo[p])]
        BY <1>2, <2>3 DEF RecordAttempt, Advance
      <3>2. QED BY <3>1
    <2>4. CASE AttemptsRecorded(p) /\ sent[p] > 0
      <3>1. stage' = [stage EXCEPT ![p] = "markAll"] /\ todo' = [todo EXCEPT ![p] = todo[p]]
        BY <1>2, <2>4 DEF AttemptsRecorded, To
      <3>2. QED BY <3>1
    <2>5. QED BY <2>1, <2>2, <2>3, <2>4
  <1>4. QED BY <1>1, <1>3, StageCooldown

LEMMA AttemptsRecordedCooldown ==
    ASSUME AlertInv, CooldownInv, NEW p \in Processors, AttemptsRecorded(p), ~(sent[p] > 0)
    PROVE  CooldownInv'
  <1>1. /\ stage[p] # "idle" /\ UNCHANGED <<alerts, eval, world>>
    BY DEF AttemptsRecorded, tableVars
  <1>2. /\ stage' = [stage EXCEPT ![p] = "watch"] /\ todo' = [todo EXCEPT ![p] = <<>>]
        /\ batch' = [batch EXCEPT ![p] = <<>>] /\ snap' = [snap EXCEPT ![p] = snap[p]]
    BY CallLocals DEF AttemptsRecorded, Abandon, To
  <1>3. QED BY <1>1, <1>2, AbandonHolds, QuietCooldown

LEMMA MarkBatchCooldown ==
    ASSUME AlertInv, CooldownInv, NEW p \in Processors, MarkBatch(p)
    PROVE  CooldownInv'
  <1>1. /\ stage[p] = "markAll" /\ stage[p] # "idle"
        /\ UNCHANGED <<eval, world>> /\ UNCHANGED <<alive, overlapped>>
        /\ alerts' \in {alerts, Marked(SetOf(DeliveredIds(p, sent[p])))}
    BY DEF MarkBatch, world
  <1>2. /\ stage' = [stage EXCEPT ![p] = "watch"] /\ todo' = [todo EXCEPT ![p] = <<>>]
        /\ batch' = [batch EXCEPT ![p] = <<>>] /\ snap' = [snap EXCEPT ![p] = snap[p]]
    BY CallLocals DEF MarkBatch, Abandon, To
  <1>3. /\ batch[p] \in Seq(Ids) /\ sent[p] \in Nat /\ sent[p] <= Len(batch[p]) /\ Len(batch[p]) \in Nat
    BY <1>1, CallOf, IdSeq DEF Locals
  <1>4. SetOf(DeliveredIds(p, sent[p])) = {batch[p][i] : i \in 1..sent[p]}
    BY <1>3, DeliveredIdsAre
  <1>5. ASSUME InHand(p), NEW a \in SetOf(DeliveredIds(p, sent[p])) PROVE Unmarked(a) /\ a \notin snap[p]
    <2>1. PICK i \in 1..sent[p] : a = batch[p][i]
      BY <1>4
    <2>2. i \in 1..Len(batch[p])
      BY <1>3
    <2>3. QED BY <1>5, <2>1, <2>2 DEF InHand
  <1>6. ~overlapped => \A a \in SetOf(DeliveredIds(p, sent[p])) : Unmarked(a)
    BY <1>5 DEF CooldownInv
  <1>7. RowsLose /\ \A a : a \notin SetOf(DeliveredIds(p, sent[p])) /\ Unmarked(a) => Unmarked(a)'
    BY <1>1, <1>6, MarkingLoses
  <1>8. ASSUME InHand(p), stage'[p] = "watch", batch'[p] = <<>>, snap'[p] = snap[p]
        PROVE  InHand(p)'
    <2>1. \A a \in snap[p] : Unmarked(a) => Unmarked(a)'
      BY <1>5, <1>7, <1>8
    <2>2. QED BY <1>8, <2>1, AbandonHolds
  <1>9. QED BY <1>1, <1>2, <1>7, <1>8, ActiveKeepsCooldown

LEMMA CrashCooldown ==
    ASSUME AlertInv, CooldownInv, NEW p \in Processors, Crash(p)
    PROVE  CooldownInv'
  <1>1. /\ stage[p] # "idle" /\ UNCHANGED <<alerts, eval, world>>
    BY DEF Crash, tableVars
  <1>2. /\ stage' = [stage EXCEPT ![p] = "idle"] /\ todo' = [todo EXCEPT ![p] = <<>>]
        /\ batch' = [batch EXCEPT ![p] = <<>>] /\ snap' = [snap EXCEPT ![p] = {}]
    BY DEF Crash, To
  <1>3. ASSUME stage'[p] = "idle", batch'[p] = <<>>, snap'[p] = {}
        PROVE  InHand(p)'
    BY <1>3, NoIds DEF InHand
  <1>4. QED BY <1>1, <1>2, <1>3, QuietCooldown

LEMMA NextWatchCooldown ==
    ASSUME AlertInv, CooldownInv, NEW p \in Processors, NextWatch(p)
    PROVE  CooldownInv'
  <1>1. stage[p] = "watch" /\ stage[p] # "idle" /\ UNCHANGED <<alerts, eval, world>>
    BY DEF NextWatch, tableVars
  <1>2. batch' = [batch EXCEPT ![p] = batch[p]] /\ batch[p] = <<>> /\ snap[p] \subseteq Ids
    BY <1>1, CallLocals DEF NextWatch, Locals
  <1>3. CASE snap[p] = {}
    <2>1. /\ stage' = [stage EXCEPT ![p] = "idle"] /\ todo' = [todo EXCEPT ![p] = todo[p]]
          /\ snap' = [snap EXCEPT ![p] = snap[p]]
      BY <1>3, CallLocals DEF NextWatch, To
    <2>2. ASSUME stage'[p] = "idle", batch'[p] = batch[p], snap'[p] = snap[p]
          PROVE  InHand(p)'
      BY <1>2, <1>3, <2>2, NoIds DEF InHand
    <2>3. QED BY <1>1, <1>2, <2>1, <2>2, QuietCooldown
  <1>4. CASE snap[p] # {}
    <2>1. PICK w \in {alerts[a].watch : a \in snap[p]} :
            LET group == {a \in snap[p] : alerts[a].watch = w} IN
            /\ snap' = [snap EXCEPT ![p] = @ \ group]
            /\ \/ /\ w \in alive
                  /\ \E rows \in NewestFirst(group) : todo' = [todo EXCEPT ![p] = rows]
                  /\ To(p, IF Cardinality(group) >= BatchThreshold THEN "filter" ELSE "check")
               \/ UNCHANGED <<stage, todo>>
      BY <1>4 DEF NextWatch
    <2> DEFINE group == {a \in snap[p] : alerts[a].watch = w}
    <2>2. group \in SUBSET Ids /\ group \subseteq snap[p]
      BY <1>2
    <2>3. snap' = [snap EXCEPT ![p] = snap[p] \ group]
      BY <2>1
    <2>4. \/ UNCHANGED <<stage, todo>>
          \/ \E rows \in NewestFirst(group), st \in {"check", "filter"} :
                todo' = [todo EXCEPT ![p] = rows] /\ stage' = [stage EXCEPT ![p] = st]
      BY <2>1 DEF To
    <2> HIDE DEF group
    <2>5. CASE UNCHANGED <<stage, todo>>
      <3>1. stage' = [stage EXCEPT ![p] = "watch"] /\ todo' = [todo EXCEPT ![p] = todo[p]]
        BY <1>1, <2>5, CallLocals
      <3>2. ASSUME InHand(p), \A a : Unmarked(a)' = Unmarked(a),
                   stage'[p] = "watch", batch'[p] = batch[p], snap'[p] = snap[p] \ group
            PROVE  InHand(p)'
        BY <1>2, <3>2, NoIds DEF InHand
      <3>3. QED BY <1>1, <1>2, <2>3, <3>1, <3>2, QuietCooldown
    <2>6. ASSUME NEW rows \in NewestFirst(group), NEW st \in {"check", "filter"},
                 todo' = [todo EXCEPT ![p] = rows], stage' = [stage EXCEPT ![p] = st]
          PROVE  CooldownInv'
      <3>1. /\ \A i \in 1..Len(rows) : rows[i] \in group
            /\ \A i, k \in 1..Len(rows) : rows[i] = rows[k] => i = k
        BY <2>2, ListingIsDistinct
      <3>2. ASSUME InHand(p), \A a : Unmarked(a)' = Unmarked(a), stage'[p] = st, todo'[p] = rows,
                   batch'[p] = batch[p], snap'[p] = snap[p] \ group
            PROVE  InHand(p)'
        BY <1>2, <2>2, <3>1, <3>2, NoIds DEF InHand
      <3>3. QED BY <1>1, <1>2, <2>3, <2>6, <3>2, QuietCooldown
    <2>7. QED BY <2>4, <2>5, <2>6
  <1>5. QED BY <1>3, <1>4

LEMMA ListPendingCooldown ==
    ASSUME AlertInv, CooldownInv, NEW p \in Processors, ListPendingAlerts(p)
    PROVE  CooldownInv'
  <1> DEFINE pending == {a \in DOMAIN alerts : Pending(a)}
  <1>1. /\ stage[p] = "idle" /\ UNCHANGED eval /\ UNCHANGED <<alerts, alive>>
        /\ overlapped' = (overlapped \/ retry # None \/ \E q \in Processors \ {p} : stage[q] # "idle")
    BY DEF ListPendingAlerts, Overlapping, tableVars
  <1>2. RowsLose /\ \A a : Unmarked(a)' = Unmarked(a)
    BY <1>1, SameRows
  <1>3. AlertTypes /\ batch[p] = <<>>
    BY <1>1, CallOf DEF Locals
  <1>4. \A q \in Processors \ {p} : stage'[q] = stage[q] /\ snap'[q] = snap[q] /\ batch'[q] = batch[q]
    BY <1>3 DEF ListPendingAlerts, To, AlertTypes
  <1>5. ~overlapped' => ~overlapped /\ \A q \in Processors \ {p} : stage[q] = "idle"
    BY <1>1
  <1>6. pending \in SUBSET Ids /\ \A a \in pending : Unmarked(a)
    BY <1>3, Rows DEF Pending, Exists, Unmarked
  <1>7. ASSUME InHand(p) PROVE InHand(p)'
    <2>1. CASE summaryOnly
      <3>1. PICK rows \in NewestFirst(pending) : batch' = [batch EXCEPT ![p] = rows]
        BY <2>1 DEF ListPendingAlerts
      <3>2. \A i \in 1..Len(rows) : rows[i] \in pending
        BY <1>6, ListingIsDistinct
      <3>3. stage'[p] = "post" /\ snap'[p] = snap[p] /\ batch'[p] = rows
        BY <1>3, <2>1, <3>1 DEF ListPendingAlerts, To, AlertTypes
      <3>4. snap[p] = {}
        BY <1>1, <1>7 DEF InHand
      <3>5. QED BY <1>2, <1>6, <3>2, <3>3, <3>4 DEF InHand
    <2>2. CASE ~summaryOnly
      <3>1. stage'[p] = "watch" /\ snap'[p] = pending /\ batch'[p] = <<>>
        BY <1>3, <2>2 DEF ListPendingAlerts, To, AlertTypes
      <3>2. QED BY <1>2, <1>6, <3>1, NoIds DEF InHand
    <2>3. QED BY <2>1, <2>2
  <1>8. QED BY <1>1, <1>2, <1>4, <1>5, <1>7, CallKeepsCooldown
-----------------------------------------------------------------------------
\* A step outside ProcessAlerts takes nothing out of anybody's hands.
LEMMA HandsStand ==
    ASSUME AlertInv, CooldownInv, ~overlapped, UNCHANGED procVars, \A a : Unmarked(a) => Unmarked(a)'
    PROVE  \A p \in Processors : InHand(p)'
  <1>1. UNCHANGED <<stage, snap, todo, batch>>
    BY DEF procVars
  <1>2. ASSUME NEW p \in Processors PROVE InHand(p)'
    <2>1. InHand(p)
      BY DEF CooldownInv
    <2>2. QED BY <1>1, <2>1 DEF InHand
  <1>3. QED BY <1>2

\* One that inserts no row and evaluates nothing.
LEMMA OutsideCooldown ==
    ASSUME AlertInv, CooldownInv, UNCHANGED procVars, ~overlapped' => ~overlapped, RowsLose, EvalLoses,
           \A a : Unmarked(a) => Unmarked(a)'
    PROVE  CooldownInv'
  <1>1. ~overlapped' => \A p \in Processors : InHand(p)'
    BY HandsStand
  <1>2. QED BY <1>1, ClaimsShrink

LEMMA EvaluateCooldown ==
    ASSUME AlertInv, CooldownInv, NEW e \in Evaluators, NEW w \in Watches, NEW l \in Listings, EvaluateAlert(e, w, l)
    PROVE  CooldownInv'
  <1>1. /\ UNCHANGED <<alerts, alive>> /\ UNCHANGED overlapped /\ UNCHANGED procVars
        /\ eval' = [eval EXCEPT ![e] = <<w, l>>] /\ ~HasRecentAlert(w, l)
    BY DEF EvaluateAlert, tableVars, world
  <1>2. OneOpen'
    BY <1>1 DEF CooldownInv, OneOpen, Pending, Exists
  <1>3. ASSUME ~overlapped' PROVE \A p \in Processors : InHand(p)'
    BY <1>1, <1>3, SameRows, HandsStand
  <1>4. ASSUME ~overlapped', NEW v \in Watches, NEW m \in Listings
        PROVE  (Cardinality(LiveOf(v, m)) + Cardinality(Passed(v, m)) <= 1 + Cardinality(Evaluators))'
    <2>1. LiveOf(v, m)' = LiveOf(v, m)
      BY <1>1 DEF LiveOf, OfPair, Live, Exists
    <2>2. CASE <<v, m>> = <<w, l>>
      <3>1. \A a, b \in LiveOf(v, m) : a = b
        <4>1. v = w /\ m = l
          BY <2>2
        <4>2. \A a \in LiveOf(v, m) : a \in DOMAIN alerts /\ Pending(a) /\ alerts[a].watch = w /\ alerts[a].listing = l
          BY <1>1, <4>1 DEF LiveOf, OfPair, Live, Pending, HasRecentAlert
        <4>3. QED BY <4>2 DEF CooldownInv, OneOpen
      <3>2. Cardinality(LiveOf(v, m)) <= 1
        <4>1. CASE LiveOf(v, m) = {}
          BY <4>1, FS_EmptySet
        <4>2. CASE LiveOf(v, m) # {}
          <5>1. PICK a : LiveOf(v, m) = {a}
            BY <3>1, <4>2
          <5>2. QED BY <5>1, FS_Singleton
        <4>3. QED BY <4>1, <4>2
      <3>3. Passed(v, m)' \subseteq Evaluators
        BY DEF Passed
      <3>4. /\ Cardinality(Passed(v, m)') <= Cardinality(Evaluators)
            /\ Cardinality(Passed(v, m)') \in Nat /\ Cardinality(Evaluators) \in Nat
        BY <3>3, FiniteParts, FS_Subset, FS_CardinalityType
      <3>5. Cardinality(LiveOf(v, m)) \in Nat
        BY FiniteParts
      <3>6. QED BY <2>1, <3>2, <3>4, <3>5
    <2>3. CASE <<v, m>> # <<w, l>>
      <3>1. Passed(v, m)' \subseteq Passed(v, m)
        BY <1>1, <2>3 DEF Passed, AlertInv, AlertTypes
      <3>2. Cardinality(LiveOf(v, m))' + Cardinality(Passed(v, m))'
               <= Cardinality(LiveOf(v, m)) + Cardinality(Passed(v, m))
        BY <2>1, <3>1, NoNewClaims
      <3>3. Cardinality(LiveOf(v, m)) + Cardinality(Passed(v, m)) <= 1 + Cardinality(Evaluators)
        BY <1>1, <1>4 DEF CooldownInv, WithinCooldown
      <3>4. Cardinality(Passed(v, m)') \in Nat
        BY <3>1, FiniteParts, FS_Subset, FS_CardinalityType
      <3>5. /\ Cardinality(LiveOf(v, m)) \in Nat /\ Cardinality(Passed(v, m)) \in Nat
            /\ Cardinality(Evaluators) \in Nat
        BY FiniteParts
      <3>6. QED BY <2>1, <3>2, <3>3, <3>4, <3>5
    <2>4. QED BY <2>2, <2>3
  <1>5. QED BY <1>2, <1>3, <1>4 DEF CooldownInv, WithinCooldown

LEMMA CreateAlertCooldown ==
    ASSUME AlertInv, CooldownInv, NEW e \in Evaluators, CreateAlert(e)
    PROVE  CooldownInv'
  <1>1. AlertTypes /\ UNCHANGED procVars /\ UNCHANGED <<alive, overlapped>> /\ eval[e] # None
        /\ eval' = [eval EXCEPT ![e] = None]
    BY DEF CreateAlert, AlertInv, world
  <1>2. EvalLoses
    BY <1>1, AlertConstants DEF EvalLoses, AlertTypes
  <1>3. CASE UNCHANGED alerts
    BY <1>1, <1>2, <1>3, SameRows, OutsideCooldown
  <1>4. ASSUME NEW w \in Watches, NEW l \in Listings, eval[e] = <<w, l>>,
               alerts' = Append(alerts, NewAlert(w, l)),
               ~ \E a \in DOMAIN alerts : Pending(a) /\ alerts[a].watch = w /\ alerts[a].listing = l
        PROVE  CooldownInv'
    <2> DEFINE n == Len(alerts) + 1
    <2>1. /\ DOMAIN alerts = 1..Len(alerts) /\ Len(alerts) \in Nat /\ alerts \in Seq(AlertRow)
          /\ NewAlert(w, l) \in AlertRow
      BY <1>1, Rows DEF NewAlert, AlertRow, AlertTypes
    <2>2. /\ alerts' \in Seq(AlertRow) /\ Len(alerts') = n
          /\ \A i \in 1..Len(alerts) : alerts'[i] = alerts[i]
          /\ alerts'[n] = NewAlert(w, l)
      BY <1>4, <2>1, AppendProperties
    <2>3. DOMAIN alerts' = DOMAIN alerts \cup {n} /\ n \notin DOMAIN alerts
      <3>1. DOMAIN alerts' = 1..n
        BY <2>2, LenProperties
      <3>2. QED BY <2>1, <3>1
    <2>4. /\ \A a \in DOMAIN alerts : alerts'[a] = alerts[a]
          /\ alerts'[n].watch = w /\ alerts'[n].listing = l
      BY <2>1, <2>2 DEF NewAlert
    <2> HIDE DEF n
    <2>5. \A a : Unmarked(a) => Unmarked(a)'
      BY <2>3, <2>4 DEF Unmarked
    <2>6. ~overlapped' => \A p \in Processors : InHand(p)'
      BY <1>1, <2>5, HandsStand
    <2>7. \A a \in DOMAIN alerts : Exists(a)' = Exists(a) /\ Pending(a)' = Pending(a) /\ Live(a)' = Live(a)
      BY <1>1, <2>3, <2>4 DEF Exists, Pending, Live
    <2>8. OneOpen'
      <3>1. ASSUME NEW a \in DOMAIN alerts', NEW b \in DOMAIN alerts', Pending(a)', Pending(b)',
                   alerts'[a].watch = alerts'[b].watch, alerts'[a].listing = alerts'[b].listing
            PROVE  a = b
        <4>1. CASE a \in DOMAIN alerts /\ b \in DOMAIN alerts
          BY <2>4, <2>7, <3>1, <4>1 DEF CooldownInv, OneOpen
        <4>2. CASE a = n /\ b \in DOMAIN alerts
          BY <1>4, <2>4, <2>7, <3>1, <4>2
        <4>3. CASE b = n /\ a \in DOMAIN alerts
          BY <1>4, <2>4, <2>7, <3>1, <4>3
        <4>4. QED BY <2>3, <4>1, <4>2, <4>3
      <3>2. QED BY <3>1 DEF OneOpen
    <2>9. ASSUME ~overlapped', NEW v \in Watches, NEW m \in Listings
          PROVE  (Cardinality(LiveOf(v, m)) + Cardinality(Passed(v, m)) <= 1 + Cardinality(Evaluators))'
      <3>1. Cardinality(LiveOf(v, m)) + Cardinality(Passed(v, m)) <= 1 + Cardinality(Evaluators)
        BY <1>1, <2>9 DEF CooldownInv, WithinCooldown
      <3>2. /\ IsFiniteSet(LiveOf(v, m)) /\ Cardinality(LiveOf(v, m)) \in Nat
            /\ IsFiniteSet(Passed(v, m)) /\ Cardinality(Passed(v, m)) \in Nat
            /\ Cardinality(Evaluators) \in Nat
        BY FiniteParts
      <3>3. CASE <<v, m>> = <<w, l>>
        <4>1. LiveOf(v, m)' \subseteq LiveOf(v, m) \cup {n}
          BY <2>3, <2>4, <2>7 DEF LiveOf, OfPair
        <4>2. IsFiniteSet(LiveOf(v, m) \cup {n}) /\ Cardinality(LiveOf(v, m) \cup {n}) <= Cardinality(LiveOf(v, m)) + 1
              /\ Cardinality(LiveOf(v, m) \cup {n}) \in Nat
          <5>1. IsFiniteSet(LiveOf(v, m) \cup {n})
            BY <3>2, FS_AddElement
          <5>2. n \notin LiveOf(v, m)
            BY <2>3 DEF LiveOf, OfPair
          <5>3. Cardinality(LiveOf(v, m) \cup {n}) = Cardinality(LiveOf(v, m)) + 1
            BY <3>2, <5>2, FS_AddElement
          <5>4. QED BY <3>2, <5>1, <5>3
        <4>3. Cardinality(LiveOf(v, m)') <= Cardinality(LiveOf(v, m)) + 1 /\ Cardinality(LiveOf(v, m)') \in Nat
          <5>1. /\ IsFiniteSet(LiveOf(v, m)')
                /\ Cardinality(LiveOf(v, m)') <= Cardinality(LiveOf(v, m) \cup {n})
            BY <4>1, <4>2, FS_Subset
          <5>2. Cardinality(LiveOf(v, m)') \in Nat
            BY <5>1, FS_CardinalityType
          <5>3. QED BY <3>2, <4>2, <5>1, <5>2
        <4>4. e \in Passed(v, m) /\ Passed(v, m)' = Passed(v, m) \ {e}
          <5>1. e \in Passed(v, m)
            BY <1>4, <3>3 DEF Passed
          <5>2. \A f \in Evaluators : eval'[f] = <<v, m>> <=> (eval[f] = <<v, m>> /\ f # e)
            BY <1>1, AlertConstants DEF AlertTypes
          <5>3. QED BY <5>1, <5>2 DEF Passed
        <4>5. Cardinality(Passed(v, m)') = Cardinality(Passed(v, m)) - 1
          BY <3>2, <4>4, FS_RemoveElement
        <4>6. QED BY <3>1, <3>2, <4>3, <4>5
      <3>4. CASE <<v, m>> # <<w, l>>
        <4>1. LiveOf(v, m)' \subseteq LiveOf(v, m)
          BY <2>3, <2>4, <2>7, <3>4 DEF LiveOf, OfPair
        <4>2. Passed(v, m)' \subseteq Passed(v, m)
          BY <1>2 DEF Passed, EvalLoses
        <4>3. Cardinality(LiveOf(v, m))' + Cardinality(Passed(v, m))'
                 <= Cardinality(LiveOf(v, m)) + Cardinality(Passed(v, m))
          BY <4>1, <4>2, NoNewClaims
        <4>4. Cardinality(LiveOf(v, m)') \in Nat /\ Cardinality(Passed(v, m)') \in Nat
          BY <3>2, <4>1, <4>2, FS_Subset, FS_CardinalityType
        <4>5. QED BY <3>1, <3>2, <4>3, <4>4
      <3>5. QED BY <3>3, <3>4
    <2>10. QED BY <2>6, <2>8, <2>9 DEF CooldownInv, WithinCooldown
  <1>5. PICK w \in Watches, l \in Listings : eval[e] = <<w, l>>
    BY <1>1 DEF AlertTypes
  <1>6. UNCHANGED alerts \/ alerts' = Inserted(w, l)
    BY <1>5 DEF CreateAlert
  <1>7. QED BY <1>3, <1>4, <1>5, <1>6 DEF Inserted

LEMMA EditCooldown ==
    ASSUME AlertInv, CooldownInv, NEW a \in DOMAIN alerts, CooldownElapses(a) \/ DismissAlert(a) \/ RestoreAlert(a)
    PROVE  CooldownInv'
  <1>1. UNCHANGED procVars /\ UNCHANGED <<alive, overlapped>> /\ UNCHANGED eval /\ AlertTypes
    BY DEF CooldownElapses, DismissAlert, RestoreAlert, SetDismissed, world, AlertInv
  <1>2. alerts[a] \in AlertRow /\ alerts \in Seq(AlertRow)
    BY <1>1, Rows DEF AlertTypes
  <1>3. PICK row \in AlertRow :
          /\ alerts' = [alerts EXCEPT ![a] = row]
          /\ row.watch = alerts[a].watch /\ row.listing = alerts[a].listing
          /\ row.notified = alerts[a].notified /\ (row.recent => alerts[a].recent)
    <2>1. CASE CooldownElapses(a)
      <3>1. alerts' = [alerts EXCEPT ![a] = [alerts[a] EXCEPT !.recent = FALSE]]
        BY <2>1 DEF CooldownElapses
      <3>2. [alerts[a] EXCEPT !.recent = FALSE] \in AlertRow
        BY <1>2 DEF AlertRow
      <3>3. QED BY <1>2, <3>1, <3>2 DEF AlertRow
    <2>2. CASE DismissAlert(a) \/ RestoreAlert(a)
      <3>1. PICK to \in BOOLEAN : alerts' = [alerts EXCEPT ![a] = [alerts[a] EXCEPT !.dismissed = to]]
        BY <2>2 DEF DismissAlert, RestoreAlert, SetDismissed
      <3>2. [alerts[a] EXCEPT !.dismissed = to] \in AlertRow
        BY <1>2 DEF AlertRow
      <3>3. QED BY <1>2, <3>1, <3>2 DEF AlertRow
    <2>3. QED BY <2>1, <2>2
  <1>4. DOMAIN alerts' = DOMAIN alerts /\ \A b \in DOMAIN alerts : b # a => alerts'[b] = alerts[b]
    BY <1>3
  <1>5. alerts'[a] = row
    BY <1>3
  <1>6. RowsLose
    BY <1>1, <1>3, <1>4, <1>5 DEF RowsLose, RowLoses, Pending, Exists, Live
  <1>7. \A b : Unmarked(b) => Unmarked(b)'
    BY <1>3, <1>4, <1>5 DEF Unmarked
  <1>8. EvalLoses
    BY <1>1 DEF EvalLoses
  <1>9. QED BY <1>1, <1>6, <1>7, <1>8, OutsideCooldown

LEMMA OperatorsCooldown ==
    ASSUME AlertInv, CooldownInv,
           \/ \E w \in Watches : DeleteWatch(w)
           \/ \E a \in DOMAIN alerts : RetrySend(a)
           \/ RetryRecord
           \/ UNCHANGED vars
    PROVE  CooldownInv'
  <1>1. /\ UNCHANGED alerts /\ UNCHANGED eval /\ UNCHANGED procVars /\ alive' \subseteq alive
        /\ ~overlapped' => ~overlapped
    <2>1. CASE \E w \in Watches : DeleteWatch(w)
      BY <2>1 DEF DeleteWatch, tableVars
    <2>2. CASE \E a \in DOMAIN alerts : RetrySend(a)
      BY <2>2 DEF RetrySend, tableVars, Overlapping
    <2>3. CASE RetryRecord \/ UNCHANGED vars
      BY <2>3 DEF RetryRecord, vars, tableVars, world
    <2>4. QED BY <2>1, <2>2, <2>3
  <1>2. RowsLose /\ EvalLoses /\ \A a : Unmarked(a) => Unmarked(a)'
    BY <1>1 DEF RowsLose, RowLoses, Pending, Exists, Live, Unmarked, EvalLoses
  <1>3. QED BY <1>1, <1>2, OutsideCooldown

-----------------------------------------------------------------------------
LEMMA InitCooldown == Init => CooldownInv
  <1> SUFFICES ASSUME Init PROVE CooldownInv
    OBVIOUS
  <1>1. OneOpen
    BY DEF Init, OneOpen
  <1>2. \A p \in Processors : InHand(p)
    BY NoIds DEF Init, InHand
  <1>3. ASSUME NEW w \in Watches, NEW l \in Listings
        PROVE  Cardinality(LiveOf(w, l)) + Cardinality(Passed(w, l)) <= 1 + Cardinality(Evaluators)
    <2>1. LiveOf(w, l) = {}
      BY DEF Init, LiveOf, OfPair
    <2>2. Cardinality(LiveOf(w, l)) = 0
      BY <2>1, FS_EmptySet
    <2>3. QED BY <2>2, FiniteParts
  <1>4. QED BY <1>1, <1>2, <1>3 DEF CooldownInv, WithinCooldown

LEMMA CooldownStep == AlertInv /\ CooldownInv /\ [Next]_vars => CooldownInv'
  <1> SUFFICES ASSUME AlertInv, CooldownInv, [Next]_vars PROVE CooldownInv'
    OBVIOUS
  <1>1. ASSUME NEW e \in Evaluators, NEW w \in Watches, NEW l \in Listings, EvaluateAlert(e, w, l)
        PROVE  CooldownInv'
    BY <1>1, EvaluateCooldown
  <1>2. ASSUME NEW e \in Evaluators, CreateAlert(e) PROVE CooldownInv'
    BY <1>2, CreateAlertCooldown
  <1>3. ASSUME NEW p \in Processors, ProcessorStep(p) PROVE CooldownInv'
    <2>1. CASE BatchBuilt(p) \/ SendChunk(p) \/ RecordAttempt(p) \/ AttemptsRecorded(p)
      BY <2>1, BatchStepsCooldown, AttemptsRecordedCooldown
    <2>2. QED BY <1>3, <2>1, ListPendingCooldown, NextWatchCooldown, CheckSingleCooldown, SendSingleCooldown,
                 AttemptSingleCooldown, MarkSingleCooldown, FilterBatchCooldown, MarkBatchCooldown DEF ProcessorStep
  <1>4. ASSUME NEW p \in Processors, Crash(p) PROVE CooldownInv'
    BY <1>4, CrashCooldown
  <1>5. ASSUME NEW a \in DOMAIN alerts, CooldownElapses(a) \/ DismissAlert(a) \/ RestoreAlert(a)
        PROVE  CooldownInv'
    BY <1>5, EditCooldown
  <1>6. QED BY <1>1, <1>2, <1>3, <1>4, <1>5, OperatorsCooldown DEF Next

\* Every row that may still cool down, and every evaluator that may still add
\* one, is accounted for in every reachable state.
THEOREM CooldownInvariant == Spec => []CooldownInv
  BY InitCooldown, CooldownStep, AlertInvariant, PTL DEF Spec

\* What is accounted for bounds the alerts within the cooldown.
LEMMA CooldownHolds == AlertInv /\ CooldownInv => CooldownBounded
  <1> SUFFICES ASSUME AlertInv, CooldownInv, ~overlapped, NEW w \in Watches, NEW l \in Listings
               PROVE  Cardinality(CoolingDown(w, l)) <= 1 + Cardinality(Evaluators)
    BY DEF CooldownBounded
  <1>1. Cardinality(LiveOf(w, l)) + Cardinality(Passed(w, l)) <= 1 + Cardinality(Evaluators)
    BY DEF CooldownInv, WithinCooldown
  <1>2. CoolingDown(w, l) \subseteq LiveOf(w, l)
    BY Rows DEF AlertInv, CoolingDown, LiveOf, OfPair, Live
  <1>3. /\ Cardinality(CoolingDown(w, l)) <= Cardinality(LiveOf(w, l))
        /\ Cardinality(CoolingDown(w, l)) \in Nat
    BY <1>2, FiniteParts, FS_Subset, FS_CardinalityType
  <1>4. QED BY <1>1, <1>3, FiniteParts

\* HasRecentAlert is asked before CreateAlert inserts: a watch and a listing
\* never have more alerts within the cooldown than one and one per call of
\* evaluateAlert, for any number of them, any failures and any crashes, as long
\* as one call of ProcessAlerts runs at a time.
THEOREM CooldownIsBounded == Spec => []CooldownBounded
  BY AlertInvariant, CooldownInvariant, CooldownHolds, PTL

-----------------------------------------------------------------------------
(***************************************************************************)
(* The refinement of AlertOutbox. A message may be posted for rows only,    *)
(* and for that a call of ProcessAlerts must never hold anything but rows   *)
(* (HoldRows); that receipts and closed rows follow their message is        *)
(* AlertInv.                                                                *)
(***************************************************************************)
Held(p) == snap[p] \cup SetOf(todo[p]) \cup SetOf(batch[p])

\* Calls hold rows of the table.
HoldRows == \A p \in Processors : Held(p) \subseteq DOMAIN alerts

LEMMA SetOfParts ==
    /\ SetOf(<<>>) = {}
    /\ \A s \in Seq(Ids) : s # <<>> => SetOf(Tail(s)) \subseteq SetOf(s) /\ Head(s) \in SetOf(s)
    /\ \A s \in Seq(Ids), a \in Ids : SetOf(Append(s, a)) \subseteq SetOf(s) \cup {a}
  <1>1. SetOf(<<>>) = {}
    BY DEF SetOf
  <1>2. ASSUME NEW s \in Seq(Ids), s # <<>>
        PROVE  SetOf(Tail(s)) \subseteq SetOf(s) /\ Head(s) \in SetOf(s)
    <2>1. /\ Len(s) \in Nat /\ DOMAIN s = 1..Len(s) /\ Len(s) > 0 /\ Head(s) = s[1]
          /\ Tail(s) \in Seq(Ids) /\ Len(Tail(s)) = Len(s) - 1
          /\ \A i \in 1..Len(Tail(s)) : Tail(s)[i] = s[i + 1]
      BY <1>2, IdSeq
    <2>2. DOMAIN Tail(s) = 1..Len(Tail(s))
      BY <2>1, IdSeq
    <2>3. ASSUME NEW i \in 1..Len(Tail(s)) PROVE Tail(s)[i] \in SetOf(s)
      <3>1. i + 1 \in DOMAIN s
        BY <2>1
      <3>2. QED BY <2>1, <3>1 DEF SetOf
    <2>4. Head(s) \in SetOf(s)
      <3>1. 1 \in DOMAIN s
        BY <2>1
      <3>2. QED BY <2>1, <3>1 DEF SetOf
    <2>5. QED BY <2>2, <2>3, <2>4 DEF SetOf
  <1>3. ASSUME NEW s \in Seq(Ids), NEW a \in Ids
        PROVE  SetOf(Append(s, a)) \subseteq SetOf(s) \cup {a}
    <2>1. /\ DOMAIN s = 1..Len(s) /\ Append(s, a) \in Seq(Ids)
          /\ \A i \in 1..Len(Append(s, a)) :
                 Append(s, a)[i] = a \/ (i \in 1..Len(s) /\ Append(s, a)[i] = s[i])
      BY IdSeq, OneMore
    <2>2. DOMAIN Append(s, a) = 1..Len(Append(s, a))
      BY <2>1, IdSeq
    <2>3. QED BY <2>1, <2>2 DEF SetOf
  <1>4. QED BY <1>1, <1>2, <1>3

\* The listing of a set holds nothing else.
LEMMA ListingWithin ==
    ASSUME NEW S \in SUBSET Ids, NEW rows \in NewestFirst(S)
    PROVE  SetOf(rows) \subseteq S
  BY DEF NewestFirst, SetOf

\* The locals of a call after a step, by what they were.
LEMMA HeldNext ==
    ASSUME AlertTypes, NEW p \in Processors, NEW sn, NEW td, NEW bt,
           snap' = [snap EXCEPT ![p] = sn], todo' = [todo EXCEPT ![p] = td],
           batch' = [batch EXCEPT ![p] = bt],
           sn \subseteq Held(p) \cup DOMAIN alerts,
           SetOf(td) \subseteq Held(p) \cup DOMAIN alerts,
           SetOf(bt) \subseteq Held(p) \cup DOMAIN alerts
    PROVE  /\ Held(p)' \subseteq Held(p) \cup DOMAIN alerts
           /\ \A q \in Processors \ {p} : Held(q)' = Held(q)
  <1>1. snap'[p] = sn /\ todo'[p] = td /\ batch'[p] = bt
    BY DEF AlertTypes
  <1>2. \A q \in Processors \ {p} : snap'[q] = snap[q] /\ todo'[q] = todo[q] /\ batch'[q] = batch[q]
    BY DEF AlertTypes
  <1>3. Held(p)' = sn \cup SetOf(td) \cup SetOf(bt)
    BY <1>1 DEF Held, SetOf
  <1>4. \A q \in Processors \ {p} : Held(q)' = Held(q)
    BY <1>2 DEF Held, SetOf
  <1>5. QED BY <1>3, <1>4

\* What a call holds comes from what it held and from the table.
HeldFromRows(p) ==
    /\ Held(p)' \subseteq Held(p) \cup DOMAIN alerts
    /\ \A q \in Processors \ {p} : Held(q)' = Held(q)

LEMMA HeldParts ==
    ASSUME AlertInv, NEW p \in Processors
    PROVE  /\ AlertTypes /\ snap[p] \subseteq Ids /\ todo[p] \in Seq(Ids) /\ batch[p] \in Seq(Ids)
           /\ [snap EXCEPT ![p] = snap[p]] = snap
           /\ [todo EXCEPT ![p] = todo[p]] = todo /\ [batch EXCEPT ![p] = batch[p]] = batch
           /\ snap[p] \subseteq Held(p) /\ SetOf(todo[p]) \subseteq Held(p) /\ SetOf(batch[p]) \subseteq Held(p)
           /\ SetOf(<<>>) = {}
           /\ todo[p] # <<>> => SetOf(Tail(todo[p])) \subseteq Held(p) /\ Current(p) \in Held(p) /\ Current(p) \in Ids
  <1>1. /\ AlertTypes /\ snap[p] \subseteq Ids /\ todo[p] \in Seq(Ids) /\ batch[p] \in Seq(Ids)
        /\ [snap EXCEPT ![p] = snap[p]] = snap
        /\ [todo EXCEPT ![p] = todo[p]] = todo /\ [batch EXCEPT ![p] = batch[p]] = batch
    BY DEF AlertInv, AlertTypes
  <1>2. snap[p] \subseteq Held(p) /\ SetOf(todo[p]) \subseteq Held(p) /\ SetOf(batch[p]) \subseteq Held(p)
    BY DEF Held
  <1>3. SetOf(<<>>) = {}
    BY SetOfParts
  <1>4. todo[p] # <<>> => SetOf(Tail(todo[p])) \subseteq SetOf(todo[p]) /\ Head(todo[p]) \in SetOf(todo[p])
    BY <1>1, SetOfParts
  <1>5. todo[p] # <<>> => Head(todo[p]) \in Ids
    BY <1>1, IdSeq
  <1>6. QED BY <1>1, <1>2, <1>3, <1>4, <1>5 DEF Current

LEMMA HeldByStay ==
    ASSUME AlertInv, NEW p \in Processors, UNCHANGED <<snap, todo, batch>>
    PROVE  HeldFromRows(p)
  BY DEF HeldFromRows, Held, SetOf

LEMMA HeldByAbandon ==
    ASSUME AlertInv, NEW p \in Processors, Abandon(p), UNCHANGED snap
    PROVE  HeldFromRows(p)
  <1>1. snap' = [snap EXCEPT ![p] = snap[p]] /\ todo' = [todo EXCEPT ![p] = <<>>] /\ batch' = [batch EXCEPT ![p] = <<>>]
    BY HeldParts DEF Abandon
  <1>2. snap[p] \subseteq Held(p) /\ SetOf(<<>>) = {} /\ AlertTypes
    BY HeldParts
  <1>3. QED BY <1>1, <1>2, HeldNext DEF HeldFromRows

LEMMA HeldByCrash ==
    ASSUME AlertInv, NEW p \in Processors, Crash(p)
    PROVE  HeldFromRows(p)
  <1>1. snap' = [snap EXCEPT ![p] = {}] /\ todo' = [todo EXCEPT ![p] = <<>>] /\ batch' = [batch EXCEPT ![p] = <<>>]
    BY DEF Crash
  <1>2. SetOf(<<>>) = {} /\ AlertTypes
    BY HeldParts
  <1>3. QED BY <1>1, <1>2, HeldNext DEF HeldFromRows

LEMMA HeldByAdvance ==
    ASSUME AlertInv, NEW p \in Processors, todo[p] # <<>>, Advance(p), UNCHANGED snap,
           NEW bt, batch' = [batch EXCEPT ![p] = bt], SetOf(bt) \subseteq Held(p)
    PROVE  HeldFromRows(p)
  <1>1. snap' = [snap EXCEPT ![p] = snap[p]] /\ todo' = [todo EXCEPT ![p] = Tail(todo[p])]
    BY HeldParts DEF Advance
  <1>2. snap[p] \subseteq Held(p) /\ SetOf(Tail(todo[p])) \subseteq Held(p) /\ AlertTypes
    BY HeldParts
  <1>3. PICK td : td = Tail(todo[p])
    OBVIOUS
  <1>4. todo' = [todo EXCEPT ![p] = td] /\ SetOf(td) \subseteq Held(p)
    BY <1>1, <1>2, <1>3
  <1>5. QED BY <1>1, <1>2, <1>4, HeldNext DEF HeldFromRows

LEMMA HeldByFilterBatch ==
    ASSUME AlertInv, NEW p \in Processors, FilterBatch(p)
    PROVE  HeldFromRows(p)
  <1>1. PICK bt : bt \in {batch[p], Append(batch[p], Current(p))} /\ batch' = [batch EXCEPT ![p] = bt]
    BY HeldParts DEF FilterBatch
  <1>2. todo[p] # <<>> /\ Advance(p) /\ UNCHANGED snap
    BY DEF FilterBatch
  <1>3. SetOf(batch[p]) \subseteq Held(p) /\ Current(p) \in Held(p) /\ Current(p) \in Ids /\ batch[p] \in Seq(Ids)
    BY <1>2, HeldParts
  <1>4. SetOf(Append(batch[p], Current(p))) \subseteq SetOf(batch[p]) \cup {Current(p)}
    BY <1>3, SetOfParts
  <1>5. SetOf(bt) \subseteq Held(p)
    BY <1>1, <1>3, <1>4
  <1>6. QED BY <1>1, <1>2, <1>5, HeldByAdvance

LEMMA HeldByListing ==
    ASSUME AlertInv, NEW p \in Processors, ListPendingAlerts(p)
    PROVE  HeldFromRows(p)
  <1> DEFINE pending == {a \in DOMAIN alerts : Pending(a)}
  <1>1. pending \in SUBSET Ids /\ pending \subseteq DOMAIN alerts
    BY HeldParts, Rows
  <1>2. /\ AlertTypes /\ snap[p] \subseteq Held(p) /\ SetOf(todo[p]) \subseteq Held(p) /\ SetOf(batch[p]) \subseteq Held(p)
        /\ todo' = [todo EXCEPT ![p] = todo[p]]
    BY HeldParts DEF ListPendingAlerts
  <1>3. CASE summaryOnly
    <2>1. PICK rows \in NewestFirst(pending) : batch' = [batch EXCEPT ![p] = rows]
      BY <1>3 DEF ListPendingAlerts
    <2>2. snap' = [snap EXCEPT ![p] = snap[p]]
      BY <1>3, HeldParts DEF ListPendingAlerts
    <2>3. SetOf(rows) \subseteq pending
      BY <1>1, ListingWithin
    <2>4. SetOf(rows) \subseteq DOMAIN alerts
      BY <1>1, <2>3
    <2>5. QED BY <1>2, <2>1, <2>2, <2>4, HeldNext DEF HeldFromRows
  <1>4. CASE ~summaryOnly
    <2>1. snap' = [snap EXCEPT ![p] = pending]
      BY <1>4 DEF ListPendingAlerts
    <2>2. batch' = [batch EXCEPT ![p] = batch[p]]
      BY <1>4, HeldParts DEF ListPendingAlerts
    <2> HIDE DEF pending
    <2>3. QED BY <1>1, <1>2, <2>1, <2>2, HeldNext DEF HeldFromRows
  <1>5. QED BY <1>3, <1>4

LEMMA HeldByNextWatch ==
    ASSUME AlertInv, NEW p \in Processors, NextWatch(p)
    PROVE  HeldFromRows(p)
  <1>1. CASE snap[p] = {}
    BY <1>1, HeldByStay DEF NextWatch
  <1>2. CASE snap[p] # {}
    <2>1. PICK w \in {alerts[a].watch : a \in snap[p]} :
            LET group == {a \in snap[p] : alerts[a].watch = w} IN
            /\ snap' = [snap EXCEPT ![p] = @ \ group]
            /\ \/ \E rows \in NewestFirst(group) : todo' = [todo EXCEPT ![p] = rows]
               \/ UNCHANGED todo
      BY <1>2 DEF NextWatch
    <2> DEFINE group == {a \in snap[p] : alerts[a].watch = w}
               rest == snap[p] \ group
    <2>2. /\ AlertTypes /\ group \in SUBSET Ids /\ group \subseteq Held(p) /\ rest \subseteq Held(p)
          /\ SetOf(todo[p]) \subseteq Held(p) /\ SetOf(batch[p]) \subseteq Held(p)
      BY HeldParts
    <2>3. snap' = [snap EXCEPT ![p] = rest]
      BY <2>1
    <2>4. batch' = [batch EXCEPT ![p] = batch[p]]
      BY HeldParts DEF NextWatch
    <2>5. \/ \E rows \in NewestFirst(group) : todo' = [todo EXCEPT ![p] = rows]
          \/ todo' = [todo EXCEPT ![p] = todo[p]]
      BY <2>1, HeldParts
    <2> HIDE DEF group, rest
    <2>6. CASE \E rows \in NewestFirst(group) : todo' = [todo EXCEPT ![p] = rows]
      <3>1. PICK rows \in NewestFirst(group) : todo' = [todo EXCEPT ![p] = rows]
        BY <2>6
      <3>2. SetOf(rows) \subseteq group
        BY <2>2, ListingWithin
      <3>3. SetOf(rows) \subseteq Held(p)
        BY <2>2, <3>2
      <3>4. QED BY <2>2, <2>3, <2>4, <3>1, <3>3, HeldNext DEF HeldFromRows
    <2>7. CASE todo' = [todo EXCEPT ![p] = todo[p]]
      BY <2>2, <2>3, <2>4, <2>7, HeldNext DEF HeldFromRows
    <2>8. QED BY <2>5, <2>6, <2>7
  <1>3. QED BY <1>1, <1>2

LEMMA HeldBySendChunk ==
    ASSUME AlertInv, NEW p \in Processors, SendChunk(p)
    PROVE  HeldFromRows(p)
  <1>1. UNCHANGED <<snap, batch>>
    BY DEF SendChunk
  <1>2. sent[p] \in Nat /\ sent[p] <= Len(batch[p]) /\ batch[p] \in Seq(Ids) /\ Len(batch[p]) \in Nat
        /\ DOMAIN batch[p] = 1..Len(batch[p])
    BY CallOf, IdSeq DEF SendChunk, Locals
  <1>3. UNCHANGED todo \/ PostingEnds(p, Len(batch[p])) \/ PostingEnds(p, sent[p])
    BY DEF SendChunk
  <1>4. ASSUME NEW n \in Nat, n <= Len(batch[p]), PostingEnds(p, n)
        PROVE  HeldFromRows(p)
    <2>1. SetOf(DeliveredIds(p, n)) = {batch[p][i] : i \in 1..n}
      BY <1>2, <1>4, DeliveredIdsAre
    <2>2. \A i \in 1..n : i \in DOMAIN batch[p]
      BY <1>2, <1>4
    <2>3. {batch[p][i] : i \in 1..n} \subseteq SetOf(batch[p])
      BY <2>2 DEF SetOf
    <2>4. PICK td : td = DeliveredIds(p, n)
      OBVIOUS
    <2>5. snap' = [snap EXCEPT ![p] = snap[p]] /\ todo' = [todo EXCEPT ![p] = td] /\ batch' = [batch EXCEPT ![p] = batch[p]]
      BY <1>1, <1>4, <2>4, HeldParts DEF PostingEnds
    <2>6. AlertTypes /\ snap[p] \subseteq Held(p) /\ SetOf(batch[p]) \subseteq Held(p)
      BY HeldParts
    <2>7. SetOf(td) \subseteq Held(p)
      BY <2>1, <2>3, <2>4, <2>6
    <2>8. QED BY <2>5, <2>6, <2>7, HeldNext DEF HeldFromRows
  <1>5. UNCHANGED todo => HeldFromRows(p)
    BY <1>1, HeldByStay
  <1>6. QED BY <1>2, <1>3, <1>4, <1>5

\* What a call of ProcessAlerts holds, and so everything it is going to post.
LEMMA ProcessorHolds ==
    ASSUME AlertInv, NEW p \in Processors, ProcessorStep(p) \/ Crash(p)
    PROVE  HeldFromRows(p) /\ DOMAIN alerts' = DOMAIN alerts
  <1>1. \/ UNCHANGED alerts \/ \E S : alerts' = Marked(S)
    BY DEF ProcessorStep, Crash, ListPendingAlerts, NextWatch, CheckSingle, SendSingle, AttemptSingle,
           MarkSingle, FilterBatch, BatchBuilt, SendChunk, RecordAttempt, AttemptsRecorded, MarkBatch, tableVars
  <1>2. DOMAIN alerts' = DOMAIN alerts
    BY <1>1, MarkedRows DEF AlertInv
  <1>3. stage[p] = "mark" => todo[p] # <<>>
    BY CallOf DEF Locals
  <1>4. \/ UNCHANGED <<snap, todo, batch>>
        \/ Abandon(p) /\ UNCHANGED snap
        \/ todo[p] # <<>> /\ Advance(p) /\ UNCHANGED <<snap, batch>>
        \/ Crash(p) \/ FilterBatch(p) \/ ListPendingAlerts(p) \/ NextWatch(p) \/ SendChunk(p)
    BY <1>3 DEF ProcessorStep, CheckSingle, SendSingle, AttemptSingle, MarkSingle, BatchBuilt,
                RecordAttempt, AttemptsRecorded, MarkBatch
  <1>5. todo[p] # <<>> /\ Advance(p) /\ UNCHANGED <<snap, batch>> => HeldFromRows(p)
    <2>1. SUFFICES ASSUME todo[p] # <<>>, Advance(p), UNCHANGED <<snap, batch>>
                   PROVE  HeldFromRows(p)
      OBVIOUS
    <2>2. batch' = [batch EXCEPT ![p] = batch[p]] /\ SetOf(batch[p]) \subseteq Held(p) /\ UNCHANGED snap
      BY <2>1, HeldParts
    <2>3. QED BY <2>1, <2>2, HeldByAdvance
  <1>6. HeldFromRows(p)
    BY <1>4, <1>5, HeldByStay, HeldByAbandon, HeldByCrash, HeldByFilterBatch, HeldByListing,
       HeldByNextWatch, HeldBySendChunk
  <1>7. QED BY <1>2, <1>6

OutboxInv == AlertInv /\ HoldRows

LEMMA HoldRowsStep == OutboxInv /\ [Next]_vars => HoldRows'
  <1> SUFFICES ASSUME AlertInv, HoldRows, [Next]_vars PROVE HoldRows'
    BY DEF OutboxInv
  <1>1. ASSUME NEW p \in Processors, ProcessorStep(p) \/ Crash(p) PROVE HoldRows'
    <2>1. HeldFromRows(p) /\ DOMAIN alerts' = DOMAIN alerts
      BY <1>1, ProcessorHolds
    <2>2. ASSUME NEW q \in Processors PROVE Held(q)' \subseteq DOMAIN alerts'
      <3>1. CASE q = p
        BY <2>1, <3>1 DEF HeldFromRows, HoldRows
      <3>2. CASE q # p
        BY <2>1, <3>2 DEF HeldFromRows, HoldRows
      <3>3. QED BY <3>1, <3>2
    <2>3. QED BY <2>2 DEF HoldRows
  <1>2. ASSUME UNCHANGED procVars, DOMAIN alerts \subseteq DOMAIN alerts' PROVE HoldRows'
    <2>1. \A q \in Processors : Held(q)' = Held(q)
      BY <1>2 DEF procVars, Held, SetOf
    <2>2. QED BY <1>2, <2>1 DEF HoldRows
  <1>3. ASSUME NEW e \in Evaluators, CreateAlert(e) PROVE HoldRows'
    <2>1. UNCHANGED procVars
      BY <1>3 DEF CreateAlert
    <2>2. alerts' = alerts \/ \E row \in AlertRow : alerts' = Append(alerts, row)
      <3>1. AlertTypes /\ eval[e] \in Watches \X Listings
        BY <1>3 DEF AlertInv, AlertTypes, CreateAlert
      <3>2. NewAlert(eval[e][1], eval[e][2]) \in AlertRow
        BY <3>1 DEF NewAlert, AlertRow
      <3>3. QED BY <1>3, <3>2 DEF CreateAlert, Inserted
    <2>3. ASSUME NEW row \in AlertRow PROVE DOMAIN alerts \subseteq DOMAIN Append(alerts, row)
      <3>1. alerts \in Seq(AlertRow)
        BY DEF AlertInv, AlertTypes
      <3>2. Append(alerts, row) \in Seq(AlertRow) /\ Len(Append(alerts, row)) = Len(alerts) + 1
        BY <3>1, AppendProperties
      <3>3. /\ DOMAIN Append(alerts, row) = 1..(Len(alerts) + 1)
            /\ DOMAIN alerts = 1..Len(alerts) /\ Len(alerts) \in Nat
        BY <3>1, <3>2, LenProperties
      <3>4. QED BY <3>3
    <2>4. QED BY <1>2, <2>1, <2>2, <2>3
  <1>4. ASSUME NEW a \in DOMAIN alerts, CooldownElapses(a) \/ DismissAlert(a) \/ RestoreAlert(a)
        PROVE  HoldRows'
    BY <1>2, <1>4 DEF CooldownElapses, DismissAlert, RestoreAlert, SetDismissed
  <1>5. ASSUME \/ \E e \in Evaluators, w \in Watches, l \in Listings : EvaluateAlert(e, w, l)
               \/ \E a \in DOMAIN alerts : RetrySend(a)
               \/ RetryRecord
               \/ \E w \in Watches : DeleteWatch(w)
               \/ UNCHANGED vars
        PROVE  HoldRows'
    BY <1>2, <1>5 DEF EvaluateAlert, RetrySend, RetryRecord, DeleteWatch, tableVars, vars
  <1>6. QED BY <1>1, <1>3, <1>4, <1>5 DEF Next

LEMMA InitHoldRows == Init => HoldRows
  <1> SUFFICES ASSUME Init PROVE HoldRows
    OBVIOUS
  <1>1. ASSUME NEW p \in Processors PROVE Held(p) = {}
    <2>1. snap[p] = {} /\ todo[p] = <<>> /\ batch[p] = <<>>
      BY DEF Init
    <2>2. QED BY <2>1, SetOfParts DEF Held
  <1>2. QED BY <1>1 DEF HoldRows

\* Every call of ProcessAlerts works on rows of the table, in every state.
THEOREM OutboxInvariant == Spec => []OutboxInv
  <1>1. Init => OutboxInv
    BY InitAlertInv, InitHoldRows DEF OutboxInv
  <1>2. OutboxInv /\ [Next]_vars => OutboxInv'
    BY AlertStep, HoldRowsStep DEF OutboxInv
  <1>3. QED BY <1>1, <1>2, PTL DEF Spec

-----------------------------------------------------------------------------
\* The table and the posts as the outbox sees them.
OutboxRows == [a \in DOMAIN alerts |-> [watch   |-> alerts[a].watch,
                                        listing |-> alerts[a].listing,
                                        closed  |-> alerts[a].notified]]
OutboxPosted == {a \in Ids : reached[a] > 0}

OutboxStep == Outbox!OutboxNext \/ UNCHANGED Outbox!outboxVars

LEMMA OutboxStays ==
    ASSUME UNCHANGED <<OutboxRows, OutboxPosted, byHand, succeeded, alive>>
    PROVE  OutboxStep
  BY DEF OutboxStep, Outbox!outboxVars, OutboxRows, OutboxPosted

\* A post brings rows that the call holds into Discord.
LEMMA PostMaps ==
    ASSUME OutboxInv, NEW p \in Processors, NEW S, S \subseteq Held(p),
           PostSucceeds(S) \/ PostFails(S), UNCHANGED <<alerts, byHand, succeeded, alive>>
    PROVE  OutboxStep
  <1> DEFINE new == {a \in Ids : reached'[a] > reached[a]}
  <1>1. AlertTypes /\ new \subseteq S /\ \A a \in Ids : reached'[a] \in Nat /\ reached'[a] >= reached[a]
    BY PostArrives DEF OutboxInv, AlertInv
  <1>2. new \subseteq DOMAIN alerts
    BY <1>1 DEF OutboxInv, HoldRows
  <1>3. \A a \in Ids : reached[a] \in Nat
    BY <1>1 DEF AlertTypes
  <1>4. OutboxPosted' = OutboxPosted \cup new
    BY <1>1, <1>3 DEF OutboxPosted
  <1>5. DOMAIN OutboxRows = DOMAIN alerts /\ OutboxRows' = OutboxRows
    BY DEF OutboxRows
  <1>6. new \in SUBSET Ids
    OBVIOUS
  <1> HIDE DEF new
  <1>7. PICK T \in SUBSET Ids : T = new
    BY <1>6
  <1>8. Outbox!Post(T)
    <2>1. T \subseteq DOMAIN OutboxRows /\ OutboxPosted' = OutboxPosted \cup T
      BY <1>2, <1>4, <1>5, <1>7
    <2>2. QED BY <2>1, <1>5 DEF Outbox!Post, OutboxRows, OutboxPosted
  <1>9. QED BY <1>8 DEF OutboxStep, Outbox!OutboxNext

\* A recorded attempt is the receipt of a message that arrived.
LEMMA ReceiptMaps ==
    ASSUME OutboxInv, AlertInv', NEW a \in Ids, NEW ok, succeeded' \in {succeeded, Recorded(a, ok)},
           UNCHANGED <<alerts, reached, byHand, alive>>
    PROVE  OutboxStep
  <1>1. CASE succeeded' = succeeded
    BY <1>1, OutboxStays DEF OutboxRows, OutboxPosted
  <1>2. CASE succeeded' # succeeded
    <2>1. succeeded' = succeeded \cup {a} /\ Exists(a)
      BY <1>2 DEF Recorded
    <2>2. a \in OutboxPosted \cup byHand
      BY <2>1 DEF AlertInv, AttemptsTruthful, OutboxPosted
    <2>3. a \in DOMAIN OutboxRows /\ OutboxRows[a].watch \in alive /\ OutboxRows' = OutboxRows /\ OutboxPosted' = OutboxPosted
      BY <2>1 DEF Exists, OutboxRows, OutboxPosted
    <2>4. Outbox!TakeReceipt(a)
      BY <2>1, <2>2, <2>3 DEF Outbox!TakeReceipt, Outbox!Stands, OutboxRows, OutboxPosted
    <2>5. QED BY <2>4 DEF OutboxStep, Outbox!OutboxNext
  <1>3. QED BY <1>1, <1>2

\* An UPDATE that sets notified closes the rows it finds; they have arrived.
LEMMA CloseMaps ==
    ASSUME OutboxInv, AlertInv', NEW S, alerts' \in {alerts, Marked(S)},
           UNCHANGED <<succeeded, reached, byHand, alive>>
    PROVE  OutboxStep
  <1>1. CASE alerts' = alerts
    BY <1>1, OutboxStays DEF OutboxRows, OutboxPosted
  <1>2. CASE alerts' = Marked(S)
    <2> DEFINE found == {a \in DOMAIN alerts : a \in S /\ Exists(a)}
    <2>1. AlertTypes /\ (\A a \in DOMAIN alerts : alerts[a] \in AlertRow) /\ DOMAIN alerts \subseteq Ids
      BY Rows DEF OutboxInv, AlertInv
    <2>2. /\ DOMAIN alerts' = DOMAIN alerts
          /\ \A a \in DOMAIN alerts : /\ alerts'[a].watch = alerts[a].watch
                                      /\ alerts'[a].listing = alerts[a].listing
                                      /\ alerts'[a].notified = (alerts[a].notified \/ a \in found)
      BY <1>2, <2>1 DEF Marked, AlertRow
    <2>3. \A a \in found : a \in OutboxPosted
      BY <2>1, <2>2 DEF AlertInv, NotifiedOnlyIfReached, OutboxPosted
    <2>4. \A a \in found : a \in DOMAIN OutboxRows /\ OutboxRows[a].watch \in alive
      BY DEF Exists, OutboxRows
    <2>5. found \in SUBSET Ids
      BY <2>1
    <2> HIDE DEF found
    <2>6. OutboxRows' = [a \in DOMAIN OutboxRows |->
                            IF a \in found THEN [OutboxRows[a] EXCEPT !.closed = TRUE] ELSE OutboxRows[a]]
      <3>1. \A a \in DOMAIN alerts : alerts[a].notified \in BOOLEAN
        BY <2>1 DEF AlertRow
      <3>2. \A a \in DOMAIN alerts : alerts'[a].notified = IF a \in found THEN TRUE ELSE alerts[a].notified
        BY <2>2, <3>1
      <3>3. QED BY <2>2, <3>2 DEF OutboxRows
    <2>7. OutboxPosted' = OutboxPosted
      BY DEF OutboxPosted
    <2>8. PICK T \in SUBSET Ids : T = found
      BY <2>5
    <2>9. Outbox!Close(T)
      BY <2>3, <2>4, <2>6, <2>7, <2>8 DEF Outbox!Close, Outbox!Stands, OutboxRows, OutboxPosted
    <2>10. QED BY <2>9 DEF OutboxStep, Outbox!OutboxNext
  <1>3. QED BY <1>1, <1>2

\* INSERT ... ON CONFLICT DO NOTHING raises a row when no other one is open.
LEMMA RaiseMaps ==
    ASSUME OutboxInv, AlertInv', NEW e \in Evaluators, CreateAlert(e)
    PROVE  OutboxStep
  <1>1. /\ AlertTypes /\ alerts \in Seq(AlertRow) /\ DOMAIN alerts = 1..Len(alerts) /\ Len(alerts) \in Nat
        /\ eval[e] \in Watches \X Listings
    BY Rows DEF OutboxInv, AlertInv, AlertTypes, CreateAlert
  <1>2. UNCHANGED <<succeeded, reached, byHand, alive>>
    BY DEF CreateAlert, world
  <1>3. CASE alerts' = alerts
    BY <1>2, <1>3, OutboxStays DEF OutboxRows, OutboxPosted
  <1>4. CASE alerts' # alerts
    <2>1. PICK w \in Watches, l \in Listings : w = eval[e][1] /\ l = eval[e][2]
      BY <1>1
    <2>2. /\ w \in alive /\ alerts' = Append(alerts, NewAlert(w, l))
          /\ ~ \E a \in DOMAIN alerts : Pending(a) /\ alerts[a].watch = w /\ alerts[a].listing = l
      BY <1>4, <2>1 DEF CreateAlert, Inserted
    <2>3. PICK a \in Nat : a = Len(alerts) + 1
      BY <1>1
    <2>4. NewAlert(w, l) \in AlertRow
      BY DEF NewAlert, AlertRow
    <2>5. /\ DOMAIN alerts' = DOMAIN alerts \cup {a} /\ a \notin DOMAIN alerts
          /\ alerts'[a] = NewAlert(w, l)
          /\ \A b \in DOMAIN alerts : alerts'[b] = alerts[b]
      <3>1. /\ alerts' \in Seq(AlertRow) /\ Len(alerts') = Len(alerts) + 1
            /\ \A i \in 1..Len(alerts) : alerts'[i] = alerts[i]
            /\ alerts'[Len(alerts) + 1] = NewAlert(w, l)
        BY <1>1, <2>2, <2>4, AppendProperties
      <3>2. DOMAIN alerts' = 1..a
        BY <2>3, <3>1, LenProperties
      <3>3. QED BY <1>1, <2>3, <3>1, <3>2
    <2>6. a \in Ids
      <3>1. a \in 1..Len(alerts')
        BY <1>1, <2>2, <2>3, <2>4, AppendProperties
      <3>2. Len(alerts') \in Nat /\ Len(alerts') <= MaxAlerts
        BY LenProperties DEF AlertInv, AlertTypes
      <3>3. QED BY <2>3, <3>1, <3>2, IdsAreNat DEF Ids
    <2>7. OutboxRows' = [b \in DOMAIN OutboxRows \cup {a} |->
                            IF b = a THEN [watch |-> w, listing |-> l, closed |-> FALSE] ELSE OutboxRows[b]]
      <3>1. alerts'[a].watch = w /\ alerts'[a].listing = l /\ alerts'[a].notified = FALSE
        BY <2>5 DEF NewAlert
      <3>2. DOMAIN OutboxRows = DOMAIN alerts
        BY DEF OutboxRows
      <3>3. \A b \in DOMAIN alerts' :
               [watch |-> alerts'[b].watch, listing |-> alerts'[b].listing, closed |-> alerts'[b].notified]
                 = IF b = a THEN [watch |-> w, listing |-> l, closed |-> FALSE] ELSE OutboxRows[b]
        BY <2>5, <3>1 DEF OutboxRows
      <3>4. QED BY <2>5, <3>2, <3>3 DEF OutboxRows
    <2>8. a \notin DOMAIN OutboxRows /\ OutboxPosted' = OutboxPosted
      BY <1>2, <2>5 DEF OutboxRows, OutboxPosted
    <2>9. ~ \E b \in DOMAIN OutboxRows : /\ b \in DOMAIN OutboxRows /\ OutboxRows[b].watch \in alive
                                         /\ ~OutboxRows[b].closed
                                         /\ OutboxRows[b].watch = w /\ OutboxRows[b].listing = l
      BY <2>2 DEF Pending, Exists, OutboxRows
    <2>10. Outbox!Raise(a, w, l)
      BY <1>2, <2>2, <2>7, <2>8, <2>9 DEF Outbox!Raise, Outbox!Open, Outbox!Stands, OutboxRows, OutboxPosted
    <2>11. QED BY <2>6, <2>10 DEF OutboxStep, Outbox!OutboxNext
  <1>5. QED BY <1>3, <1>4

\* Retry posts the message of a row that stands, or none.
LEMMA RetrySendMaps ==
    ASSUME OutboxInv, NEW a \in DOMAIN alerts, RetrySend(a)
    PROVE  OutboxStep
  <1>1. UNCHANGED <<alerts, succeeded, reached, alive>> /\ byHand' \in {byHand, byHand \cup {a}} /\ Exists(a)
    BY DEF RetrySend, tableVars
  <1>2. CASE byHand' = byHand
    BY <1>1, <1>2, OutboxStays DEF OutboxRows, OutboxPosted
  <1>3. CASE byHand' = byHand \cup {a}
    <2>1. a \in DOMAIN OutboxRows /\ OutboxRows[a].watch \in alive /\ OutboxRows' = OutboxRows /\ OutboxPosted' = OutboxPosted
      BY <1>1 DEF Exists, OutboxRows, OutboxPosted
    <2>2. Outbox!PostByHand(a)
      BY <1>1, <1>3, <2>1 DEF Outbox!PostByHand, Outbox!Stands, OutboxRows, OutboxPosted
    <2>3. a \in Ids
      BY Rows DEF OutboxInv, AlertInv
    <2>4. QED BY <2>2, <2>3 DEF OutboxStep, Outbox!OutboxNext
  <1>4. QED BY <1>1, <1>2, <1>3

\* Dismissing, restoring and the end of a cooldown touch nothing of the outbox.
LEMMA EditMaps ==
    ASSUME OutboxInv, NEW a \in DOMAIN alerts, CooldownElapses(a) \/ DismissAlert(a) \/ RestoreAlert(a)
    PROVE  OutboxStep
  <1>1. UNCHANGED <<succeeded, reached, byHand, alive>>
    BY DEF CooldownElapses, DismissAlert, RestoreAlert, SetDismissed, world
  <1>2. \A b \in DOMAIN alerts : alerts[b] \in AlertRow
    BY Rows DEF OutboxInv, AlertInv
  <1>3. /\ DOMAIN alerts' = DOMAIN alerts
        /\ \A b \in DOMAIN alerts : /\ alerts'[b].watch = alerts[b].watch
                                    /\ alerts'[b].listing = alerts[b].listing
                                    /\ alerts'[b].notified = alerts[b].notified
    <2>1. ASSUME CooldownElapses(a)
          PROVE  alerts' = [alerts EXCEPT ![a].recent = FALSE]
      BY <2>1 DEF CooldownElapses
    <2>2. ASSUME DismissAlert(a) \/ RestoreAlert(a)
          PROVE  \E to \in BOOLEAN : alerts' = [alerts EXCEPT ![a].dismissed = to]
      BY <2>2 DEF DismissAlert, RestoreAlert, SetDismissed
    <2>3. CASE alerts' = [alerts EXCEPT ![a].recent = FALSE]
      BY <1>2, <2>3 DEF AlertRow
    <2>4. ASSUME NEW to \in BOOLEAN, alerts' = [alerts EXCEPT ![a].dismissed = to]
          PROVE  /\ DOMAIN alerts' = DOMAIN alerts
                 /\ \A b \in DOMAIN alerts : /\ alerts'[b].watch = alerts[b].watch
                                             /\ alerts'[b].listing = alerts[b].listing
                                             /\ alerts'[b].notified = alerts[b].notified
      BY <1>2, <2>4 DEF AlertRow
    <2>5. QED BY <2>1, <2>2, <2>3, <2>4
  <1>4. OutboxRows' = OutboxRows
    BY <1>3 DEF OutboxRows
  <1>5. QED BY <1>1, <1>4, OutboxStays DEF OutboxPosted

\* Each step of a call is a post, a receipt, a closing of rows, or nothing.
LEMMA ProcessorMaps ==
    ASSUME OutboxInv, AlertInv', NEW p \in Processors, ProcessorStep(p) \/ Crash(p)
    PROVE  OutboxStep
  <1>1. AlertInv /\ todo[p] \in Seq(Ids) /\ SetOf(batch[p]) \subseteq Held(p)
        /\ (todo[p] # <<>> => Current(p) \in Held(p) /\ Current(p) \in Ids)
    BY HeldParts DEF OutboxInv
  <1>2. stage[p] \in {"send", "attempt", "mark"} => todo[p] # <<>>
    BY <1>1, CallOf DEF Locals
  <1>3. CASE SendSingle(p)
    <2>1. {Current(p)} \subseteq Held(p) /\ UNCHANGED <<alerts, byHand, succeeded, alive>>
      BY <1>1, <1>2, <1>3 DEF SendSingle, tableVars, world
    <2>2. PostSucceeds({Current(p)}) \/ PostFails({Current(p)})
      BY <1>3 DEF SendSingle
    <2>3. QED BY <2>1, <2>2, PostMaps
  <1>4. CASE SendChunk(p)
    <2>1. /\ UNCHANGED <<alerts, byHand, succeeded, alive>>
          /\ PostSucceeds(SetOf(Chunk(p))) \/ PostFails(SetOf(Chunk(p)))
      BY <1>4 DEF SendChunk, tableVars, world
    <2>2. batch[p] \in Seq(Ids) /\ sent[p] \in Nat /\ sent[p] <= Len(batch[p])
      BY <1>1, <1>4, CallOf DEF SendChunk, Locals
    <2>3. PICK end \in Nat : end <= Len(batch[p]) /\ SetOf(Chunk(p)) = {batch[p][i] : i \in (sent[p] + 1)..end}
      BY <2>2, ChunkIs
    <2>4. \A i \in (sent[p] + 1)..end : i \in DOMAIN batch[p]
      BY <2>2, <2>3, IdSeq
    <2>5. {batch[p][i] : i \in (sent[p] + 1)..end} \subseteq SetOf(batch[p])
      BY <2>4 DEF SetOf
    <2>6. SetOf(Chunk(p)) \subseteq Held(p)
      BY <1>1, <2>3, <2>5
    <2>7. QED BY <2>1, <2>6, PostMaps
  <1>5. CASE AttemptSingle(p)
    <2>1. /\ UNCHANGED <<alerts, reached, byHand, alive>> /\ Current(p) \in Ids
          /\ succeeded' \in {succeeded, Recorded(Current(p), sent[p] = 1)}
      BY <1>1, <1>2, <1>5 DEF AttemptSingle, world
    <2>2. PICK ok : ok = (sent[p] = 1)
      OBVIOUS
    <2>3. QED BY <2>1, <2>2, ReceiptMaps
  <1>6. CASE RecordAttempt(p)
    <2>1. /\ UNCHANGED <<alerts, reached, byHand, alive>> /\ Current(p) \in Ids
          /\ succeeded' \in {succeeded, Recorded(Current(p), TRUE)}
      BY <1>1, <1>6 DEF RecordAttempt, world
    <2>2. PICK ok : ok = TRUE
      OBVIOUS
    <2>3. succeeded' \in {succeeded, Recorded(Current(p), ok)}
      BY <2>1, <2>2
    <2>4. QED BY <2>1, <2>3, ReceiptMaps
  <1>7. CASE MarkSingle(p)
    <2>1. UNCHANGED <<succeeded, reached, byHand, alive>> /\ alerts' \in {alerts, Marked({Current(p)})}
      BY <1>7 DEF MarkSingle, world
    <2>2. QED BY <2>1, CloseMaps
  <1>8. CASE MarkBatch(p)
    <2>1. /\ UNCHANGED <<succeeded, reached, byHand, alive>>
          /\ alerts' \in {alerts, Marked(SetOf(DeliveredIds(p, sent[p])))}
      BY <1>8 DEF MarkBatch, world
    <2>2. QED BY <2>1, CloseMaps
  <1>9. ASSUME \/ ListPendingAlerts(p) \/ NextWatch(p) \/ CheckSingle(p) \/ FilterBatch(p)
               \/ BatchBuilt(p) \/ AttemptsRecorded(p) \/ Crash(p)
        PROVE  OutboxStep
    <2>1. UNCHANGED <<alerts, reached, byHand, succeeded, alive>>
      BY <1>9 DEF ListPendingAlerts, NextWatch, CheckSingle, FilterBatch, BatchBuilt, AttemptsRecorded, Crash,
                  tableVars, world
    <2>2. QED BY <2>1, OutboxStays DEF OutboxRows, OutboxPosted
  <1>10. QED BY <1>3, <1>4, <1>5, <1>6, <1>7, <1>8, <1>9 DEF ProcessorStep

LEMMA NextMaps == OutboxInv /\ AlertInv' /\ [Next]_vars => [Outbox!OutboxNext]_(Outbox!outboxVars)
  <1> SUFFICES ASSUME OutboxInv, AlertInv', [Next]_vars PROVE OutboxStep
    BY DEF OutboxStep
  <1>1. ASSUME NEW p \in Processors, ProcessorStep(p) \/ Crash(p) PROVE OutboxStep
    BY <1>1, ProcessorMaps
  <1>2. ASSUME NEW e \in Evaluators, CreateAlert(e) PROVE OutboxStep
    BY <1>2, RaiseMaps
  <1>3. ASSUME NEW a \in DOMAIN alerts, RetrySend(a) PROVE OutboxStep
    BY <1>3, RetrySendMaps
  <1>4. ASSUME NEW a \in DOMAIN alerts, CooldownElapses(a) \/ DismissAlert(a) \/ RestoreAlert(a)
        PROVE  OutboxStep
    BY <1>4, EditMaps
  <1>5. CASE RetryRecord
    <2>1. /\ UNCHANGED <<alerts, reached, byHand, alive>> /\ retry # None
          /\ succeeded' \in {succeeded, Recorded(retry.alert, retry.ok)}
      BY <1>5 DEF RetryRecord, world
    <2>2. retry.alert \in Ids
      BY <2>1 DEF OutboxInv, AlertInv, AlertTypes
    <2>3. PICK a \in Ids : a = retry.alert
      BY <2>2
    <2>4. PICK ok : ok = retry.ok
      OBVIOUS
    <2>5. succeeded' \in {succeeded, Recorded(a, ok)}
      BY <2>1, <2>3, <2>4
    <2>6. QED BY <2>1, <2>5, ReceiptMaps
  <1>6. ASSUME NEW w \in Watches, DeleteWatch(w) PROVE OutboxStep
    <2>1. w \in alive /\ alive' = alive \ {w} /\ UNCHANGED <<OutboxRows, OutboxPosted, byHand, succeeded>>
      BY <1>6 DEF DeleteWatch, tableVars, OutboxRows, OutboxPosted
    <2>2. Outbox!Withdraw(w)
      BY <2>1 DEF Outbox!Withdraw, OutboxRows, OutboxPosted
    <2>3. QED BY <2>2 DEF OutboxStep, Outbox!OutboxNext
  <1>7. ASSUME \/ \E e \in Evaluators, w \in Watches, l \in Listings : EvaluateAlert(e, w, l)
               \/ UNCHANGED vars
        PROVE  OutboxStep
    <2>1. UNCHANGED <<alerts, reached, byHand, succeeded, alive>>
      BY <1>7 DEF EvaluateAlert, vars, tableVars, world
    <2>2. QED BY <2>1, OutboxStays DEF OutboxRows, OutboxPosted
  <1>8. QED BY <1>1, <1>2, <1>3, <1>4, <1>5, <1>6, <1>7 DEF Next

LEMMA InitMaps == Init => Outbox!OutboxInit
  <1> SUFFICES ASSUME Init PROVE Outbox!OutboxInit
    OBVIOUS
  <1>1. DOMAIN alerts = {}
    <2>1. Len(alerts) = 0 /\ alerts \in Seq(AlertRow)
      BY EmptySeq DEF Init
    <2>2. DOMAIN alerts = 1..0
      BY <2>1, LenProperties
    <2>3. QED BY <2>2
  <1>2. OutboxRows = [a \in {} |-> {}]
    BY <1>1 DEF OutboxRows
  <1>3. OutboxPosted = {}
    BY DEF Init, OutboxPosted
  <1>4. QED BY <1>2, <1>3 DEF Init, Outbox!OutboxInit, OutboxRows, OutboxPosted

\* evaluateAlert, ProcessAlerts and the operators' handlers implement the
\* outbox, for any number of them, any failures and any crashes.
THEOREM AlertsImplementOutbox == Spec => ImplementsOutbox
  BY InitMaps, NextMaps, OutboxInvariant, AlertInvariant, PTL DEF Spec, ImplementsOutbox, Outbox!OutboxSpec
=============================================================================
