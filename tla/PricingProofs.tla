---------------------------- MODULE PricingProofs ----------------------------
(***************************************************************************)
(* What an extraction and the price factor guarantee, for every listing,   *)
(* every backend, every attribute map the LLM may return and every price.  *)
(*                                                                         *)
(* The properties of an extraction speak of one that is done. ExtractInv   *)
(* follows one from its first step: what the title had decided when it     *)
(* left the short cuts (Decided), and where the attributes it accepts come *)
(* from (Accepted). The price factor is a broken line through the          *)
(* percentiles of a baseline: ScoreFalls is about the line, DealInv about  *)
(* the baselines that are stored.                                          *)
(***************************************************************************)
EXTENDS Extractor, Deals, FiniteSetTheorems, WellFoundedInduction, TLAPS

\* What the title had decided when the short cuts were left.
Decided ==
  /\ ComputerTitle => pc \in {"extract", "done"} /\ ct \in {"workstation", "desktop"}
  /\ PartTitle /\ ~ComputerTitle => pc = "done" /\ outcome = "ok" /\ ct = "other" /\ answered = 0
  /\ IncidentalNoun => ~(outcome = "ok" /\ ct = "other")

\* Attributes that were normalised, passed the validator and got their condition.
Accepted ==
  \E norm :
    /\ ValidateExtraction(ct, norm)
    /\ ct = "server" => IsStr(norm, "tier") /\ norm["tier"].s \in {"barebone", "configured", "partial"}
    /\ attrs = WithCondition(norm)

ExtractInv ==
  /\ pc \in {"start", "classify", "extract", "done"}
  /\ pc = "start" => answered = 0
  /\ pc # "start" => Decided
  /\ outcome = "ok" => pc = "done" /\ (ct # "other" => Accepted)

-----------------------------------------------------------------------------
LEMMA InitExtractInv == InitExtract => ExtractInv
  BY DEF InitExtract, ExtractInv

\* The two pre-classifiers on these titles.
LEMMA TitleTypes ==
    /\ ComputerTitle => preclassifyTitle \in {"workstation", "desktop"}
    /\ ~ComputerTitle => preclassifyTitle = ""
    /\ preclassifyAccessory <=> PartTitle
  <1>1. listing.title \cap {"thinkstation", "optiplex", "prodesk"} # {} <=>
          listing.title \cap {"thinkstation"} # {} \/ listing.title \cap {"optiplex", "prodesk"} # {}
    OBVIOUS
  <1>2. /\ ComputerTitle => preclassifyTitle \in {"workstation", "desktop"}
        /\ ~ComputerTitle => preclassifyTitle = ""
    BY <1>1 DEF ComputerTitle, preclassifyTitle, DetectSystemTypeFromTitle, matchesAny,
                systemCompletenessSignals, workstationTitlePrimaries, desktopTitlePrimaries
  <1>3. matchesAny(listing.title, compoundAccessoryPatterns) <=> Technology
    BY DEF Technology, compoundAccessoryPatterns
  <1>4. matchesAny(listing.title, accessoryPatterns) <=> AccessoryNoun \/ Technology
    BY DEF AccessoryNoun, Technology, matchesAny, accessoryPatterns, compoundAccessoryPatterns
  <1>5. preclassifyAccessory <=> PartTitle
    BY <1>3, <1>4 DEF preclassifyAccessory, IsAccessoryOnly, PartTitle, IsPrimary, matchesAny,
                      Technology, AccessoryNoun
  <1>6. QED BY <1>2, <1>5

\* They depend on the listing alone.
LEMMA TitleFrame ==
    ASSUME UNCHANGED listing
    PROVE  UNCHANGED <<ComputerTitle, PartTitle, IncidentalNoun>>
  <1>1. UNCHANGED <<Technology, AccessoryNoun, ComputerTitle, IsPrimary(listing.title)>>
    BY DEF Technology, AccessoryNoun, ComputerTitle
  <1>2. QED BY <1>1 DEF PartTitle, IncidentalNoun

LEMMA ShortCutsKeep ==
    ASSUME ExtractInv, ClassifyAndExtract
    PROVE  ExtractInv'
  <1>1. pc = "start" /\ UNCHANGED <<listing, answered>> /\ answered = 0 /\ outcome # "ok"
    BY DEF ClassifyAndExtract, ExtractInv
  <1>2. UNCHANGED <<ComputerTitle, PartTitle, IncidentalNoun>>
    BY <1>1, TitleFrame
  <1>3. CASE preclassifyTitle # "" /\ ExtractAs(preclassifyTitle)
    <2>1. ct' = preclassifyTitle /\ pc' = "extract" /\ outcome' = outcome
      BY <1>3 DEF ExtractAs
    <2>2. ComputerTitle /\ preclassifyTitle \in {"workstation", "desktop"}
      BY <1>3, TitleTypes
    <2>3. Decided'
      BY <1>1, <1>2, <2>1, <2>2 DEF Decided
    <2>4. QED BY <1>1, <2>1, <2>3 DEF ExtractInv
  <1>4. CASE /\ preclassifyTitle = "" /\ preclassifyAccessory
             /\ ct' = "other" /\ Finish("ok")
    <2>1. ct' = "other" /\ pc' = "done" /\ outcome' = "ok"
      BY <1>4 DEF Finish
    <2>2. ~ComputerTitle /\ PartTitle /\ ~IncidentalNoun
      BY <1>4, TitleTypes DEF IncidentalNoun, PartTitle
    <2>3. Decided'
      BY <1>1, <1>2, <2>1, <2>2 DEF Decided
    <2>4. QED BY <1>1, <2>1, <2>3 DEF ExtractInv
  <1>5. CASE preclassifyTitle = "" /\ ~preclassifyAccessory
    <2>1. ~ComputerTitle /\ ~PartTitle
      BY <1>5, TitleTypes
    <2>2. Decided'
      BY <1>1, <1>2, <1>5, <2>1 DEF Decided, ClassifyAndExtract, ExtractAs
    <2>3. pc' \in {"extract", "classify"} /\ outcome' = outcome
      BY <1>5 DEF ClassifyAndExtract, ExtractAs
    <2>4. QED BY <1>1, <2>2, <2>3 DEF ExtractInv
  <1>6. QED BY <1>3, <1>4, <1>5 DEF ClassifyAndExtract

\* The LLM is asked only when the title has decided nothing.
LEMMA ClassifyKeeps ==
    ASSUME ExtractInv, Classify
    PROVE  ExtractInv'
  <1>1. pc = "classify" /\ listing' = listing /\ Decided /\ outcome # "ok"
    BY DEF Classify, ExtractInv
  <1>2. ~ComputerTitle /\ ~PartTitle
    BY <1>1 DEF Decided
  <1>3. pc' \in {"extract", "done"} /\ outcome' # "ok"
    BY <1>1 DEF Classify, ExtractAs, Finish
  <1>4. Decided'
    BY <1>1, <1>2, <1>3, TitleFrame DEF Decided
  <1>5. QED BY <1>3, <1>4 DEF ExtractInv

\* From here on the type is settled, and what has no prompt is not accepted.
LEMMA SettledType ==
    ASSUME ExtractInv, pc = "extract", pc' = "done", UNCHANGED <<listing, ct>>,
           ~(outcome' = "ok" /\ ct = "other")
    PROVE  Decided'
  <1>1. Decided
    BY DEF ExtractInv
  <1>2. ~(PartTitle /\ ~ComputerTitle)
    BY <1>1 DEF Decided
  <1>3. UNCHANGED <<ComputerTitle, PartTitle, IncidentalNoun>>
    BY TitleFrame
  <1>4. QED BY <1>1, <1>2, <1>3 DEF Decided

LEMMA FailuresKeep ==
    ASSUME ExtractInv, RenderExtractPromptFails \/ ExtractUnusable \/ ExtractNull
    PROVE  ExtractInv'
  <1>1. pc = "extract" /\ pc' = "done" /\ outcome' # "ok" /\ UNCHANGED <<listing, ct>>
    BY DEF RenderExtractPromptFails, ExtractUnusable, ExtractNull, Finish
  <1>2. QED BY <1>1, SettledType DEF ExtractInv

\* The normaliser gives a server its tier.
LEMMA ServerTier ==
    ASSUME NEW title, NEW raw, NEW norm, norm = NormalizeExtraction("server", title, raw)
    PROVE  IsStr(norm, "tier") /\ norm["tier"].s \in {"barebone", "configured", "partial"}
  <1>1. DetectServerTier(title) \in {"barebone", "configured", "partial"}
    BY DEF DetectServerTier
  <1>2. PICK a : norm = Put(a, "tier", S(DetectServerTier(title)))
    BY DEF NormalizeExtraction
  <1>3. "tier" \in DOMAIN norm /\ norm["tier"] = S(DetectServerTier(title))
    BY <1>2 DEF Put
  <1>4. DOMAIN S(DetectServerTier(title)) = {"s"} /\ S(DetectServerTier(title)).s = DetectServerTier(title)
    BY DEF S
  <1>5. QED BY <1>1, <1>3, <1>4 DEF IsStr

LEMMA ExtractKeeps ==
    ASSUME ExtractInv, Extract
    PROVE  ExtractInv'
  <1>1. pc = "extract" /\ pc' = "done" /\ UNCHANGED <<listing, ct>> /\ ct # "other"
    BY DEF Extract, Finish, templates
  <1>2. Decided'
    BY <1>1, SettledType
  <1>3. ASSUME outcome' = "ok" PROVE Accepted'
    <2>1. PICK raw \in Answers(listing, ct) :
            LET norm == NormalizeExtraction(ct, listing.title, raw) IN
            ValidateExtraction(ct, norm) /\ attrs' = WithCondition(norm)
      BY <1>3 DEF Extract, Finish
    <2> DEFINE norm == NormalizeExtraction(ct, listing.title, raw)
    <2>2. ct = "server" => IsStr(norm, "tier") /\ norm["tier"].s \in {"barebone", "configured", "partial"}
      BY ServerTier
    <2> HIDE DEF norm
    <2>3. ValidateExtraction(ct, norm) /\ attrs' = WithCondition(norm)
      BY <2>1 DEF norm
    <2>4. QED BY <1>1, <2>2, <2>3 DEF Accepted
  <1>4. QED BY <1>1, <1>2, <1>3 DEF ExtractInv

LEMMA ExtractStepKeeps == ExtractInv /\ [NextExtract]_extractVars => ExtractInv'
  <1>1. ASSUME ExtractInv, NextExtract PROVE ExtractInv'
    BY <1>1, ShortCutsKeep, ClassifyKeeps, FailuresKeep, ExtractKeeps DEF NextExtract
  <1>2. ASSUME ExtractInv, UNCHANGED extractVars PROVE ExtractInv'
    <2>1. UNCHANGED <<listing, pc, ct, attrs, outcome, answered>>
      BY <1>2 DEF extractVars
    <2>2. Decided' = Decided
      BY <2>1, TitleFrame DEF Decided
    <2>3. Accepted => Accepted'
      BY <2>1 DEF Accepted
    <2>4. QED BY <1>2, <2>1, <2>2, <2>3 DEF ExtractInv
  <1>3. QED BY <1>1, <1>2

\* From its first step to its last an extraction keeps to what the title
\* decided (ClassifyAndExtract), and what it accepts has been normalised and
\* validated.
THEOREM ExtractInvariant == SpecExtract => []ExtractInv
  BY InitExtractInv, ExtractStepKeeps, PTL DEF SpecExtract

\* Whatever the LLM answers and whatever item specifics the caller passes, a
\* complete computer sold with a cable is filed as a computer, a bare part is
\* filed under "other" without an LLM call, and a component sold with an
\* accessory is never filed there: the order of the short cuts in
\* ClassifyAndExtract and the lists they go by.
THEOREM TitlesAreHeeded == SpecExtract => []TitleDecides
  <1>1. ExtractInv => TitleDecides
    BY DEF ExtractInv, Decided, TitleDecides
  <1>2. QED BY <1>1, ExtractInvariant, PTL

-----------------------------------------------------------------------------
\* What the validator's rules make of a segment of the product key.

\* The validator writes back the condition and nothing else.
LEMMA OnlyCondition ==
    ASSUME NEW norm, NEW a, a = WithCondition(norm), NEW k, k # "condition"
    PROVE  /\ IsStr(a, k) <=> IsStr(norm, k)
           /\ IsNum(a, k) <=> IsNum(norm, k)
           /\ k \in DOMAIN norm => a[k] = norm[k]
  <1>1. k \in DOMAIN a <=> k \in DOMAIN norm
    BY DEF WithCondition, Put
  <1>2. k \in DOMAIN norm => a[k] = norm[k]
    BY DEF WithCondition, Put
  <1>3. QED BY <1>1, <1>2 DEF IsStr, IsNum

\* A text that is neither empty nor "unknown" is a known segment.
LEMMA TextKnown ==
    ASSUME NEW norm, attrs = WithCondition(norm), NEW k, k # "condition",
           IsStr(norm, k), norm[k].s # "", norm[k].s # Unknown
    PROVE  KnownSegment(normalizeStr(attrs, k))
  <1>1. IsStr(attrs, k) /\ attrs[k] = norm[k]
    BY OnlyCondition DEF IsStr
  <1>2. normalizeStr(attrs, k) = attrs[k] /\ DOMAIN attrs[k] = {"s"} /\ attrs[k].s # Unknown
    BY <1>1 DEF IsStr, normalizeStr
  <1>3. S(Unknown).s = Unknown
    BY DEF S
  <1>4. attrs[k] # S(Unknown) /\ DOMAIN attrs[k] # {"n"}
    BY <1>2, <1>3
  <1>5. QED BY <1>2, <1>4 DEF KnownSegment

\* A number above zero is one too.
LEMMA NumberKnown ==
    ASSUME NEW norm, attrs = WithCondition(norm), NEW k, k # "condition",
           IsNum(norm, k), norm[k].n > 0
    PROVE  KnownSegment(pkInt(attrs, k))
  <1>1. IsNum(attrs, k) /\ attrs[k] = norm[k]
    BY OnlyCondition DEF IsNum
  <1>2. pkInt(attrs, k) = attrs[k] /\ DOMAIN attrs[k] = {"n"}
    BY <1>1 DEF IsNum, pkInt
  <1>3. QED BY <1>1, <1>2 DEF KnownSegment

Conditions == {"new", "like_new", "used_working", "for_parts", "unknown"}

LEMMA FiveConditions ==
    ASSUME NEW raw
    PROVE  NormalizeCondition(raw) \in Conditions
  BY DEF NormalizeCondition, conditionMap, Conditions

\* Whatever the LLM wrote, the condition is one of five.
LEMMA ConditionKnown ==
    ASSUME NEW norm, NEW a, a = WithCondition(norm)
    PROVE  a["condition"].s \in Conditions
  <1>1. a["condition"] = S(NormalizeCondition(norm["condition"].s))
    BY DEF WithCondition, Put
  <1>2. QED BY <1>1, FiveConditions DEF S

Text(a, k) == IsStr(a, k) /\ a[k].s # "" /\ a[k].s # Unknown
Number(a, k) == IsNum(a, k) /\ a[k].n > 0

LEMMA BetweenIsNumber ==
    ASSUME NEW a, NEW k, NEW hi \in Int, Between(a, k, 1, hi)
    PROVE  Number(a, k)
  <1>1. \A x \in 1 .. hi : x > 0
    OBVIOUS
  <1>2. QED BY <1>1, Zenon DEF Between, Number

LEMMA InRange ==
    ASSUME NEW a, NEW k, NEW lo \in Int, NEW hi \in Int, OptBetween(a, k, lo, hi), IsNum(a, k)
    PROVE  a[k].n \in lo .. hi
  BY Zenon DEF OptBetween

\* The validator and the key read the same attributes: one case per type.
LEMMA SegmentsKnown ==
    ASSUME NEW norm, ValidateExtraction(ct, norm), attrs = WithCondition(norm),
           ct = "server" => Text(norm, "tier")
    PROVE  \A i \in RequiredSegments : KnownSegment(StoredKey[i])
  <1>1. CASE ct = "ram"
    <2>1. Text(norm, "generation") /\ Number(norm, "capacity_gb")
      <3>1. Between(norm, "capacity_gb", 1, 1024)
        BY <1>1 DEF ValidateExtraction, validateRAM
      <3>2. Enum(norm, "generation", {"DDR3", "DDR4", "DDR5"})
        BY <1>1 DEF ValidateExtraction, validateRAM
      <3>3. Text(norm, "generation")
        BY <3>2 DEF Text, Enum, Unknown
      <3>4. QED BY <3>1, <3>3, BetweenIsNumber
    <2>2. KnownSegment(normalizeStr(attrs, "generation"))
      BY <2>1, TextKnown DEF Text
    <2>3. KnownSegment(pkInt(attrs, "capacity_gb"))
      BY <2>1, NumberKnown DEF Number
    <2>4. /\ RequiredSegments = {2, 4}
          /\ StoredKey[2] = normalizeStr(attrs, "generation") /\ StoredKey[4] = pkInt(attrs, "capacity_gb")
      BY <1>1 DEF RequiredSegments, StoredKey, ProductKey
    <2>5. QED BY <2>2, <2>3, <2>4
  <1>2. CASE ct = "drive"
    <2>1. Text(norm, "interface")
      BY <1>2 DEF ValidateExtraction, validateDrive, Text, Enum, Unknown
    <2>2. KnownSegment(normalizeStr(attrs, "interface"))
      BY <2>1, TextKnown DEF Text
    <2>3. RequiredSegments = {2} /\ StoredKey[2] = normalizeStr(attrs, "interface")
      BY <1>2 DEF RequiredSegments, StoredKey, ProductKey
    <2>4. QED BY <2>2, <2>3
  <1>3. CASE ct = "server"
    <2>1. KnownSegment(normalizeStr(attrs, "tier"))
      BY <1>3, TextKnown DEF Text
    <2>2. RequiredSegments = {5} /\ StoredKey[5] = normalizeStr(attrs, "tier")
      BY <1>3 DEF RequiredSegments, StoredKey, ProductKey
    <2>3. QED BY <2>1, <2>2
  <1>4. CASE ct = "cpu"
    <2>1. Text(norm, "manufacturer") /\ Text(norm, "family")
      BY <1>4 DEF ValidateExtraction, validateCPU, validateCPURequired, Text, Enum, Unknown
    <2>2. KnownSegment(normalizeStr(attrs, "manufacturer"))
      BY <2>1, TextKnown DEF Text
    <2>3. KnownSegment(normalizeStr(attrs, "family"))
      BY <2>1, TextKnown DEF Text
    <2>4. /\ RequiredSegments = {2, 3}
          /\ StoredKey[2] = normalizeStr(attrs, "manufacturer") /\ StoredKey[3] = normalizeStr(attrs, "family")
      BY <1>4 DEF RequiredSegments, StoredKey, ProductKey
    <2>5. QED BY <2>2, <2>3, <2>4
  <1>5. CASE ct = "nic"
    <2>1. /\ Text(norm, "speed")
          /\ Number(norm, "port_count")
      <3>1. Between(norm, "port_count", 1, 8)
        BY <1>5 DEF ValidateExtraction, validateNIC
      <3>2. Text(norm, "speed")
        BY <1>5 DEF ValidateExtraction, validateNIC, Text, Enum, Unknown
      <3>3. QED BY <3>1, <3>2, BetweenIsNumber
    <2>2. KnownSegment(normalizeStr(attrs, "speed"))
      BY <2>1, TextKnown DEF Text
    <2>3. KnownSegment(pkInt(attrs, "port_count"))
      BY <2>1, NumberKnown DEF Number
    <2>4. /\ RequiredSegments = {2, 3}
          /\ StoredKey[2] = normalizeStr(attrs, "speed") /\ StoredKey[3] = pkInt(attrs, "port_count")
      BY <1>5 DEF RequiredSegments, StoredKey, ProductKey
    <2>5. QED BY <2>2, <2>3, <2>4
  <1>6. CASE ct = "gpu"
    <2>1. /\ Text(norm, "manufacturer")
          /\ Number(norm, "vram_gb")
      <3>1. Between(norm, "vram_gb", 1, 256)
        BY <1>6 DEF ValidateExtraction, validateGPU, validateGPURequired
      <3>2. Text(norm, "manufacturer")
        BY <1>6 DEF ValidateExtraction, validateGPU, validateGPURequired, Text, Enum, Unknown
      <3>3. QED BY <3>1, <3>2, BetweenIsNumber
    <2>2. KnownSegment(normalizeStr(attrs, "manufacturer"))
      BY <2>1, TextKnown DEF Text
    <2>3. KnownSegment(pkInt(attrs, "vram_gb"))
      BY <2>1, NumberKnown DEF Number
    <2>4. /\ RequiredSegments = {2, 5}
          /\ StoredKey[2] = normalizeStr(attrs, "manufacturer") /\ StoredKey[5] = pkInt(attrs, "vram_gb")
      BY <1>6 DEF RequiredSegments, StoredKey, ProductKey
    <2>5. QED BY <2>2, <2>3, <2>4
  <1>7. CASE ct \notin {"ram", "drive", "server", "cpu", "nic", "gpu"}
    BY <1>7 DEF RequiredSegments
  <1>8. QED BY <1>1, <1>2, <1>3, <1>4, <1>5, <1>6, <1>7

\* Whatever attributes the LLM returned, what an extraction accepts can be
\* priced: the required segments of its product key (productkey.go) are known,
\* its condition is one the scorer knows and a RAM speed is in range. The
\* normaliser, the validator and the key builder agree for every attribute map.
THEOREM AcceptedIsPriced == SpecExtract => []AcceptedCanBePriced
  <1>1. ASSUME ExtractInv, outcome = "ok", ct # "other"
        PROVE  /\ \A i \in RequiredSegments : KnownSegment(StoredKey[i])
               /\ attrs["condition"].s \in Conditions
               /\ (ct = "ram" /\ IsNum(attrs, "speed_mhz")) => speedInValidRange(attrs["speed_mhz"].n)
    <2>1. Accepted
      BY <1>1 DEF ExtractInv
    <2>2. PICK norm :
            /\ ValidateExtraction(ct, norm)
            /\ ct = "server" => IsStr(norm, "tier") /\ norm["tier"].s \in {"barebone", "configured", "partial"}
            /\ attrs = WithCondition(norm)
      BY <2>1 DEF Accepted
    <2>3. \A i \in RequiredSegments : KnownSegment(StoredKey[i])
      <3>1. ct = "server" => Text(norm, "tier")
        BY <2>2 DEF Text, Unknown
      <3>2. QED BY <2>2, <3>1, SegmentsKnown
    <2>4. attrs["condition"].s \in Conditions
      BY <2>2, ConditionKnown
    <2>5. ASSUME ct = "ram", IsNum(attrs, "speed_mhz") PROVE speedInValidRange(attrs["speed_mhz"].n)
      <3>1. OptBetween(norm, "speed_mhz", 800, 8400)
        BY <2>2, <2>5 DEF ValidateExtraction, validateRAM
      <3>2. PICK lo \in Int, hi \in Int :
              /\ OptBetween(norm, "speed_mhz", lo, hi)
              /\ \A x \in lo .. hi : speedInValidRange(x)
        BY <3>1 DEF speedInValidRange
      <3>3. IsNum(norm, "speed_mhz") /\ attrs["speed_mhz"] = norm["speed_mhz"]
        BY <2>2, <2>5, OnlyCondition DEF IsNum
      <3>4. norm["speed_mhz"].n \in lo .. hi
        BY <3>2, <3>3, InRange
      <3>5. QED BY <3>2, <3>3, <3>4, Zenon
    <2>6. QED BY <2>3, <2>4, <2>5
  <1>2. ExtractInv => AcceptedCanBePriced
    BY <1>1 DEF AcceptedCanBePriced, Conditions
  <1>3. QED BY <1>2, ExtractInvariant, PTL

-----------------------------------------------------------------------------
(* The price factor. MonotoneInPrice holds because the percentiles of every  *)
(* baseline are in order, whatever prices they were computed from, and each  *)
(* piece of priceScore ends at a score that the next one does not exceed.    *)

\* A non-empty set of natural numbers has a least element.
LEMMA LeastNat ==
    ASSUME NEW T, T \subseteq Nat, T # {}
    PROVE  \E x \in T : \A y \in T : x <= y
  <1> DEFINE R == OpToRel(<, Nat)
  <1>1. \E x \in T : \A y \in T : ~(<<y, x>> \in R)
    BY NatLessThanWellFounded, WFMin
  <1>2. \A x, y \in Nat : y < x => <<y, x>> \in R
    BY DEF OpToRel
  <1> HIDE DEF R
  <1>3. PICK x \in T : \A y \in T : ~(<<y, x>> \in R)
    BY <1>1
  <1>4. \A y \in T : ~(y < x)
    BY <1>2, <1>3
  <1>5. \A y \in T : x <= y
    BY <1>4
  <1>6. QED BY <1>5

LEMMA MinNat ==
    ASSUME NEW T, T \subseteq Nat, T # {}
    PROVE  Min(T) \in T /\ \A y \in T : Min(T) <= y
  BY LeastNat DEF Min

-----------------------------------------------------------------------------
(* The price factor.                                                       *)

IsFraction(s) == s.n \in Int /\ s.d \in Int /\ s.d > 0
AtLeast(s, c) == s.n >= c * s.d
AtMost(s, c) == s.n <= c * s.d
NotBelow(s, t) == s.n * t.d >= t.n * s.d

LEMMA ThroughBound ==
    ASSUME NEW s, NEW t, NEW c \in Int, IsFraction(s), IsFraction(t), AtLeast(s, c), AtMost(t, c)
    PROVE  NotBelow(s, t)
  <1>1. ASSUME NEW sn \in Int, NEW sd \in Int, NEW tn \in Int, NEW td \in Int, sd > 0, td > 0,
               sn >= c * sd, tn <= c * td
        PROVE  sn * td >= tn * sd
    <2>1. (sn - c * sd) * td >= 0 /\ (c * td - tn) * sd >= 0
      BY <1>1
    <2>2. (sn - c * sd) * td = sn * td - c * sd * td /\ (c * td - tn) * sd = c * sd * td - tn * sd
      BY <1>1
    <2>3. QED BY <2>1, <2>2
  <1>2. QED BY <1>1 DEF IsFraction, AtLeast, AtMost, NotBelow

\* One piece stays between its ends and falls.
LEMMA Piece ==
    ASSUME NEW p \in Int, NEW lo \in Int, NEW hi \in Int, NEW from \in Int, NEW to \in Int,
           lo <= p, p <= hi, to <= from
    PROVE  LET s == lerp(p, lo, hi, from, to) IN
           /\ IsFraction(s) /\ AtMost(s, from)
           /\ lo < hi => AtLeast(s, to)
           /\ p + 1 <= hi => NotBelow(s, lerp(p + 1, lo, hi, from, to))
  <1> DEFINE d == hi - lo  m == from * d + (p - lo) * (to - from)  m1 == from * d + (p + 1 - lo) * (to - from)
  <1>1. CASE hi = lo
    BY <1>1 DEF lerp, IsFraction, AtMost
  <1>2. CASE lo < hi
    <2>1. /\ lerp(p, lo, hi, from, to) = [n |-> m, d |-> d]
          /\ lerp(p + 1, lo, hi, from, to) = [n |-> m1, d |-> d]
      BY <1>2 DEF lerp
    <2>2. d \in Int /\ d > 0 /\ m \in Int /\ m1 \in Int
      BY <1>2
    <2>3. m <= from * d
      <3>1. (p - lo) * (from - to) >= 0
        OBVIOUS
      <3>2. (p - lo) * (to - from) = 0 - (p - lo) * (from - to)
        OBVIOUS
      <3>3. QED BY <3>1, <3>2
    <2>4. m >= to * d
      <3>1. (hi - p) * (from - to) >= 0
        OBVIOUS
      <3>2. m - to * d = (hi - p) * (from - to)
        OBVIOUS
      <3>3. QED BY <2>2, <3>1, <3>2
    <2>5. m1 = m - (from - to)
      OBVIOUS
    <2>6. m * d >= m1 * d
      <3>1. (m - m1) * d >= 0
        BY <2>2, <2>5
      <3>2. (m - m1) * d = m * d - m1 * d
        BY <2>2
      <3>3. QED BY <2>2, <3>1, <3>2
    <2> HIDE DEF d, m, m1
    <2>7. QED BY <2>1, <2>2, <2>3, <2>4, <2>6 DEF IsFraction, AtMost, AtLeast, NotBelow
  <1>3. QED BY <1>1, <1>2

Ordered(b) ==
    /\ {b.p10, b.p25, b.p50, b.p75, b.p90} \subseteq Int
    /\ b.p10 <= b.p25 /\ b.p25 <= b.p50 /\ b.p50 <= b.p75 /\ b.p75 <= b.p90

LEMMA LooserBound ==
    ASSUME NEW s, IsFraction(s), NEW c \in Int, NEW e \in Int, c <= e, AtMost(s, c)
    PROVE  AtMost(s, e)
  <1>1. ASSUME NEW m \in Int, NEW d \in Int, d > 0, m <= c * d PROVE m <= e * d
    <2>1. (e - c) * d >= 0 /\ (e - c) * d = e * d - c * d
      BY <1>1
    <2>2. QED BY <1>1, <2>1
  <1>2. QED BY <1>1 DEF IsFraction, AtMost

\* Past a percentile the score is at most what it is there.
LEMMA PastPercentile ==
    ASSUME NEW b, Ordered(b), NEW p \in Int
    PROVE  LET s == priceScore(p, b) IN
           /\ IsFraction(s) /\ AtMost(s, 100)
           /\ p > b.p25 => AtMost(s, 70)
           /\ p > b.p50 => AtMost(s, 30)
           /\ p > b.p75 => AtMost(s, 10)
           /\ p > b.p90 => AtMost(s, 0)
  <1> DEFINE s == priceScore(p, b)
  <1>0. /\ b.p10 \in Int /\ b.p25 \in Int /\ b.p50 \in Int /\ b.p75 \in Int /\ b.p90 \in Int
        /\ b.p10 <= b.p25 /\ b.p25 <= b.p50 /\ b.p50 <= b.p75 /\ b.p75 <= b.p90
    BY DEF Ordered
  <1>1. CASE p <= b.p10
    <2>1. s = [n |-> 100, d |-> 1]
      BY <1>1 DEF priceScore
    <2>2. QED BY <1>0, <1>1, <2>1 DEF IsFraction, AtMost
  <1>2. CASE ~(p <= b.p10) /\ p <= b.p25
    <2>1. s = lerp(p, b.p10, b.p25, 100, 70)
      BY <1>2 DEF priceScore
    <2>2. IsFraction(s) /\ AtMost(s, 100)
      <3>1. PICK lo \in Int, hi \in Int, from \in Int, to \in Int :
              lo <= p /\ p <= hi /\ to <= from /\ from = 100 /\ s = lerp(p, lo, hi, from, to)
        BY <1>0, <1>2, <2>1
      <3>2. IsFraction(s) /\ AtMost(s, from)
        BY <3>1, Piece
      <3>3. QED BY <3>1, <3>2
    <2>3. QED BY <1>0, <1>2, <2>2
  <1>3. CASE ~(p <= b.p25) /\ p <= b.p50
    <2>1. s = lerp(p, b.p25, b.p50, 70, 30)
      BY <1>0, <1>3 DEF priceScore
    <2>2. IsFraction(s) /\ AtMost(s, 70)
      <3>1. PICK lo \in Int, hi \in Int, from \in Int, to \in Int :
              lo <= p /\ p <= hi /\ to <= from /\ from = 70 /\ s = lerp(p, lo, hi, from, to)
        BY <1>0, <1>3, <2>1
      <3>2. IsFraction(s) /\ AtMost(s, from)
        BY <3>1, Piece
      <3>3. QED BY <3>1, <3>2
    <2>3. AtMost(s, 100)
      BY <2>2, LooserBound
    <2>4. QED BY <1>0, <1>3, <2>2, <2>3
  <1>4. CASE ~(p <= b.p50) /\ p <= b.p75
    <2>1. s = lerp(p, b.p50, b.p75, 30, 10)
      BY <1>0, <1>4 DEF priceScore
    <2>2. IsFraction(s) /\ AtMost(s, 30)
      <3>1. PICK lo \in Int, hi \in Int, from \in Int, to \in Int :
              lo <= p /\ p <= hi /\ to <= from /\ from = 30 /\ s = lerp(p, lo, hi, from, to)
        BY <1>0, <1>4, <2>1
      <3>2. IsFraction(s) /\ AtMost(s, from)
        BY <3>1, Piece
      <3>3. QED BY <3>1, <3>2
    <2>3. AtMost(s, 100) /\ AtMost(s, 70)
      BY <2>2, LooserBound
    <2>4. QED BY <1>0, <1>4, <2>2, <2>3
  <1>5. CASE ~(p <= b.p75) /\ p <= b.p90
    <2>1. s = lerp(p, b.p75, b.p90, 10, 0)
      BY <1>0, <1>5 DEF priceScore
    <2>2. IsFraction(s) /\ AtMost(s, 10)
      <3>1. PICK lo \in Int, hi \in Int, from \in Int, to \in Int :
              lo <= p /\ p <= hi /\ to <= from /\ from = 10 /\ s = lerp(p, lo, hi, from, to)
        BY <1>0, <1>5, <2>1
      <3>2. IsFraction(s) /\ AtMost(s, from)
        BY <3>1, Piece
      <3>3. QED BY <3>1, <3>2
    <2>3. AtMost(s, 100) /\ AtMost(s, 70) /\ AtMost(s, 30)
      BY <2>2, LooserBound
    <2>4. QED BY <1>0, <1>5, <2>2, <2>3
  <1>6. CASE ~(p <= b.p90)
    <2>1. s = [n |-> 0, d |-> 1]
      BY <1>0, <1>6 DEF priceScore
    <2>2. QED BY <2>1 DEF IsFraction, AtMost
  <1>7. QED BY <1>0, <1>1, <1>2, <1>3, <1>4, <1>5, <1>6

\* A piece that ends at hi meets what comes after it.
LEMMA Meets ==
    ASSUME NEW p \in Int, NEW lo \in Int, NEW hi \in Int, NEW from \in Int, NEW to \in Int,
           lo < p, p <= hi, to <= from,
           NEW t, p + 1 <= hi => t = lerp(p + 1, lo, hi, from, to),
           p + 1 > hi => IsFraction(t) /\ AtMost(t, to)
    PROVE  NotBelow(lerp(p, lo, hi, from, to), t)
  <1>1. CASE p + 1 <= hi
    BY <1>1, Piece
  <1>2. CASE p + 1 > hi
    <2>1. IsFraction(lerp(p, lo, hi, from, to)) /\ AtLeast(lerp(p, lo, hi, from, to), to)
      BY Piece
    <2>2. QED BY <1>2, <2>1, ThroughBound
  <1>3. QED BY <1>1, <1>2

\* Whatever the percentiles are, a higher price scores no better.
LEMMA ScoreFalls ==
    ASSUME NEW b, Ordered(b), NEW p \in Int
    PROVE  NotBelow(priceScore(p, b), priceScore(p + 1, b))
  <1> DEFINE s == priceScore(p, b)  t == priceScore(p + 1, b)
  <1>0. /\ b.p10 \in Int /\ b.p25 \in Int /\ b.p50 \in Int /\ b.p75 \in Int /\ b.p90 \in Int
        /\ b.p10 <= b.p25 /\ b.p25 <= b.p50 /\ b.p50 <= b.p75 /\ b.p75 <= b.p90
    BY DEF Ordered
  <1>1. /\ IsFraction(t) /\ AtMost(t, 100)
        /\ p + 1 > b.p25 => AtMost(t, 70)
        /\ p + 1 > b.p50 => AtMost(t, 30)
        /\ p + 1 > b.p75 => AtMost(t, 10)
        /\ p + 1 > b.p90 => AtMost(t, 0)
    BY PastPercentile
  <1>2. CASE p <= b.p10
    <2>1. IsFraction(s) /\ AtLeast(s, 100)
      BY <1>2 DEF priceScore, IsFraction, AtLeast
    <2>2. QED BY <1>1, <2>1, ThroughBound
  <1>3. CASE ~(p <= b.p10) /\ p <= b.p25
    <2>1. /\ s = lerp(p, b.p10, b.p25, 100, 70)
          /\ p + 1 <= b.p25 => t = lerp(p + 1, b.p10, b.p25, 100, 70)
      BY <1>0, <1>3 DEF priceScore
    <2>2. PICK lo \in Int, hi \in Int, from \in Int, to \in Int :
            /\ lo < p /\ p <= hi /\ to <= from /\ s = lerp(p, lo, hi, from, to)
            /\ p + 1 <= hi => t = lerp(p + 1, lo, hi, from, to)
            /\ p + 1 > hi => IsFraction(t) /\ AtMost(t, to)
      BY <1>0, <1>1, <1>3, <2>1
    <2>3. QED BY <2>2, Meets
  <1>4. CASE ~(p <= b.p25) /\ p <= b.p50
    <2>1. /\ s = lerp(p, b.p25, b.p50, 70, 30)
          /\ p + 1 <= b.p50 => t = lerp(p + 1, b.p25, b.p50, 70, 30)
      BY <1>0, <1>4 DEF priceScore
    <2>2. PICK lo \in Int, hi \in Int, from \in Int, to \in Int :
            /\ lo < p /\ p <= hi /\ to <= from /\ s = lerp(p, lo, hi, from, to)
            /\ p + 1 <= hi => t = lerp(p + 1, lo, hi, from, to)
            /\ p + 1 > hi => IsFraction(t) /\ AtMost(t, to)
      BY <1>0, <1>1, <1>4, <2>1
    <2>3. QED BY <2>2, Meets
  <1>5. CASE ~(p <= b.p50) /\ p <= b.p75
    <2>1. /\ s = lerp(p, b.p50, b.p75, 30, 10)
          /\ p + 1 <= b.p75 => t = lerp(p + 1, b.p50, b.p75, 30, 10)
      BY <1>0, <1>5 DEF priceScore
    <2>2. PICK lo \in Int, hi \in Int, from \in Int, to \in Int :
            /\ lo < p /\ p <= hi /\ to <= from /\ s = lerp(p, lo, hi, from, to)
            /\ p + 1 <= hi => t = lerp(p + 1, lo, hi, from, to)
            /\ p + 1 > hi => IsFraction(t) /\ AtMost(t, to)
      BY <1>0, <1>1, <1>5, <2>1
    <2>3. QED BY <2>2, Meets
  <1>6. CASE ~(p <= b.p75) /\ p <= b.p90
    <2>1. /\ s = lerp(p, b.p75, b.p90, 10, 0)
          /\ p + 1 <= b.p90 => t = lerp(p + 1, b.p75, b.p90, 10, 0)
      BY <1>0, <1>6 DEF priceScore
    <2>2. PICK lo \in Int, hi \in Int, from \in Int, to \in Int :
            /\ lo < p /\ p <= hi /\ to <= from /\ s = lerp(p, lo, hi, from, to)
            /\ p + 1 <= hi => t = lerp(p + 1, lo, hi, from, to)
            /\ p + 1 > hi => IsFraction(t) /\ AtMost(t, to)
      BY <1>0, <1>1, <1>6, <2>1
    <2>3. QED BY <2>2, Meets
  <1>7. CASE ~(p <= b.p90)
    <2>1. s = [n |-> 0, d |-> 1] /\ t = [n |-> 0, d |-> 1]
      BY <1>0, <1>7 DEF priceScore
    <2>2. QED BY <2>1 DEF NotBelow
  <1>8. QED BY <1>0, <1>2, <1>3, <1>4, <1>5, <1>6, <1>7

-----------------------------------------------------------------------------
(* The percentiles.                                                        *)

NotAbove(price, x) == {i \in DOMAIN price : price[i] <= x}

LEMMA NotAboveCount ==
    ASSUME NEW price, IsFiniteSet(DOMAIN price), NEW x
    PROVE  /\ Cardinality(NotAbove(price, x)) \in Nat /\ Cardinality(DOMAIN price) \in Nat
           /\ Cardinality(NotAbove(price, x)) <= Cardinality(DOMAIN price)
           /\ IsFiniteSet(NotAbove(price, x))
  <1>1. NotAbove(price, x) \subseteq DOMAIN price
    BY DEF NotAbove
  <1>2. QED BY <1>1, FS_Subset, FS_CardinalityType

\* The highest price is not above itself.
LEMMA HighestPrice ==
    ASSUME NEW price, IsFiniteSet(DOMAIN price), DOMAIN price # {}, \A i \in DOMAIN price : price[i] \in Nat
    PROVE  \E m \in Range(price) : NotAbove(price, m) = DOMAIN price
  <1> DEFINE n == Cardinality(DOMAIN price)
             left(x) == n - Cardinality(NotAbove(price, x))
             C == {left(x) : x \in Range(price)}
  <1>1. C \subseteq Nat
    BY NotAboveCount
  <1>2. C # {}
    BY DEF Range
  <1>3. PICK c \in C : \A e \in C : c <= e
    <2> HIDE DEF C
    <2>1. QED BY <1>1, <1>2, LeastNat
  <1>4. PICK m \in Range(price) : c = left(m)
    BY <1>3
  <1>5. ASSUME NEW i \in DOMAIN price, ~(price[i] <= m) PROVE FALSE
    <2> DEFINE x == price[i]
    <2>1. m \in Nat /\ x \in Nat /\ x \in Range(price) /\ \A k \in DOMAIN price : price[k] \in Nat
      BY <1>4 DEF Range
    <2>2. NotAbove(price, m) \subseteq NotAbove(price, x)
      BY <1>5, <2>1 DEF NotAbove
    <2>3. i \in NotAbove(price, x) /\ i \notin NotAbove(price, m)
      BY <1>5, <2>1 DEF NotAbove
    <2>4. Cardinality(NotAbove(price, m)) < Cardinality(NotAbove(price, x))
      BY <2>2, <2>3, NotAboveCount, FS_Subset
    <2>5. left(m) <= left(x)
      BY <1>3, <1>4, <2>1
    <2>6. /\ Cardinality(NotAbove(price, m)) \in Nat /\ Cardinality(NotAbove(price, x)) \in Nat /\ n \in Nat
      BY NotAboveCount
    <2>7. QED BY <2>4, <2>5, <2>6
  <1>6. NotAbove(price, m) = DOMAIN price
    BY <1>5 DEF NotAbove
  <1>7. QED BY <1>6

\* ORDER BY: as many prices as there are samples, ascending.
LEMMA AscendingSorted ==
    ASSUME NEW price, IsFiniteSet(DOMAIN price), \A i \in DOMAIN price : price[i] \in Nat
    PROVE  LET s == Ascending(price) IN
           /\ s \in Seq(Nat) /\ Len(s) = Cardinality(DOMAIN price)
           /\ \A j, k \in 1..Len(s) : j <= k => s[j] <= s[k]
  <1> DEFINE n == Cardinality(DOMAIN price)
             T(k) == {x \in Range(price) : Cardinality(NotAbove(price, x)) >= k}
             s == Ascending(price)
  <1>1. n \in Nat
    BY FS_CardinalityType
  <1>2. \A k \in 1..n : T(k) \subseteq Nat
    BY DEF Range
  <1>3. ASSUME NEW k \in 1..n PROVE T(k) # {}
    <2>1. DOMAIN price # {}
      BY <1>1, FS_EmptySet
    <2>2. PICK m \in Range(price) : NotAbove(price, m) = DOMAIN price
      BY <2>1, HighestPrice
    <2>3. m \in T(k)
      BY <1>1, <2>2
    <2>4. QED BY <2>3
  <1>4. s = [k \in 1..n |-> Min(T(k))]
    BY DEF Ascending, NotAbove
  <1>5. ASSUME NEW k \in 1..n PROVE Min(T(k)) \in T(k) /\ \A y \in T(k) : Min(T(k)) <= y
    <2>1. T(k) \subseteq Nat /\ T(k) # {}
      BY <1>2, <1>3
    <2> HIDE DEF T
    <2>2. QED BY <2>1, MinNat
  <1>6. \A k \in 1..n : Min(T(k)) \in Nat
    <2> HIDE DEF T
    <2>1. QED BY <1>2, <1>5
  <1>7. s \in Seq(Nat) /\ Len(s) = n
    <2> HIDE DEF T, n
    <2>1. s \in [1..n -> Nat]
      BY <1>4, <1>6
    <2>2. QED BY <1>1, <2>1
  <1>8. ASSUME NEW j \in 1..n, NEW k \in 1..n, j <= k PROVE s[j] <= s[k]
    <2>1. T(k) \subseteq T(j)
      BY <1>1, <1>8, NotAboveCount
    <2>2. Min(T(j)) <= Min(T(k))
      <3> HIDE DEF T
      <3>1. QED BY <1>5, <2>1
    <2>3. QED BY <1>4, <2>2
  <1>9. QED BY <1>7, <1>8

\* Interpolation stays between the two prices, and grows with the rest.
LEMMA Interpolated ==
    ASSUME NEW gap \in Nat, NEW r \in 0..99
    PROVE  /\ (r * gap) \div 100 \in Nat /\ (r * gap) \div 100 <= gap
           /\ \A q \in r..99 : (r * gap) \div 100 <= (q * gap) \div 100
  <1>1. \A x \in 0..99 : x * gap \in Nat
    OBVIOUS
  <1>2. r * gap <= 100 * gap
    <2>1. (100 - r) * gap \in Nat /\ (100 - r) * gap = 100 * gap - r * gap
      OBVIOUS
    <2>2. QED BY <1>1, <2>1
  <1>3. \A a \in Nat : a <= 100 * gap => a \div 100 \in Nat /\ a \div 100 <= gap
    OBVIOUS
  <1>4. \A a, b \in Nat : a <= b => a \div 100 <= b \div 100
    OBVIOUS
  <1>5. ASSUME NEW q \in r..99 PROVE r * gap <= q * gap
    <2>1. (q - r) * gap \in Nat /\ (q - r) * gap = q * gap - r * gap
      OBVIOUS
    <2>2. QED BY <1>1, <2>1
  <1>6. QED BY <1>1, <1>2, <1>3, <1>4, <1>5

\* The value between the (i + 1)-th price and the next.
Between100(s, i, r) ==
    LET next == IF i + 2 <= Len(s) THEN s[i + 2] ELSE s[i + 1]
    IN  s[i + 1] + (r * (next - s[i + 1])) \div 100

NeverFalls(s) == s \in Seq(Nat) /\ \A j, k \in 1..Len(s) : j <= k => s[j] <= s[k]

LEMMA InBetween ==
    ASSUME NEW s, NeverFalls(s), NEW i \in 0..(Len(s) - 1), NEW r \in 0..99
    PROVE  /\ Between100(s, i, r) \in Nat /\ s[i + 1] <= Between100(s, i, r)
           /\ i + 2 <= Len(s) => Between100(s, i, r) <= s[i + 2]
           /\ \A q \in r..99 : Between100(s, i, r) <= Between100(s, i, q)
  <1> DEFINE next == IF i + 2 <= Len(s) THEN s[i + 2] ELSE s[i + 1]
             gap == next - s[i + 1]
  <1>1. Len(s) \in Nat /\ s[i + 1] \in Nat /\ next \in Nat /\ s[i + 1] <= next
    BY DEF NeverFalls
  <1>2. gap \in Nat
    BY <1>1
  <1>3. \A q : Between100(s, i, q) = s[i + 1] + (q * gap) \div 100
    BY DEF Between100
  <1>4. s[i + 1] + gap = next
    BY <1>1
  <1>5. i + 2 <= Len(s) => next = s[i + 2]
    OBVIOUS
  <1> HIDE DEF gap, next
  <1>6. /\ (r * gap) \div 100 \in Nat /\ (r * gap) \div 100 <= gap
        /\ \A q \in r..99 : (r * gap) \div 100 <= (q * gap) \div 100
    BY <1>2, Interpolated
  <1>7. \A q \in r..99 : (q * gap) \div 100 \in Nat
    BY <1>2, Interpolated
  <1>8. Between100(s, i, r) \in Nat /\ s[i + 1] <= Between100(s, i, r) /\ Between100(s, i, r) <= next
    BY <1>1, <1>2, <1>3, <1>4, <1>6
  <1>9. \A q \in r..99 : Between100(s, i, r) <= Between100(s, i, q)
    BY <1>1, <1>3, <1>6, <1>7
  <1>10. QED BY <1>5, <1>8, <1>9

\* A higher percentile is not below a lower one.
LEMMA PercentilesRise ==
    ASSUME NEW s, NeverFalls(s), Len(s) > 0, NEW f \in 0..100, NEW g \in f..100
    PROVE  /\ percentile_cont(f, s) \in Nat /\ percentile_cont(g, s) \in Nat
           /\ percentile_cont(f, s) <= percentile_cont(g, s)
  <1> DEFINE last == Len(s) - 1  a == f * last  b == g * last
             i == a \div 100  k == b \div 100  r == a % 100  q == b % 100
  <1>1. Len(s) \in Nat /\ last \in Nat
    BY DEF NeverFalls
  <1>2. a \in Nat /\ b \in Nat /\ a <= b /\ b <= 100 * last
    <2>1. a \in Nat /\ b \in Nat
      BY <1>1
    <2>2. (g - f) * last \in Nat /\ (g - f) * last = b - a
      BY <1>1
    <2>3. (100 - g) * last \in Nat /\ (100 - g) * last = 100 * last - b
      BY <1>1
    <2>4. QED BY <1>1, <2>1, <2>2, <2>3
  <1>3. /\ percentile_cont(f, s) = Between100(s, i, r)
        /\ percentile_cont(g, s) = Between100(s, k, q)
    BY DEF percentile_cont, Between100
  <1> HIDE DEF a, b, last
  <1>4. /\ i \in 0..last /\ k \in 0..last /\ i <= k
        /\ r \in 0..99 /\ q \in 0..99
        /\ i = k => r <= q
    BY <1>1, <1>2
  <1> HIDE DEF i, k, r, q
  <1>5. i \in 0..(Len(s) - 1) /\ k \in 0..(Len(s) - 1)
    BY <1>4 DEF last
  <1>6. Between100(s, i, r) \in Nat /\ Between100(s, k, q) \in Nat
    BY <1>4, <1>5, InBetween
  <1>7. CASE i = k
    <2>1. q \in r..99
      BY <1>4, <1>7
    <2>2. QED BY <1>3, <1>4, <1>5, <1>6, <1>7, <2>1, InBetween
  <1>8. CASE i < k
    <2>1. i + 2 \in 1..Len(s) /\ k + 1 \in 1..Len(s) /\ i + 2 <= k + 1
      BY <1>1, <1>5, <1>8
    <2>2. Between100(s, i, r) <= s[i + 2] /\ s[k + 1] <= Between100(s, k, q)
      <3>1. i + 2 <= Len(s)
        BY <1>1, <2>1
      <3>2. Between100(s, i, r) <= s[i + 2]
        BY <1>4, <1>5, <3>1, InBetween
      <3>3. s[k + 1] <= Between100(s, k, q)
        BY <1>4, <1>5, InBetween
      <3>4. QED BY <3>2, <3>3
    <2>3. s[i + 2] <= s[k + 1] /\ s[i + 2] \in Nat /\ s[k + 1] \in Nat
      BY <2>1 DEF NeverFalls
    <2>4. QED BY <1>3, <1>6, <2>2, <2>3
  <1>9. i = k \/ i < k
    BY <1>4, <1>5
  <1>10. QED BY <1>7, <1>8, <1>9

\* The five percentiles of a baseline are in order.
LEMMA BaselineOrdered ==
    ASSUME NEW price, IsFiniteSet(DOMAIN price), \A i \in DOMAIN price : price[i] \in Nat,
           NEW old, NEW min \in Nat \ {0},
           old # NoBaseline => Ordered(old),
           NEW b, b = recompute_baseline(price, old, min), b # NoBaseline
    PROVE  Ordered(b)
  <1> DEFINE s == Ascending(price)
  <1>1. NeverFalls(s) /\ Len(s) \in Nat
    BY AscendingSorted DEF NeverFalls
  <1> HIDE DEF s
  <1>2. CASE Len(s) < min
    BY <1>2 DEF recompute_baseline, s
  <1>3. CASE ~(Len(s) < min)
    <2>1. b = [samples |-> Len(s), p10 |-> percentile_cont(10, s), p25 |-> percentile_cont(25, s),
               p50 |-> percentile_cont(50, s), p75 |-> percentile_cont(75, s), p90 |-> percentile_cont(90, s)]
      BY <1>3 DEF recompute_baseline, s
    <2>2. ASSUME NEW f \in 0..100, NEW g \in f..100
          PROVE  /\ percentile_cont(f, s) \in Nat /\ percentile_cont(g, s) \in Nat
                 /\ percentile_cont(f, s) <= percentile_cont(g, s)
      <3>1. NeverFalls(s) /\ Len(s) > 0
        BY <1>1, <1>3
      <3>2. QED BY <3>1, PercentilesRise
    <2>3. \A f \in 0..100 : percentile_cont(f, s) \in Nat
      BY <2>2
    <2>4. \A f, g \in 0..100 : f <= g => percentile_cont(f, s) <= percentile_cont(g, s)
      BY <2>2
    <2>5. PICK f1, f2, f3, f4, f5 \in 0..100 : f1 = 10 /\ f2 = 25 /\ f3 = 50 /\ f4 = 75 /\ f5 = 90
      OBVIOUS
    <2>6. /\ b.p10 = percentile_cont(f1, s) /\ b.p25 = percentile_cont(f2, s)
          /\ b.p50 = percentile_cont(f3, s) /\ b.p75 = percentile_cont(f4, s)
          /\ b.p90 = percentile_cont(f5, s)
      BY <2>1, <2>5
    <2>7. f1 <= f2 /\ f2 <= f3 /\ f3 <= f4 /\ f4 <= f5
      BY <2>5
    <2>8. /\ percentile_cont(f1, s) <= percentile_cont(f2, s)
          /\ percentile_cont(f2, s) <= percentile_cont(f3, s)
          /\ percentile_cont(f3, s) <= percentile_cont(f4, s)
          /\ percentile_cont(f4, s) <= percentile_cont(f5, s)
      BY <2>4, <2>7
    <2>9. {b.p10, b.p25, b.p50, b.p75, b.p90} \subseteq Int
      BY <2>3, <2>6
    <2>10. QED BY <2>6, <2>8, <2>9 DEF Ordered
  <1>4. QED BY <1>2, <1>3

-----------------------------------------------------------------------------
(* Rows keep an offer of eBay, and the baseline its order.                 *)

RowsOK ==
    /\ DOMAIN rows \subseteq Ids
    /\ \A i \in DOMAIN rows : "offer" \in DOMAIN rows[i] /\ rows[i].offer \in Offers

DealInv == RowsOK /\ (price_baselines # NoBaseline => Ordered(price_baselines))

LEMMA InitDealInv == InitDeals => DealInv
  BY DEF InitDeals, DealInv, RowsOK

\* A step that stores no offer.
LEMMA OffersKept ==
    ASSUME DealInv, price_baselines' = price_baselines, DOMAIN rows' = DOMAIN rows,
           \A i \in DOMAIN rows : DOMAIN rows'[i] = DOMAIN rows[i] /\ rows'[i].offer = rows[i].offer
    PROVE  DealInv'
  BY DEF DealInv, RowsOK

LEMMA SetField ==
    ASSUME DealInv, NEW k, NEW v, price_baselines' = price_baselines,
           \/ rows' = [rows EXCEPT ![k].score = v]
           \/ rows' = [rows EXCEPT ![k].fresh = v]
           \/ rows' = [rows EXCEPT ![k].keyed = v, ![k].attrs = v]
    PROVE  DealInv'
  <1>1. \A i \in DOMAIN rows : "offer" \in DOMAIN rows[i]
    BY DEF DealInv, RowsOK
  <1>2. /\ DOMAIN rows' = DOMAIN rows
        /\ \A i \in DOMAIN rows : DOMAIN rows'[i] = DOMAIN rows[i] /\ rows'[i].offer = rows[i].offer
    <2>1. CASE rows' = [rows EXCEPT ![k].score = v]
      BY <1>1, <2>1, Zenon
    <2>2. CASE rows' = [rows EXCEPT ![k].fresh = v]
      BY <1>1, <2>2, Zenon
    <2>3. CASE rows' = [rows EXCEPT ![k].keyed = v, ![k].attrs = v]
      BY <1>1, <2>3, Zenon
    <2>4. QED BY <2>1, <2>2, <2>3
  <1>3. QED BY <1>2, OffersKept

\* What eBay shows replaces the offer; a new row has one.
LEMMA IngestKeeps ==
    ASSUME DealInv, NEW i \in Ids, NEW offer \in Offers, Ingest(i, offer)
    PROVE  DealInv'
  <1>1. rows' = Upsert(i, offer) /\ price_baselines' = price_baselines
    BY DEF Ingest
  <1>2. RowsOK
    BY DEF DealInv
  <1>3. RowsOK'
    <2>1. CASE i \in DOMAIN rows
      <3>1. rows' = [rows EXCEPT ![i].offer = offer]
        BY <1>1, <2>1 DEF Upsert
      <3>2. DOMAIN rows' = DOMAIN rows
        BY <3>1
      <3>3. \A k \in DOMAIN rows : DOMAIN rows'[k] = DOMAIN rows[k]
        BY <3>1, Zenon
      <3>4. "offer" \in DOMAIN rows[i]
        BY <1>2, <2>1 DEF RowsOK
      <3>5. rows'[i].offer = offer
        BY <2>1, <3>1, <3>4, Zenon
      <3>6. \A k \in DOMAIN rows : k # i => rows'[k] = rows[k]
        BY <3>1
      <3>7. QED BY <1>2, <3>2, <3>3, <3>5, <3>6 DEF RowsOK
    <2>2. CASE i \notin DOMAIN rows
      <3>1. rows' = [k \in DOMAIN rows \cup {i} |-> IF k = i THEN NewRow(offer) ELSE rows[k]]
        BY <1>1, <2>2 DEF Upsert
      <3>2. "offer" \in DOMAIN NewRow(offer) /\ NewRow(offer).offer = offer
        BY DEF NewRow
      <3>3. QED BY <1>2, <3>1, <3>2 DEF RowsOK
    <2>3. QED BY <2>1, <2>2
  <1>4. QED BY <1>1, <1>3 DEF DealInv

\* The cron job recomputes the baseline from the samples that are stored now.
LEMMA BeginRescoreKeeps ==
    ASSUME DealInv, NEW r \in Refreshers, BeginRescore(r)
    PROVE  DealInv'
  <1>1. rows' = rows /\ price_baselines' \in {price_baselines, RecomputeBaseline}
    BY DEF BeginRescore
  <1>2. CASE price_baselines' = RecomputeBaseline
    <2> DEFINE price == [i \in Samples |-> UnitPrice(rows[i].offer)]
    <2>1. Samples \subseteq Ids /\ \A i \in Samples : rows[i].offer \in Offers
      BY DEF Samples, DealInv, RowsOK
    <2>2. IsFiniteSet(DOMAIN price)
      BY <2>1, DealConstants, FS_Subset
    <2>3. ASSUME NEW o \in Offers PROVE UnitPrice(o) \in Nat
      <3>1. o.price + o.shipping \in Nat /\ o.quantity \in Nat
        BY DealConstants
      <3>2. o.quantity > 1 => (o.price + o.shipping) \div o.quantity \in Nat
        BY <3>1
      <3>3. QED BY <3>1, <3>2 DEF UnitPrice
    <2>4. \A i \in DOMAIN price : price[i] \in Nat
      BY <2>1, <2>3
    <2>5. price_baselines' = recompute_baseline(price, price_baselines, MinSamples)
      BY <1>2 DEF RecomputeBaseline
    <2>6. MinSamples \in Nat \ {0} /\ (price_baselines # NoBaseline => Ordered(price_baselines))
      BY DealConstants DEF DealInv
    <2> HIDE DEF price
    <2>7. price_baselines' # NoBaseline => Ordered(price_baselines')
      BY <2>2, <2>4, <2>5, <2>6, BaselineOrdered
    <2>8. QED BY <1>1, <2>7 DEF DealInv, RowsOK, Ordered
  <1>3. CASE price_baselines' = price_baselines
    BY <1>1, <1>3 DEF DealInv, RowsOK, Ordered
  <1>4. QED BY <1>1, <1>2, <1>3

LEMMA DealStepKeeps == DealInv /\ [NextDeals]_dealVars => DealInv'
  <1> SUFFICES ASSUME DealInv, [NextDeals]_dealVars PROVE DealInv'
    OBVIOUS
  <1>1. ASSUME UNCHANGED <<rows, price_baselines>> PROVE DealInv'
    BY <1>1 DEF DealInv, RowsOK, Ordered
  <1>2. CASE UNCHANGED dealVars
    BY <1>1, <1>2 DEF dealVars
  <1>3. ASSUME NEW i \in Ids, Age(i) PROVE DealInv'
    <2>1. rows' = [rows EXCEPT ![i].fresh = FALSE] /\ price_baselines' = price_baselines
      BY <1>3 DEF Age
    <2>2. PICK v : v = FALSE
      OBVIOUS
    <2>3. rows' = [rows EXCEPT ![i].fresh = v]
      BY <2>1, <2>2, Zenon
    <2>4. QED BY <2>1, <2>3, SetField
  <1>4. CASE SetWatchEnabled
    BY <1>1, <1>4 DEF SetWatchEnabled
  <1>5. ASSUME WorkerStep \/ WorkerFails PROVE DealInv'
    <2>1. CASE StoreExtraction
      <3>1. /\ rows' = [rows EXCEPT ![worker.id].keyed = TRUE, ![worker.id].attrs = TRUE]
            /\ price_baselines' = price_baselines
        BY <2>1 DEF StoreExtraction
      <3>2. PICK v : v = TRUE
        OBVIOUS
      <3>3. PICK k : k = worker.id
        OBVIOUS
      <3>4. rows' = [rows EXCEPT ![k].keyed = v, ![k].attrs = v]
        BY <3>1, <3>2, <3>3, Zenon
      <3>5. QED BY <3>1, <3>4, SetField
    <2>2. CASE WorkerUpdateScore
      <3>1. PICK k, v : rows' = [rows EXCEPT ![k].score = v] /\ price_baselines' = price_baselines
        BY <2>2, Zenon DEF WorkerUpdateScore
      <3>2. QED BY <3>1, SetField
    <2>3. CASE (\E i \in Ids : GetListing(i)) \/ WorkerGetBaseline \/ WorkerEvaluate \/ WorkerFails
      BY <1>1, <2>3 DEF GetListing, WorkerGetBaseline, WorkerEvaluate, WorkerFails
    <2>4. QED BY <1>5, <2>1, <2>2, <2>3 DEF WorkerStep
  <1>6. ASSUME NEW r \in Refreshers, RescoreStep(r) \/ RescoreFails(r) PROVE DealInv'
    <2>1. CASE UpdateScore(r)
      <3>1. PICK k, v : rows' = [rows EXCEPT ![k].score = v] /\ price_baselines' = price_baselines
        BY <2>1, Zenon DEF UpdateScore
      <3>2. QED BY <3>1, SetField
    <2>2. CASE NextPage(r) \/ GetBaseline(r) \/ evaluateAlertsForListing(r) \/ RescoreFails(r)
      BY <1>1, <2>2 DEF NextPage, GetBaseline, evaluateAlertsForListing, RescoreFails
    <2>3. QED BY <1>6, <2>1, <2>2, BeginRescoreKeeps DEF RescoreStep
  <1>7. QED BY <1>2, <1>3, <1>4, <1>5, <1>6, IngestKeeps DEF NextDeals

\* Stored rows carry an offer of eBay, and the percentiles that
\* recompute_baseline stores are in order.
THEOREM DealInvariant == SpecDeals => []DealInv
  BY InitDealInv, DealStepKeeps, PTL DEF SpecDeals

\* For every baseline that can arise, a higher price never scores better: the
\* pieces of priceScore (scorer.go) fall and meet, also where percentiles
\* coincide.
THEOREM ScoreIsMonotone == SpecDeals => []MonotoneInPrice
  <1>1. ASSUME DealInv, price_baselines # NoBaseline,
               NEW k \in {"p10", "p25", "p50", "p75", "p90"}, NEW step \in {-1, 0}
        PROVE  LET p == price_baselines[k] + step
                   s == priceScore(p, price_baselines)
                   t == priceScore(p + 1, price_baselines)
               IN  s.n * t.d >= t.n * s.d
    <2>1. Ordered(price_baselines)
      BY <1>1 DEF DealInv
    <2>2. price_baselines[k] + step \in Int
      BY <2>1 DEF Ordered
    <2>3. QED BY <2>1, <2>2, ScoreFalls DEF NotBelow
  <1>2. DealInv => MonotoneInPrice
    BY <1>1 DEF MonotoneInPrice
  <1>3. QED BY <1>2, DealInvariant, PTL
=============================================================================
