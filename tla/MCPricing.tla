------------------------------ MODULE MCPricing ------------------------------
(* Extraction, and what is made of its result: scores, baselines and alerts. *)
(* Deals takes from an extraction only that it succeeded, so the two are run *)
(* one beside the other.                                                     *)
EXTENDS Extractor, Deals

(* A correct answer of the LLM for each type.                                *)
Common == [k \in {"condition"} |-> S("seller refurbished")]

Base ==
  [ram |-> [generation |-> S("DDR4"), capacity_gb |-> N(32), ecc |-> B(TRUE), registered |-> B(TRUE),
            speed_mhz |-> N(2666)],
   drive |-> [interface |-> S("SAS"), capacity |-> S("1.2TB"), form_factor |-> S("2.5"), type |-> S("HDD"),
              rpm |-> N(10000)],
   server |-> [manufacturer |-> S("Dell"), model |-> S(Name("", "r740", "", "")), form_factor |-> S("2U")],
   cpu |-> [manufacturer |-> S("Intel"), family |-> S("Xeon"), model |-> S(Name("", "6148", "", "")),
            cores |-> N(20), base_clock_ghz |-> N(24)],
   nic |-> [speed |-> S("10GbE"), port_count |-> N(2), port_type |-> S("SFP+")],
   gpu |-> [manufacturer |-> S("NVIDIA"), family |-> S("tesla"), model |-> S(Name("", "p40", "", "")),
            vram_gb |-> N(24)],
   workstation |-> [vendor |-> S("lenovo"), line |-> S("thinkstation"), model |-> S(Name("", "p920", "", ""))],
   desktop |-> [vendor |-> S("dell"), line |-> S("optiplex"), model |-> S(Name("", "7080", "", ""))]]

(* What the LLM may get wrong in one field of an answer: the wrong unit, a   *)
(* placeholder, a null, the wrong JSON type, a value out of range.           *)
Junk ==
  [ram |-> {<<"capacity_gb", N(0)>>, <<"capacity_gb", N(32768)>>, <<"capacity_gb", N(32001)>>,
            <<"generation", S("DDR2")>>, <<"generation", Null>>, <<"speed_mhz", N(0)>>,
            <<"speed_mhz", N(21300)>>, <<"speed_mhz", Null>>, <<"ecc", Null>>},
   drive |-> {<<"interface", S("unknown")>>, <<"interface", Null>>, <<"capacity", S("unknown")>>,
              <<"capacity", S("")>>, <<"form_factor", S("n/a")>>, <<"type", S("tape")>>, <<"rpm", N(5400)>>},
   server |-> {<<"manufacturer", S("unknown")>>, <<"manufacturer", Null>>, <<"model", Null>>,
               <<"form_factor", S("none")>>, <<"form_factor", S("9U")>>, <<"tier", S("configured")>>},
   cpu |-> {<<"manufacturer", S("unknown")>>, <<"family", S("Core")>>, <<"model", S(NoName)>>,
            <<"cores", N(0)>>, <<"base_clock_ghz", N(240)>>, <<"tdp_watts", Null>>},
   nic |-> {<<"speed", S("unknown")>>, <<"port_count", N(0)>>, <<"port_count", Null>>,
            <<"port_type", S("n/a")>>, <<"port_type", S("DB9")>>},
   gpu |-> {<<"manufacturer", S("unknown")>>, <<"model", S(Name("rtx", "", "", ""))>>, <<"model", S(NoName)>>,
            <<"vram_gb", N(0)>>,
            <<"vram_gb", N(24576)>>, <<"vram_gb", N(300)>>, <<"vram_gb", Null>>, <<"family", Null>>,
            <<"form_factor", S("unknown")>>, <<"cooling", S("unknown")>>},
   workstation |-> {<<"vendor", S("unknown")>>, <<"vendor", Null>>, <<"model", S(Name("dell", "", "", ""))>>,
                    <<"line", S("power edge")>>,
                    <<"line", Null>>, <<"form_factor", S("none")>>, <<"ram_gb", N(9000)>>},
   desktop |-> {<<"vendor", S("ibm")>>, <<"line", S("proliant")>>, <<"model", Null>>,
                <<"form_factor", S("tiny pc")>>, <<"storage_gb", N(0)>>}]

JunkCommon == {<<"condition", S("mint")>>, <<"condition", Null>>, <<"confidence", N(101)>>,
               <<"confidence", Null>>, <<"quantity", N(0)>>}

Wrong(right, errors) ==
  {Put(right, e[1], e[2]) : e \in errors}
    \cup {Put(Put(right, e[1], e[2]), f[1], f[2]) : e \in errors, f \in errors}

(* The spellings of the products of TrueKey.                                 *)
gpuSpellings(maker, sku, suffix, families, vrams) ==
  {[manufacturer |-> S(maker), family |-> f, model |-> S(Name(b, sku, sep, suffix)), vram_gb |-> N(v),
    condition |-> S("used")] :
     f \in families, b \in {"", "rtx"}, sep \in IF suffix = "" THEN {""} ELSE {" ", "_", ""}, v \in vrams}

Spellings(product) ==
  CASE product = "rtx 3090 ti" -> gpuSpellings("NVIDIA", "3090", "ti",
                                               {S("rtx"), S("geforce-rtx"), S("ampere"), Null}, {24, 23, 25, 24576, 24000})
    [] product = "a100 80gb" -> gpuSpellings("NVIDIA", "a100", "", {S("ampere"), S("a-series"), S("tesla")},
                                             {80, 79, 81920, 80000})
    [] product = "mi250 128gb" -> gpuSpellings("AMD", "mi250", "", {S("instinct"), S("radeon pro"), Null},
                                               {128, 127, 131072, 128000})
    [] product = "precision t3620" ->
         {[vendor |-> S(v), line |-> l, model |-> S(Name(b, "t3620", "", "")), condition |-> S("used")] :
            v \in {"dell", "dell inc."}, b \in {"", "dell"},
            l \in {S("precision"), S("dell precision"), S("poweredge"), S("power edge"), S(""), Null}}
    [] product \in {"32gb rdimm", "128gb lrdimm"} ->
         {[generation |-> S("DDR4"), capacity_gb |-> N(c), ecc |-> B(TRUE), registered |-> B(TRUE),
           speed_mhz |-> s, condition |-> S("used")] :
            c \in IF product = "32gb rdimm" THEN {32, 32768, 32000} ELSE {128, 131072, 128000},
            s \in {N(2666), N(0), N(21300), Null}}
    [] product = "bare r740" ->
         {Put(Base["server"] @@ Common, "tier", S(t)) : t \in {"barebone", "partial", "configured"}}

(* Listings: the products of the catalogue under the title they are sold by, *)
(* and titles of up to three phrases, or of two beside item specifics.       *)
Catalogue ==
  {[title |-> t[2], specs |-> NoSpecifics, sold |-> t[1]] :
     t \in {<<"rtx 3090 ti", {}>>, <<"a100 80gb", {}>>, <<"mi250 128gb", {}>>, <<"precision t3620", {"xeon"}>>,
            <<"32gb rdimm", {"ddr4", "pc4-21300"}>>,
            <<"128gb lrdimm", {"ddr4", "pc4-21300"}>>, <<"bare r740", {"poweredge r740", "no cpu"}>>}}

TitlePhrases == {"sas cable", "rails", "xeon", "gold 6148", "256gb ram", "thinkstation", "optiplex",
                 "prodesk", "dell pro", "tower"}

Specs ==
  {NoSpecifics, [NoSpecifics EXCEPT !["most suitable for"] = {"workstation"}],
   [NoSpecifics EXCEPT !["series"] = {"prosupport"}, !["form factor"] = {"tower"}],
   [NoSpecifics EXCEPT !["product line"] = {"pro"}, !["type"] = {"tower"}],
   [NoSpecifics EXCEPT !["series"] = {"pro max"}, !["type"] = {"tower"}],
   [NoSpecifics EXCEPT !["series"] = {"elitedesk"}]}

Titled ==
  {[title |-> {p, q, r}, specs |-> NoSpecifics, sold |-> "none"] :
     p \in TitlePhrases, q \in TitlePhrases, r \in TitlePhrases}
    \cup {[title |-> {p, q}, specs |-> s, sold |-> "none"] :
            p \in TitlePhrases, q \in TitlePhrases, s \in Specs}

(* Titles of the listings that are extracted with every kind of error.       *)
Plain == {[title |-> t, specs |-> NoSpecifics, sold |-> "none"] : t \in {{}, {"pc4-21300"}, {"gold 6148", "ddr4"}}}

MCListings == Catalogue \cup Plain \cup Titled

MCAnswers(l, type) ==
  IF l.sold \in DOMAIN TrueKey /\ type = TrueKey[l.sold][1] THEN Spellings(l.sold)
  ELSE LET right == Base[type] @@ Common IN
       IF l \in Plain THEN {right} \cup Wrong(right, Junk[type] \cup JunkCommon) ELSE {right}

-----------------------------------------------------------------------------
(* Offers: a cheap one by a small seller, a dear lot by a large one, one for *)
(* parts.                                                                    *)
MCOffers ==
  {[price |-> 30, shipping |-> 10, quantity |-> 1, feedback |-> 120, feedbackPct |-> 990, topRated |-> FALSE,
    condition |-> "used_working", hasImages |-> TRUE],
   [price |-> 400, shipping |-> 0, quantity |-> 4, feedback |-> 9000, feedbackPct |-> 999, topRated |-> TRUE,
    condition |-> "like_new", hasImages |-> TRUE],
   [price |-> 20, shipping |-> 0, quantity |-> 1, feedback |-> 600, feedbackPct |-> 960, topRated |-> FALSE,
    condition |-> "for_parts", hasImages |-> FALSE]}

(* A watch for 32 GB modules under 90 a piece.                               *)
MCFilters == [priceMax |-> 90, priceMin |-> NoBound, minFeedback |-> 100, minFeedbackPct |-> NoBound,
              topRatedOnly |-> FALSE, conditions |-> {"used_working", "like_new"},
              attributes |-> [capacity_gb |-> [op |-> "eq", value |-> [n |-> 32]]]]

VARIABLE part

mcVars == <<extractVars, dealVars, part>>

Extraction == part = "extract" /\ NextExtract /\ UNCHANGED <<dealVars, part>>

Pricing == part = "deals" /\ NextDeals /\ UNCHANGED <<extractVars, part>>

Working == part = "deals" /\ WorkerStep /\ UNCHANGED <<extractVars, part>>

Refreshing == part = "deals" /\ RescoreStep("cron") /\ UNCHANGED <<extractVars, part>>

FirstListing == CHOOSE l \in Plain : l.title = {}

MCInit ==
  /\ InitExtract /\ InitDeals
  /\ \/ part = "extract"
     \/ part = "deals" /\ listing = FirstListing /\ caller = "worker" /\ backend = "ollama"

MCNext == Extraction \/ Pricing

MCSpec == MCInit /\ [][MCNext]_mcVars /\ WF_mcVars(Working) /\ WF_mcVars(Refreshing)

=============================================================================
