------------------------------ MODULE Normalize ------------------------------
(* What is done to the attributes an LLM returns before they are validated,  *)
(* and the product key that is made of them: pkg/extract/normalize.go,       *)
(* pc4.go, condition.go, server_tier.go, gpu_normalize.go,                   *)
(* system_normalize.go and productkey.go.                                    *)
(*                                                                           *)
(* The attribute map is a function whose domain is the keys that are present.*)
(* A value is a one-field record: [s |-> string], [n |-> number],            *)
(* [b |-> boolean], or the JSON null.  Confidence is in hundredths.  Names   *)
(* of models are [brand, sku, sep, suffix] ("RTX 3090 Ti" has brand "rtx",   *)
(* separator " " and suffix "ti"); their letter case is left out because     *)
(* every reader lowercases them.                                             *)
EXTENDS Integers, Sequences, Preclassify, SequencesExt

S(s) == [s |-> s]
N(n) == [n |-> n]
B(b) == [b |-> b]
Null == [null |-> TRUE]

Name(brand, sku, sep, suffix) == [brand |-> brand, sku |-> sku, sep |-> sep, suffix |-> suffix]

NoName == Name("", "", "", "")

IsStr(attrs, k) == k \in DOMAIN attrs /\ DOMAIN attrs[k] = {"s"}
IsNum(attrs, k) == k \in DOMAIN attrs /\ DOMAIN attrs[k] = {"n"}
IsBool(attrs, k) == k \in DOMAIN attrs /\ DOMAIN attrs[k] = {"b"}

Put(attrs, k, v) == [x \in DOMAIN attrs \cup {k} |-> IF x = k THEN v ELSE attrs[x]]
Delete(attrs, k) == [x \in DOMAIN attrs \ {k} |-> attrs[x]]

-----------------------------------------------------------------------------
(* Fields common to all types.                                               *)

placeholderValues == {"n/a", "unknown", "none"}

optionalEnumFields == {"form_factor", "type", "interface", "port_type"}

stripPlaceholderEnums(attrs) ==
  LET placeholder(k) == k \in optionalEnumFields /\ IsStr(attrs, k) /\ attrs[k].s \in placeholderValues
  IN  [k \in {x \in DOMAIN attrs : ~placeholder(x)} |-> attrs[k]]

(* Only a missing key is defaulted: a JSON null stays.                       *)
defaultConfidence(attrs) ==
  IF "confidence" \in DOMAIN attrs THEN attrs ELSE Put(attrs, "confidence", N(50))

(* What each spelling of a condition stands for.                             *)
conditionMap ==
  LET new == {"new", "brand new", "factory sealed"}
      likeNew == {"like_new", "open box", "manufacturer refurbished"}
      used == {"used_working", "used", "pre-owned", "seller refurbished", "pulled from working",
               "tested working"}
      parts == {"for_parts", "for parts", "not working", "parts only", "as-is"}
  IN  [c \in new \cup likeNew \cup used \cup parts \cup {"unknown"} |->
         IF c \in new THEN "new" ELSE IF c \in likeNew THEN "like_new"
         ELSE IF c \in used THEN "used_working"
         ELSE IF c \in parts THEN "for_parts" ELSE "unknown"]

NormalizeCondition(raw) == IF raw \in DOMAIN conditionMap THEN conditionMap[raw] ELSE "unknown"

(* The unit repair shared by RAM capacity and GPU memory: above the limit    *)
(* the value is taken for MiB, then for MB, when that lands in 1..limit.     *)
ToGB(v, limit) ==
  LET fits(d) == v % d = 0 /\ v \div d \in 1 .. limit IN
  IF v <= limit THEN v
  ELSE IF fits(1024) THEN v \div 1024
  ELSE IF fits(1000) THEN v \div 1000
  ELSE v

normalizeCapacityGB(attrs) ==
  IF IsNum(attrs, "capacity_gb")
  THEN Put(attrs, "capacity_gb", N(ToGB(attrs["capacity_gb"].n, 1024))) ELSE attrs

-----------------------------------------------------------------------------
(* RAM speed from the title.                                                 *)

pc4SpeedTable == [p \in {"pc4-21300"} |-> 2666]

ddrSpeed == [p \in {"ddr4-2400"} |-> 2400]

speedInValidRange(mhz) == mhz \in 800 .. 8400

(* The module number wins over the DDR designation; 0 when there is none.    *)
ExtractSpeedFromTitle(title) ==
  IF title \cap DOMAIN pc4SpeedTable # {}
  THEN pc4SpeedTable[CHOOSE p \in title \cap DOMAIN pc4SpeedTable : TRUE]
  ELSE IF title \cap DOMAIN ddrSpeed # {}
  THEN ddrSpeed[CHOOSE p \in title \cap DOMAIN ddrSpeed : TRUE]
  ELSE 0

NormalizeRAMSpeed(title, attrs) ==
  LET found == ExtractSpeedFromTitle(title) IN
  IF IsNum(attrs, "speed_mhz") /\ speedInValidRange(attrs["speed_mhz"].n) THEN attrs
  ELSE IF found # 0 THEN Put(attrs, "speed_mhz", N(found))
  ELSE Delete(attrs, "speed_mhz")

-----------------------------------------------------------------------------
(* Server tier from the title.                                               *)

barebonePatterns == {"barebone", "no cpu"}

cpuPresentPatterns == {"gold 6148"}

ramPresentPatterns == {"ddr4", "ddr4-2400", "256gb ram"}

DetectServerTier(title) ==
  IF matchesAny(title, barebonePatterns) THEN "barebone"
  ELSE IF matchesAny(title, cpuPresentPatterns) /\ matchesAny(title, ramPresentPatterns)
  THEN "configured" ELSE "partial"

-----------------------------------------------------------------------------
(* GPU.                                                                      *)

Hyphenated == [s \in {"rtx pro"} |-> "rtx-pro"] @@ [s \in {"power edge"} |-> "power-edge"]
                @@ [s \in {"tiny pc"} |-> "tiny-pc"]

ReplaceSpaces(s) == IF s \in DOMAIN Hyphenated THEN Hyphenated[s] ELSE s

gpuFamilyAliases ==
  [s \in {"rtx", "rtx pro", "rtx-pro"} |-> "rtx"] @@ [s \in {"a-series", "ampere"} |-> "a-series"]
    @@ [s \in {"radeon pro", "radeonpro"} |-> "radeon-pro"]

CanonicalizeGPUFamily(s) ==
  IF s \in DOMAIN gpuFamilyAliases THEN gpuFamilyAliases[s] ELSE ReplaceSpaces(s)

(* "RTX 3090 Ti", "rtx_3090_ti" and "3090ti" become "3090ti", and a bare     *)
(* "rtx" becomes the empty name.                                             *)
CanonicalizeGPUModel(m) ==
  [m EXCEPT !.brand = IF @ = "rtx" THEN "" ELSE @,
            !.sep = IF m.suffix \in {"ti", "super"} THEN "" ELSE @]

(* Families told by the whole model name; "p4000" is ambiguous and has none. *)
gpuFamilyInferenceRules ==
  [sku \in {"p40", "t4"} |-> "tesla"] @@ [sku \in {"a100"} |-> "a-series"] @@ [sku \in {"mi250"} |-> "instinct"]
    @@ [sku \in {"3090", "4070"} |-> "geforce-rtx"] @@ [sku \in {"a2000"} |-> "quadro-rtx"]

DetectGPUFamilyFromModel(m) ==
  IF /\ m.sku \in DOMAIN gpuFamilyInferenceRules
     /\ m.brand = ""
     /\ \/ m.suffix = ""
        \/ gpuFamilyInferenceRules[m.sku] = "geforce-rtx" /\ m.sep = "" /\ m.suffix \in {"ti", "super"}
  THEN gpuFamilyInferenceRules[m.sku] ELSE ""

normalizeGPUFamily(attrs) ==
  LET inferred == IF IsStr(attrs, "model") THEN DetectGPUFamilyFromModel(attrs["model"].s) ELSE ""
  IN  IF inferred # "" THEN Put(attrs, "family", S(inferred))
      ELSE IF IsStr(attrs, "family") /\ CanonicalizeGPUFamily(attrs["family"].s) # ""
      THEN Put(attrs, "family", S(CanonicalizeGPUFamily(attrs["family"].s)))
      ELSE attrs

gpuValidVRAMSizes == <<8, 12, 16, 24, 32, 40, 48, 80, 96, 128>>

(* The first size of the list that is at most one away.                      *)
RoundVRAM(v) ==
  LET near == SelectSeq(gpuValidVRAMSizes, LAMBDA sku : v - sku \in -1 .. 1)
  IN  IF near = <<>> THEN v ELSE Head(near)

normalizeGPUVRAMUnit(attrs) ==
  IF IsNum(attrs, "vram_gb") THEN Put(attrs, "vram_gb", N(ToGB(attrs["vram_gb"].n, 256))) ELSE attrs

roundGPUVRAM(attrs) ==
  IF IsNum(attrs, "vram_gb") THEN Put(attrs, "vram_gb", N(RoundVRAM(attrs["vram_gb"].n))) ELSE attrs

(* A model of which nothing would be left stays as it is.                    *)
canonicalizeGPUModelInPlace(attrs) ==
  IF IsStr(attrs, "model") /\ CanonicalizeGPUModel(attrs["model"].s) # NoName
  THEN Put(attrs, "model", S(CanonicalizeGPUModel(attrs["model"].s)))
  ELSE attrs

(* Variant: the family is looked up before the model is canonical.           *)
FamilyBeforeModel(attrs) ==
  roundGPUVRAM(canonicalizeGPUModelInPlace(normalizeGPUFamily(normalizeGPUVRAMUnit(attrs))))

NormalizeGPUExtraction(attrs) ==
  roundGPUVRAM(normalizeGPUFamily(canonicalizeGPUModelInPlace(normalizeGPUVRAMUnit(attrs))))

-----------------------------------------------------------------------------
(* Workstations and desktops.                                                *)

systemVendorAliases ==
  [s \in {"dell", "dell inc."} |-> "dell"] @@ [s \in {"hp", "hewlett-packard"} |-> "hp"]
    @@ [s \in {"lenovo", "ibm"} |-> "lenovo"]

CanonicalizeSystemVendor(s) ==
  IF s \in DOMAIN systemVendorAliases THEN systemVendorAliases[s] ELSE ReplaceSpaces(s)

systemLineAliases ==
  [s \in {"precision", "dell precision"} |-> "precision"]
    @@ [s \in {"thinkstation", "think station"} |-> "thinkstation"]
    @@ [s \in {"optiplex", "dell optiplex"} |-> "optiplex"]

CanonicalizeSystemLine(s) ==
  IF s \in DOMAIN systemLineAliases THEN systemLineAliases[s] ELSE ReplaceSpaces(s)

systemServerLineDenylist == {"poweredge", "power-edge", "proliant"}

(* The vendor in front of the model goes; a vendor alone is taken for one.   *)
CanonicalizeSystemModel(m) ==
  [m EXCEPT !.brand = IF @ \in {"dell", "hp", "hpe", "lenovo", "ibm"} /\ m.sku # "" THEN "" ELSE @]

systemLineInferenceRules ==
  [sku \in {"t3620"} |-> "precision"] @@ [sku \in {"p920"} |-> "thinkstation"]

InferSystemLineFromModel(m) ==
  IF m.sku \in DOMAIN systemLineInferenceRules /\ m.brand = "" /\ m.suffix = ""
  THEN systemLineInferenceRules[m.sku] ELSE ""

(* A line on the server denylist gives way to the inferred line, and stays   *)
(* as it is when the model says nothing.                                     *)
resolveSystemLine(attrs) ==
  LET given == IF IsStr(attrs, "line") THEN CanonicalizeSystemLine(attrs["line"].s) ELSE ""
      inferred == IF IsStr(attrs, "model") THEN InferSystemLineFromModel(attrs["model"].s) ELSE ""
  IN  IF given # "" /\ given \notin systemServerLineDenylist THEN Put(attrs, "line", S(given))
      ELSE IF inferred # "" THEN Put(attrs, "line", S(inferred)) ELSE attrs

canonicalizeSystemVendorInPlace(attrs) ==
  IF IsStr(attrs, "vendor") /\ CanonicalizeSystemVendor(attrs["vendor"].s) # ""
  THEN Put(attrs, "vendor", S(CanonicalizeSystemVendor(attrs["vendor"].s)))
  ELSE attrs

canonicalizeSystemModelInPlace(attrs) ==
  IF IsStr(attrs, "model") /\ CanonicalizeSystemModel(attrs["model"].s) # NoName
  THEN Put(attrs, "model", S(CanonicalizeSystemModel(attrs["model"].s)))
  ELSE attrs

NormalizeSystemExtraction(attrs) ==
  resolveSystemLine(canonicalizeSystemModelInPlace(canonicalizeSystemVendorInPlace(attrs)))

-----------------------------------------------------------------------------
NormalizeExtraction(ct, title, raw) ==
  LET attrs == defaultConfidence(stripPlaceholderEnums(raw)) IN
  CASE ct = "ram" -> NormalizeRAMSpeed(title, normalizeCapacityGB(attrs))
    [] ct = "server" -> Put(attrs, "tier", S(DetectServerTier(title)))
    [] ct = "gpu" -> NormalizeGPUExtraction(attrs)
    [] ct \in {"workstation", "desktop"} -> NormalizeSystemExtraction(attrs)
    [] OTHER -> attrs

(* The product key: one segment per listed attribute.                        *)

Unknown == "unknown"

normalizeStr(attrs, k) == IF IsStr(attrs, k) /\ attrs[k].s # "" THEN attrs[k] ELSE S(Unknown)

(* An empty name is the one with no part; separators are kept apart because  *)
(* only a space becomes an underscore.                                       *)
normalizeName(attrs, k) ==
  IF IsStr(attrs, k) /\ attrs[k].s # NoName
  THEN S([attrs[k].s EXCEPT !.sep = IF @ = " " THEN "_" ELSE @]) ELSE S(Name("", Unknown, "", ""))

pkInt(attrs, k) == IF IsNum(attrs, k) THEN attrs[k] ELSE N(0)

ramType(attrs) ==
  IF ~IsBool(attrs, "ecc") THEN S(Unknown)
  ELSE IF ~attrs["ecc"].b THEN S("non_ecc")
  ELSE IF IsBool(attrs, "registered") /\ attrs["registered"].b THEN S("ecc_reg")
  ELSE S("ecc_unbuf")

rpmClass == [r \in {7200} |-> "7k2"] @@ [r \in {10000} |-> "10k"] @@ [r \in {15000} |-> "15k"]

driveType(attrs) ==
  LET rpm == pkInt(attrs, "rpm").n IN
  IF ~IsStr(attrs, "type") THEN S(Unknown)
  ELSE IF attrs["type"].s \in {"SSD", "ssd"} THEN S("ssd")
  ELSE IF rpm \in DOMAIN rpmClass THEN S(rpmClass[rpm]) ELSE S("hdd")

ProductKey(ct, attrs) ==
  LET str(k) == normalizeStr(attrs, k)
      name == normalizeName(attrs, "model")
  IN  CASE ct = "ram" -> <<ct, str("generation"), ramType(attrs), pkInt(attrs, "capacity_gb"),
                           pkInt(attrs, "speed_mhz")>>
        [] ct = "drive" -> <<ct, str("interface"), str("form_factor"), str("capacity"), driveType(attrs)>>
        [] ct = "server" -> <<ct, str("manufacturer"), name, str("drive_form_factor"), str("tier")>>
        [] ct = "cpu" -> <<ct, str("manufacturer"), str("family"), name>>
        [] ct = "nic" -> <<ct, str("speed"), pkInt(attrs, "port_count"), str("port_type")>>
        [] ct = "gpu" -> <<ct, str("manufacturer"), str("family"), name, pkInt(attrs, "vram_gb")>>
        [] ct \in {"workstation", "desktop"} -> <<ct, str("vendor"), str("line"), name>>
        [] OTHER -> <<"other", S(ct)>>

=============================================================================
