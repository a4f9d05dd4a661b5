------------------------------ MODULE Extractor ------------------------------
(* One extraction: LLMExtractor.ClassifyAndExtract (pkg/extract/extractor.go)*)
(* over one of the three LLM backends (anthropic.go, openai_compat.go,       *)
(* ollama.go), called by an extraction worker (internal/engine/engine.go) or *)
(* by the extract endpoint (internal/api/handlers/extract.go).               *)
(*                                                                           *)
(* The pre-classifiers run in one step; each LLM call is a step of its own,  *)
(* because what the service answers is not the program's choice.  The LLM    *)
(* may name any type, or none, and return any attribute map of Answers.      *)
EXTENDS Validate

CONSTANTS
  Listings,       \* records [title, specs, sold]: what sellers offer
  Answers(_, _),  \* the attribute maps the LLM may return for a listing and a type
  Backends        \* the configured backends to consider

VARIABLES
  listing,   \* the listing at hand
  caller,    \* "worker" or "handler"
  backend,   \* the LLM backend in use
  hasKey,    \* ANTHROPIC_API_KEY is set
  pc,        \* "start", "classify", "extract", "done"
  ct,        \* component type decided so far, "" before
  attrs,     \* the extracted attributes
  outcome,   \* "", "ok", "failed" or "panic"
  answered   \* texts the service returned, and bills

extractVars == <<listing, caller, backend, hasKey, pc, ct, attrs, outcome, answered>>

EmptyMap == [k \in {} |-> Null]

ComponentTypes == {"ram", "drive", "server", "cpu", "nic", "gpu", "workstation", "desktop", "other"}

validComponentTypes == ComponentTypes

(* The types with an extraction prompt: there is none for "other".           *)
templates == ComponentTypes \ {"other"}

(* What a type's classification answer may be; "motherboard" stands for any  *)
(* text that is not exactly one of the names.                                *)
ClassifyTexts == ComponentTypes \cup {"motherboard"}

InitExtract ==
  /\ listing \in Listings /\ caller \in {"worker", "handler"}
  /\ backend \in Backends /\ hasKey \in {TRUE, backend # "anthropic"}
  /\ pc = "start" /\ ct = "" /\ attrs = EmptyMap /\ outcome = ""
  /\ answered = 0

(* The worker passes no item specifics.                                      *)
ItemSpecifics == IF caller = "worker" THEN NoSpecifics ELSE listing.specs

Finish(result) == pc' = "done" /\ outcome' = result

preclassifyTitle == DetectSystemTypeFromTitle(listing.title)
preclassifyAccessory == IsAccessoryOnly(listing.title)
preclassifySpecifics == DetectSystemTypeFromSpecifics(ItemSpecifics)

ExtractAs(type) == ct' = type /\ pc' = "extract" /\ UNCHANGED <<attrs, outcome>>

(* Variant: the accessory patterns are tried before the title.               *)
RouteAccessoryFirst ==
  /\ pc = "start"
  /\ \/ preclassifyAccessory /\ ct' = "other" /\ Finish("ok") /\ attrs' = Put(EmptyMap, "confidence", N(95))
     \/ ~preclassifyAccessory /\ preclassifyTitle # "" /\ ExtractAs(preclassifyTitle)
     \/ ~preclassifyAccessory /\ preclassifyTitle = "" /\ pc' = "classify" /\ UNCHANGED <<ct, attrs, outcome>>
  /\ UNCHANGED <<listing, caller, backend, hasKey, answered>>

(* The short cuts, in order: title, accessory, item specifics, then the LLM. *)
ClassifyAndExtract ==
  /\ pc = "start"
  /\ \/ preclassifyTitle # "" /\ ExtractAs(preclassifyTitle)
     \/ /\ preclassifyTitle = "" /\ preclassifyAccessory
        /\ ct' = "other" /\ attrs' = Put(EmptyMap, "confidence", N(95)) /\ Finish("ok")
     \/ /\ preclassifyTitle = "" /\ ~preclassifyAccessory
        /\ preclassifySpecifics # "" /\ ExtractAs(preclassifySpecifics)
     \/ /\ preclassifyTitle = "" /\ ~preclassifyAccessory /\ preclassifySpecifics = ""
        /\ pc' = "classify" /\ UNCHANGED <<ct, attrs, outcome>>
  /\ UNCHANGED <<listing, caller, backend, hasKey, answered>>

-----------------------------------------------------------------------------
(* The backends.  A request ends with no response, a status other than 200,  *)
(* a body that does not parse, an empty list of contents, or a text.         *)
Responses == {"no response", "status", "garbled", "empty", "text"}

AnthropicGenerate(resp) == hasKey /\ resp = "text"

OpenAICompatGenerate(resp) == resp = "text"

(* Ollama's response field is a plain string, and is not checked.            *)
OllamaGenerate(resp) == resp \in {"empty", "text"}

(* Generate returned no error.                                               *)
Generate(resp) ==
  CASE backend = "anthropic" -> AnthropicGenerate(resp)
    [] backend = "openai_compat" -> OpenAICompatGenerate(resp)
    [] backend = "ollama" -> OllamaGenerate(resp)

(* The service bills what it answers; a backend without a key calls nobody.  *)
Billed(resp) == IF hasKey /\ resp = "text" THEN 1 ELSE 0

Classify ==
  /\ pc = "classify"
  /\ \E resp \in Responses, text \in ClassifyTexts :
       /\ answered' = answered + Billed(resp)
       /\ IF Generate(resp) /\ resp = "text" /\ text \in validComponentTypes
          THEN ExtractAs(text)
          ELSE Finish("failed") /\ UNCHANGED <<ct, attrs>>
  /\ UNCHANGED <<listing, caller, backend, hasKey>>

(* RenderExtractPrompt fails before any call.                                *)
RenderExtractPromptFails ==
  /\ pc = "extract" /\ ct \notin templates
  /\ Finish("failed")
  /\ UNCHANGED <<listing, caller, backend, hasKey, ct, attrs, answered>>

(* The call fails, or the text is not a JSON object once the fences are off. *)
ExtractUnusable ==
  /\ pc = "extract" /\ ct \in templates
  /\ \E resp \in Responses :
       /\ answered' = answered + Billed(resp)
  /\ Finish("failed")
  /\ UNCHANGED <<listing, caller, backend, hasKey, ct, attrs>>

(* The JSON text null parses into a nil map, and the first write to it -     *)
(* the default confidence - panics.                                          *)
ExtractNull ==
  /\ pc = "extract" /\ ct \in templates /\ Generate("text")
  /\ answered' = answered + 1
  /\ Finish("panic")
  /\ UNCHANGED <<listing, caller, backend, hasKey, ct, attrs>>

(* Variant: the answer is validated as the LLM gave it.                      *)
ExtractUnnormalised ==
  /\ pc = "extract" /\ ct \in templates /\ Generate("text")
  /\ answered' = answered + 1
  /\ \E raw \in Answers(listing, ct) :
       IF ValidateExtraction(ct, defaultConfidence(raw))
       THEN attrs' = WithCondition(defaultConfidence(raw)) /\ Finish("ok")
       ELSE attrs' = EmptyMap /\ Finish("failed")
  /\ UNCHANGED <<listing, caller, backend, hasKey, ct>>

(* An object: normalised against the title, then validated.                  *)
Extract ==
  /\ pc = "extract" /\ ct \in templates /\ Generate("text")
  /\ answered' = answered + 1
  /\ \E raw \in Answers(listing, ct) :
       LET norm == NormalizeExtraction(ct, listing.title, raw) IN
       IF ValidateExtraction(ct, norm)
       THEN attrs' = WithCondition(norm) /\ Finish("ok")
       ELSE attrs' = EmptyMap /\ Finish("failed")
  /\ UNCHANGED <<listing, caller, backend, hasKey, ct>>

NextExtract == ClassifyAndExtract \/ Classify \/ RenderExtractPromptFails \/ ExtractUnusable
                 \/ ExtractNull \/ Extract

SpecExtract == InitExtract /\ [][NextExtract]_extractVars

-----------------------------------------------------------------------------
(* The key under which the listing is priced; both callers build it.         *)
StoredKey == ProductKey(ct, attrs)

(* Segments of the key that are an enumeration or a number the validator     *)
(* requires.  The free-text ones (a model, a vendor) are whatever the LLM    *)
(* wrote, the word "unknown" included.                                       *)
RequiredSegments ==
  CASE ct = "ram" -> {2, 4}
    [] ct = "drive" -> {2}
    [] ct = "server" -> {5}
    [] ct = "cpu" -> {2, 3}
    [] ct = "nic" -> {2, 3}
    [] ct = "gpu" -> {2, 5}
    [] OTHER -> {}

KnownSegment(v) == IF DOMAIN v = {"n"} THEN v.n > 0 ELSE v # S(Unknown)

(* Whatever the LLM returned, what is accepted (validate.go) can be priced:  *)
(* the required segments of the product key (productkey.go) are known, the   *)
(* condition is one the scorer knows, and a RAM speed is one a module can    *)
(* have.  The validator and the key read the same attributes by two          *)
(* independent pieces of code, and the normaliser rewrites them in between.  *)
AcceptedCanBePriced ==
  (outcome = "ok" /\ ct # "other") =>
     /\ \A i \in RequiredSegments : KnownSegment(StoredKey[i])
     /\ attrs["condition"].s \in {"new", "like_new", "used_working", "for_parts", "unknown"}
     /\ (ct = "ram" /\ IsNum(attrs, "speed_mhz")) => speedInValidRange(attrs["speed_mhz"].n)

(* The true key of a product the LLM may spell in many ways.                 *)
TrueKey ==
  [p \in {"rtx 3090 ti"} |-> <<"gpu", S("NVIDIA"), S("geforce-rtx"), S(Name("", "3090", "", "ti")), N(24)>>]
    @@ [p \in {"a100 80gb"} |-> <<"gpu", S("NVIDIA"), S("a-series"), S(Name("", "a100", "", "")), N(80)>>]
    @@ [p \in {"mi250 128gb"} |-> <<"gpu", S("AMD"), S("instinct"), S(Name("", "mi250", "", "")), N(128)>>]
    @@ [p \in {"precision t3620"} |-> <<"workstation", S("dell"), S("precision"), S(Name("", "t3620", "", ""))>>]
    @@ [p \in {"32gb rdimm"} |-> <<"ram", S("DDR4"), S("ecc_reg"), N(32), N(2666)>>]
    @@ [p \in {"128gb lrdimm"} |-> <<"ram", S("DDR4"), S("ecc_reg"), N(128), N(2666)>>]
    @@ [p \in {"bare r740"} |-> <<"server", S("Dell"), S(Name("", "r740", "", "")), S(Unknown), S("barebone")>>]

(* The segment of a key that is a size the LLM may give in MB.               *)
SizeSegment == [type \in {"ram"} |-> 4] @@ [type \in {"gpu"} |-> 5]

(* 1024 is tried before 1000 (normalize.go:77, gpu_normalize.go:168), so a   *)
(* size in decimal MB that 1024 happens to divide is taken for MiB: 128000   *)
(* is read as 125.  It happens to the multiples of 128 GB and to no other    *)
(* size.                                                                     *)
Misread(key) ==
  {[key EXCEPT ![i] = N((1000 * key[i].n) \div 1024)] :
     i \in {j \in {SizeSegment[type] : type \in DOMAIN SizeSegment \cap {key[1]}} : (1000 * key[j].n) % 1024 = 0}}

(* Two listings of one product share a price baseline: however the LLM       *)
(* spells the model, guesses the family, the line or the tier, or gives the  *)
(* size in MB or MiB, the key is the product's own (gpu_normalize.go,        *)
(* system_normalize.go, pc4.go, server_tier.go).  Otherwise the baseline     *)
(* splits and a listing is scored against too few samples.  The exception is *)
(* Misread: a product of 128 GB or a multiple has a second key, and only one.*)
OneKeyPerProduct ==
  (outcome = "ok" /\ listing.sold \in DOMAIN TrueKey /\ ct = TrueKey[listing.sold][1])
    => StoredKey \in {TrueKey[listing.sold]} \cup Misread(TrueKey[listing.sold])

(* What a title says.  A computer has a chassis word and a sign that it is   *)
(* complete; a part is an accessory named with its technology, or an         *)
(* accessory noun beside no word for a component; with such a word the noun  *)
(* is incidental.                                                            *)
Technology == matchesAny(listing.title, {"sas cable", "power cable", "nvme ssd backplane"})
AccessoryNoun == matchesAny(listing.title, {"rails", "backplane", "heatsink"})

ComputerTitle ==
  /\ matchesAny(listing.title, {"thinkstation", "optiplex", "prodesk"})
  /\ matchesAny(listing.title, {"gold 6148", "xeon", "256gb ram", "windows 11"})
PartTitle == Technology \/ (AccessoryNoun /\ ~IsPrimary(listing.title))
IncidentalNoun == ~Technology /\ AccessoryNoun /\ IsPrimary(listing.title)

(* The order of the short cuts in ClassifyAndExtract and the lists they go   *)
(* by.  A complete computer is never filed under "other" because it is sold  *)
(* with a cable or rails; a part is filed there without an LLM call, so that *)
(* it never joins the baseline of the component it is for (all of "other"    *)
(* shares the key other:other, productkey.go:65, and that one's baseline);   *)
(* and a component sold with an accessory is never filed there.              *)
TitleDecides ==
  pc = "done" =>
    /\ ComputerTitle => ct \in {"workstation", "desktop"}
    /\ PartTitle /\ ~ComputerTitle => outcome = "ok" /\ ct = "other" /\ answered = 0
    /\ IncidentalNoun => ~(outcome = "ok" /\ ct = "other")

=============================================================================
