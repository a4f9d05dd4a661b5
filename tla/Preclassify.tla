----------------------------- MODULE Preclassify -----------------------------
(* The regular-expression pre-classifiers that run before the LLM:           *)
(* pkg/extract/preclassify.go and pkg/extract/system_preclassify.go.         *)
(*                                                                           *)
(* A title is the set of the phrases it contains, and a list of patterns is  *)
(* the set of the phrases that at least one of its patterns matches.  What   *)
(* matters is how the lists overlap: one phrase is often in several of them  *)
(* ("256gb ram" says that a system is complete and is a primary component,   *)
(* "prodesk" is a desktop chassis but no primary component).                 *)
(* Phrases are taken to stand apart, so that no pattern matches across two.  *)
(* Case is left out: every function lowercases its input first.              *)
EXTENDS FiniteSets

(* Accessory nouns qualified by a technology word: "sas cable".              *)
compoundAccessoryPatterns == {"sas cable", "power cable", "nvme ssd backplane"}

(* Accessory nouns.  "sas cable" holds the word cable, "nvme ssd backplane"  *)
(* the word backplane, so the compound phrases are here too.                 *)
accessoryPatterns == {"rails", "backplane", "heatsink"} \cup compoundAccessoryPatterns

(* Words that say the listing is the component and not a part for it.        *)
(* "dell pro" counts with a form factor word elsewhere in the title.         *)
primaryComponentPatterns ==
  {"ddr4", "ddr4-2400", "sas cable", "nvme ssd backplane", "xeon", "256gb ram", "32gb", "1u",
   "barebone", "gold 6148", "thinkstation", "optiplex", "a100"}

(* Chassis words of the two kinds of complete system.                        *)
workstationTitlePrimaries == {"thinkstation"}

desktopTitlePrimaries == {"optiplex", "prodesk"}

(* Signs that the listing is a whole computer.                               *)
systemCompletenessSignals == {"gold 6148", "xeon", "256gb ram", "windows 11"}

(* Every phrase the lists tell apart, the RAM and server phrases that the    *)
(* normaliser reads from the title, and a phrase no list mentions.           *)
Phrases == accessoryPatterns \cup primaryComponentPatterns \cup systemCompletenessSignals
             \cup desktopTitlePrimaries
             \cup {"dell pro", "tower", "no cpu", "pc4-21300", "ddr4-2400", "poweredge r740"}

matchesAny(title, patterns) == title \cap patterns # {}

IsPrimary(title) ==
  \/ matchesAny(title, primaryComponentPatterns)
  \/ {"dell pro", "tower"} \subseteq title

(* Accessories by compound phrase, or by noun with no primary word.          *)
IsAccessoryOnly(title) ==
  \/ matchesAny(title, compoundAccessoryPatterns)
  \/ matchesAny(title, accessoryPatterns) /\ ~IsPrimary(title)

(* "" leaves the decision to the next classifier.                            *)
DetectSystemTypeFromTitle(title) ==
  IF ~matchesAny(title, systemCompletenessSignals) THEN ""
  ELSE IF matchesAny(title, workstationTitlePrimaries) THEN "workstation"
  ELSE IF matchesAny(title, desktopTitlePrimaries) THEN "desktop"
  ELSE ""

-----------------------------------------------------------------------------
(* eBay item specifics: the value under each key is the set of the words it  *)
(* contains, empty when the key is absent.  Series and product line are read *)
(* together, and so are form factor and type.                                *)
SpecKeys == {"most suitable for", "series", "product line", "form factor", "type"}

NoSpecifics == [k \in SpecKeys |-> {}]

workstationSeriesTokens == {"thinkstation", "precision", "z by hp", "pro max"}

desktopSeriesTokens == {"optiplex", "thinkcentre", "elitedesk", "prodesk"}

desktopFormFactorTokens == {"tower", "desktop", "sff", "micro"}

(* The word "pro max" contains the token pro, "prosupport" does not.         *)
HasProToken(words) == words \cap {"pro", "pro max"} # {}

normaliseSpecs(specs) == [combined |-> specs["series"] \cup specs["product line"],
                          form |-> specs["form factor"] \cup specs["type"]]

DetectSystemTypeFromSpecifics(specs) ==
  LET norm == normaliseSpecs(specs) IN
  IF "workstation" \in specs["most suitable for"] THEN "workstation"
  ELSE IF matchesAny(norm.combined, workstationSeriesTokens) THEN "workstation"
  ELSE IF matchesAny(norm.combined, desktopSeriesTokens) THEN "desktop"
  ELSE IF HasProToken(norm.combined) /\ matchesAny(norm.form, desktopFormFactorTokens)
       THEN "desktop" ELSE ""

=============================================================================
