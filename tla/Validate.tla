------------------------------ MODULE Validate -------------------------------
(* The validator of extracted attributes: pkg/extract/validate.go.  A rule   *)
(* is a predicate on the attribute map; a required field must be present     *)
(* with the right JSON type, an optional one is checked only when it is.     *)
EXTENDS Normalize

NonEmpty(attrs, k) == IsStr(attrs, k) /\ attrs[k].s # ""
NamePresent(attrs, k) == IsStr(attrs, k) /\ attrs[k].s # NoName
Enum(attrs, k, values) == IsStr(attrs, k) /\ attrs[k].s \in values
Between(attrs, k, lo, hi) == IsNum(attrs, k) /\ attrs[k].n \in lo .. hi
OptEnum(attrs, k, values) == IsStr(attrs, k) => attrs[k].s \in values
OptBetween(attrs, k, lo, hi) == IsNum(attrs, k) => attrs[k].n \in lo .. hi

(* The condition is normalised before it is compared, so that only its       *)
(* absence fails; confidence is in hundredths.                               *)
validateCommon(attrs) ==
  /\ IsStr(attrs, "condition")
  /\ Between(attrs, "confidence", 0, 100)
  /\ IsNum(attrs, "quantity") => attrs["quantity"].n >= 1

validateRAM(attrs) ==
  /\ Between(attrs, "capacity_gb", 1, 1024)
  /\ Enum(attrs, "generation", {"DDR3", "DDR4", "DDR5"})
  /\ OptBetween(attrs, "speed_mhz", 800, 8400)

validateDrive(attrs) ==
  /\ NonEmpty(attrs, "capacity")
  /\ Enum(attrs, "interface", {"SAS", "SATA", "NVMe", "U.2"})
  /\ OptEnum(attrs, "form_factor", {"2.5", "3.5"})
  /\ OptEnum(attrs, "type", {"SSD", "HDD"})

validateServer(attrs) ==
  /\ NonEmpty(attrs, "manufacturer")
  /\ NamePresent(attrs, "model")
  /\ OptEnum(attrs, "form_factor", {"1U", "2U", "3U", "4U", "5U", "6U", "7U", "8U", "10U", "tower"})

validateCPURequired(attrs) ==
  /\ Enum(attrs, "manufacturer", {"Intel", "AMD"})
  /\ Enum(attrs, "family", {"Xeon", "EPYC"})
  /\ NamePresent(attrs, "model")

(* The base clock is in tenths of a GHz.                                     *)
validateCPUOptional(attrs) ==
  /\ OptBetween(attrs, "cores", 1, 256)
  /\ OptBetween(attrs, "base_clock_ghz", 5, 60)
  /\ OptBetween(attrs, "tdp_watts", 10, 500)

validateCPU(attrs) == validateCPURequired(attrs) /\ validateCPUOptional(attrs)

validateNIC(attrs) ==
  /\ Enum(attrs, "speed", {"1GbE", "10GbE", "25GbE", "40GbE", "100GbE"})
  /\ Between(attrs, "port_count", 1, 8)
  /\ OptEnum(attrs, "port_type", {"SFP+", "SFP28", "QSFP+", "QSFP28", "RJ45", "BaseT"})

validateGPURequired(attrs) ==
  /\ Enum(attrs, "manufacturer", {"NVIDIA", "AMD", "Intel"})
  /\ NamePresent(attrs, "model")
  /\ Between(attrs, "vram_gb", 1, 256)

validateGPUOptional(attrs) ==
  /\ OptEnum(attrs, "memory_type", {"GDDR5", "GDDR6", "GDDR6X", "HBM2", "HBM2e", "HBM3"})
  /\ OptEnum(attrs, "interface", {"PCIe 3.0 x16", "PCIe 4.0 x16", "PCIe 5.0 x16", "SXM2", "SXM4", "SXM5"})
  /\ OptBetween(attrs, "tdp_watts", 15, 700)
  /\ OptEnum(attrs, "form_factor", {"single_slot", "dual_slot", "triple_slot", "FHFL", "HHHL", "LP"})
  /\ OptEnum(attrs, "cooling", {"passive", "active", "blower"})

validateGPU(attrs) == validateGPURequired(attrs) /\ validateGPUOptional(attrs)

(* Workstations and desktops share one schema.                               *)
validateSystemAttrs(attrs) ==
  /\ NonEmpty(attrs, "vendor")
  /\ NamePresent(attrs, "model")
  /\ OptEnum(attrs, "form_factor", {"tower", "sff", "micro", "mini"})
  /\ OptBetween(attrs, "ram_gb", 1, 8192)
  /\ OptBetween(attrs, "storage_gb", 1, 1048576)

ValidateExtraction(ct, attrs) ==
  /\ validateCommon(attrs)
  /\ CASE ct = "ram" -> validateRAM(attrs)
       [] ct = "drive" -> validateDrive(attrs)
       [] ct = "server" -> validateServer(attrs)
       [] ct = "cpu" -> validateCPU(attrs)
       [] ct = "nic" -> validateNIC(attrs)
       [] ct = "gpu" -> validateGPU(attrs)
       [] ct \in {"workstation", "desktop"} -> validateSystemAttrs(attrs)
       [] OTHER -> TRUE

(* The validator writes the normalised condition back.                       *)
WithCondition(attrs) == Put(attrs, "condition", S(NormalizeCondition(attrs["condition"].s)))

=============================================================================
