----------------------------- MODULE MicInfo_proofs ---------------------------
(***************************************************************************)
(* mpssinfo and micinfo, for any cards and any command line.  What a line   *)
(* of the display may read is settled by the tables of MicLib and MicInfo:  *)
(* the first lemmas state what the argument takes from them.  The invariant *)
(* then follows a section: the structures asked for, and of each the        *)
(* requests made, are a first part of what the tables name.                 *)
(***************************************************************************)
EXTENDS MicInfo, FiniteSetTheorems, SequenceTheorems,
        WellFoundedInduction, TLAPS

-------------------------------------------------------------------------------
(* The inductive invariant, in named parts.                                  *)

Before == {"options", "scan", "rescan"}
Within == {"section", "fetch", "lines"}
Places == Before \cup Within \cup {"open", "close", "exit", "dead"}
SectionNames == {"ver", "board", "cores", "thermal", "gddr", "list"}
Facts == {"access", "boot", "fan"}

(* The command line: an option is counted once for each word at most, and a  *)
(* device that was named and not taken back is a card.                       *)
OptionInv ==
  /\ progname \in {"mpssinfo", "micinfo"} /\ words \in 0..MaxWords
  /\ cnt \in [Options -> 0..MaxWords] /\ func \in Options
  /\ device \in Cards \cup {NoCard} /\ group \in Groups
  /\ error_cnt \in {0, 1} /\ required \in BOOLEAN
  /\ \A o \in Options : cnt[o] <= words
  /\ cnt["device"] # 0 => device \in Cards

(* What the exit code says of the cards that have been tried.                *)
Honest == ret = 0 <=> IF func = "list" /\ card # NoCard THEN card \notin failed
                      ELSE failed = {}

CardInv ==
  /\ place \in Places
  /\ first \in 0..Cardinality(Cards) /\ todo \subseteq Cards /\ card \in Cards \cup {NoCard}
  /\ failed \subseteq Cards \ todo /\ ret \in {-1, 0, 1}
  /\ place \in Before => card = NoCard /\ failed = {} /\ ret = 0
  /\ place \in Within \cup {"close"} => card \in Cards \ todo
  /\ place \notin {"exit", "dead"} \/ card # NoCard => Honest

(* The variable of get_processor_info() and its stream.                      *)
StreamInv ==
  /\ jam \in BOOLEAN /\ odd \in BOOLEAN /\ mixed \in BOOLEAN
  /\ jam \/ mixed => odd

(* q is a last part of whole; Passed is how much of whole lies before it.    *)
Rest(q, whole) ==
  /\ Len(q) <= Len(whole)
  /\ \A i \in 1..Len(q) : q[i] = whole[i + (Len(whole) - Len(q))]
Passed(q, whole) == Len(whole) - Len(q)

Needs == Section[Head(sections)].needs
OnHost == {"pci", "processor"}   \* filled without asking the card

(* The first n requests of a structure have been answered, those that were   *)
(* to be made.                                                               *)
Obtained(k, n) == \A i \in 1..n : Fill[k][i].when \subseteq facts => Fill[k][i].name \in got

(* Which structure of the section is being filled, and which of its requests *)
(* comes next.                                                               *)
Nth == Passed(needs, Needs) + 1
Due == Passed(requests, Fill[Head(needs)]) + 1

(* The first n structures of the section were filled, or freed by the        *)
(* library because the driver is not there; the others are not there yet.    *)
Filled(n) ==
  /\ \A i \in 1..n :
       \/ held[Needs[i]] = "live" /\ Obtained(Needs[i], Len(Fill[Needs[i]]))
       \/ held[Needs[i]] = "gone" /\ no_driver /\ Needs[i] \notin OnHost
  /\ \A k \in Kinds : held[k] # "none" => \E i \in 1..n : k = Needs[i]
  /\ no_driver => \E k \in Kinds : held[k] = "gone"

(* What the buffer of the texts may hold.                                    *)
Own(text) == text = "garbage" \/ (text \in Texts /\ Given(text))

(* What a field needs to have been settled when its request waits for it.    *)
Waits(field) == IF field \in {"fan_rpm", "fan_pwm"} THEN {"fan"}
                ELSE IF field = "smc_boot_loader_ver" THEN {"boot"} ELSE {}

(* A line can be shown: its structure is held, and the request its value     *)
(* comes from has been answered unless the line is to be withheld.           *)
Backed(line) ==
  /\ line.when = Waits(line.field)
  /\ \/ line.field \in Direct
     \/ /\ held[KindOf(line.field)] = "live"
        /\ line.when \subseteq facts => Getters[KindOf(line.field)][line.field] \in got

(* Two lines may be left unwritten after another text: a line before them    *)
(* always writes the buffer.                                                 *)
Late == {"uos_version", "silicon_sku"}
Writer(field) == IF field = "uos_version" THEN "smc_fwversion" ELSE "processor_stepping"
Follows(ls) ==
  \A i \in 1..Len(ls) :
    ls[i].field \in Late => \E j \in 1..(i - 1) : ls[j].field = Writer(ls[i].field)

SectionInv ==
  /\ place \in Within =>
       /\ sections \in Seq(SectionNames)
       /\ \A i \in 1..Len(sections) : sections[i] = "list" <=> func = "list"
  /\ place \in {"fetch", "lines"} => sections # <<>>
  /\ held \in [Kinds -> {"none", "live", "gone"}] /\ no_driver \in BOOLEAN
  /\ facts \subseteq Facts
  /\ shown # <<>> => place = "lines"

FetchInv ==
  place = "fetch" =>
    /\ needs \in Seq(Kinds) /\ needs # <<>> /\ Rest(needs, Needs)
    /\ requests \in Seq(Range(Fill[Head(needs)])) /\ requests # <<>>
    /\ Rest(requests, Fill[Head(needs)])
    /\ Filled(Passed(needs, Needs))
    /\ Obtained(Head(needs), Passed(requests, Fill[Head(needs)]))
    /\ str = "garbage"

LinesInv ==
  place = "lines" =>
    /\ Filled(Len(Needs))
    /\ lines \in Seq(Range(lines))
    /\ \A line \in Range(lines) : Backed(line)
    /\ Own(str) /\ (str = "garbage" => Follows(lines))
    /\ ShownAnswered

(* Between the sections a structure is kept only when another was lost.      *)
KeptInv ==
  /\ place \in Before \cup {"open"} => held = NoPointers
  /\ place \in {"section", "close"} /\ func # "list" /\ (\E k \in Kinds : held[k] = "live")
       => \E k \in Kinds : held[k] = "gone"

DisplayInv == SectionInv /\ FetchInv /\ LinesInv /\ KeptInv

IInv == OptionInv /\ CardInv /\ StreamInv /\ DisplayInv

-------------------------------------------------------------------------------
(* What the tables say.                                                      *)

(* Which requests wait for a fact, and which settle one: a fact is settled   *)
(* before every request that waits for it.  The last request of a structure  *)
(* never waits.                                                              *)
RequestOk(k, i) ==
  LET r == Fill[k][i]
  IN /\ r.when # {} => k = "thermal" /\ i > 2 /\ r.when \subseteq {"boot", "fan"}
     /\ r.tells # {} => \/ k = "thermal" /\ i <= 2 /\ r.tells \subseteq {"boot", "fan"}
                        \/ k = "pci" /\ r.tells = {"access"}
     /\ r.by \in {"ras", "sysfs", "hex"} /\ (r.by = "ras" => k \notin OnHost)

(* Long tuples are sequences. *)
LEMMA Six ==
  ASSUME NEW x1, NEW x2, NEW x3, NEW x4, NEW x5, NEW x6
  PROVE  LET s == <<x1, x2, x3, x4, x5, x6>> IN Len(s) = 6 /\ s \in Seq(Range(s))
  BY DEF Range

LEMMA Fifteen ==
  ASSUME NEW x1, NEW x2, NEW x3, NEW x4, NEW x5, NEW x6, NEW x7,
         NEW x8, NEW x9, NEW x10, NEW x11, NEW x12, NEW x13, NEW x14, NEW x15
  PROVE  LET s == <<x1, x2, x3, x4, x5, x6, x7, x8, x9, x10, x11, x12, x13, x14, x15>>
         IN Len(s) = 15 /\ s \in Seq(Range(s))
  BY DEF Range

(* The requests, one by one. *)
Is(r, name, by, when, tells) ==
  r.name = name /\ r.by = by /\ r.when = when /\ r.tells = tells

LEMMA Requests ==
  ASSUME NEW n, NEW x
  PROVE  /\ Is(Ras(n), n, "ras", {}, {}) /\ Is(Sysfs(n), n, "sysfs", {}, {})
         /\ Is(Hex(n), n, "hex", {}, {})
         /\ Is([Ras(n) EXCEPT !.tells = x], n, "ras", {}, x)
         /\ Is([Sysfs(n) EXCEPT !.tells = x], n, "sysfs", {}, x)
         /\ Is([Ras(n) EXCEPT !.when = x], n, "ras", x, {})
  BY DEF Ras, Sysfs, Hex, Is

LEMMA PciTable ==
  /\ Len(Fill["pci"]) = 3 /\ Fill["pci"] \in Seq(Range(Fill["pci"]))
  /\ Is(Fill["pci"][1], "PCI_CLASS", "sysfs", {}, {})
  /\ Is(Fill["pci"][2], "PCI_SLOT_NAME", "sysfs", {}, {})
  /\ Is(Fill["pci"][3], "config", "sysfs", {}, {"access"})
<1>1. Fill["pci"] = PciRequests
  BY DEF Fill
<1>2. Len(PciRequests) = 3 /\ PciRequests \in Seq(Range(PciRequests))
  BY DEF PciRequests, Range
<1>3. Is(PciRequests[1], "PCI_CLASS", "sysfs", {}, {})
  BY Requests DEF PciRequests
<1>4. Is(PciRequests[2], "PCI_SLOT_NAME", "sysfs", {}, {})
  BY Requests DEF PciRequests
<1>5. Is(PciRequests[3], "config", "sysfs", {}, {"access"})
  BY Requests DEF PciRequests
<1> QED
  BY <1>1, <1>2, <1>3, <1>4, <1>5

LEMMA ProcessorTable ==
  /\ Len(Fill["processor"]) = 8 /\ Fill["processor"] \in Seq(Range(Fill["processor"]))
  /\ Is(Fill["processor"][1], "model", "hex", {}, {})
  /\ Is(Fill["processor"][2], "model_ext", "hex", {}, {})
  /\ Is(Fill["processor"][3], "type", "hex", {}, {})
  /\ Is(Fill["processor"][4], "family", "hex", {}, {})
  /\ Is(Fill["processor"][5], "family_ext", "hex", {}, {})
  /\ Is(Fill["processor"][6], "stepping", "sysfs", {}, {})
  /\ Is(Fill["processor"][7], "stepping_data", "hex", {}, {})
  /\ Is(Fill["processor"][8], "substepping_data", "hex", {}, {})
<1>1. Fill["processor"] = ProcessorRequests
  BY DEF Fill
<1>2. Len(ProcessorRequests) = 8 /\ ProcessorRequests \in Seq(Range(ProcessorRequests))
  BY DEF ProcessorRequests, Range
<1>3. Is(ProcessorRequests[1], "model", "hex", {}, {})
  BY Requests DEF ProcessorRequests
<1>4. Is(ProcessorRequests[2], "model_ext", "hex", {}, {})
  BY Requests DEF ProcessorRequests
<1>5. Is(ProcessorRequests[3], "type", "hex", {}, {})
  BY Requests DEF ProcessorRequests
<1>6. Is(ProcessorRequests[4], "family", "hex", {}, {})
  BY Requests DEF ProcessorRequests
<1>7. Is(ProcessorRequests[5], "family_ext", "hex", {}, {})
  BY Requests DEF ProcessorRequests
<1>8. Is(ProcessorRequests[6], "stepping", "sysfs", {}, {})
  BY Requests DEF ProcessorRequests
<1>9. Is(ProcessorRequests[7], "stepping_data", "hex", {}, {})
  BY Requests DEF ProcessorRequests
<1>10. Is(ProcessorRequests[8], "substepping_data", "hex", {}, {})
  BY Requests DEF ProcessorRequests
<1> QED
  BY <1>1, <1>2, <1>3, <1>4, <1>5, <1>6, <1>7, <1>8, <1>9, <1>10

LEMMA ThermalTable ==
  /\ Len(Fill["thermal"]) = 6 /\ Fill["thermal"] \in Seq(Range(Fill["thermal"]))
  /\ Is(Fill["thermal"][1], "SMC_FW_VER", "ras", {}, {"boot"})
  /\ Is(Fill["thermal"][2], "SMC_HW_REV", "ras", {}, {"fan"})
  /\ Is(Fill["thermal"][3], "SMC_BOOT_LOADER_VER", "ras", {"boot"}, {})
  /\ Is(Fill["thermal"][4], "SMC_FAN_PWM", "ras", {"fan"}, {})
  /\ Is(Fill["thermal"][5], "SMC_FAN_RPM", "ras", {"fan"}, {})
  /\ Is(Fill["thermal"][6], "TEMP", "ras", {}, {})
<1>1. Fill["thermal"] = ThermalRequests
  BY DEF Fill
<1>2. Len(ThermalRequests) = 6 /\ ThermalRequests \in Seq(Range(ThermalRequests))
  BY Six DEF ThermalRequests
<1>3. Is(ThermalRequests[1], "SMC_FW_VER", "ras", {}, {"boot"})
  BY Requests DEF ThermalRequests
<1>4. Is(ThermalRequests[2], "SMC_HW_REV", "ras", {}, {"fan"})
  BY Requests DEF ThermalRequests
<1>5. Is(ThermalRequests[3], "SMC_BOOT_LOADER_VER", "ras", {"boot"}, {})
  BY Requests DEF ThermalRequests
<1>6. Is(ThermalRequests[4], "SMC_FAN_PWM", "ras", {"fan"}, {})
  BY Requests DEF ThermalRequests
<1>7. Is(ThermalRequests[5], "SMC_FAN_RPM", "ras", {"fan"}, {})
  BY Requests DEF ThermalRequests
<1>8. Is(ThermalRequests[6], "TEMP", "ras", {}, {})
  BY Requests DEF ThermalRequests
<1> QED
  BY <1>1, <1>2, <1>3, <1>4, <1>5, <1>6, <1>7, <1>8

LEMMA MemoryTable ==
  /\ Len(Fill["memory"]) = 5 /\ Fill["memory"] \in Seq(Range(Fill["memory"]))
  /\ Is(Fill["memory"][1], "GDDR", "ras", {}, {})
  /\ Is(Fill["memory"][2], "memsize", "sysfs", {}, {})
  /\ Is(Fill["memory"][3], "GFREQ", "ras", {}, {})
  /\ Is(Fill["memory"][4], "GVOLT", "ras", {}, {})
  /\ Is(Fill["memory"][5], "ECC", "ras", {}, {})
<1>1. Fill["memory"] = MemoryRequests
  BY DEF Fill
<1>2. Len(MemoryRequests) = 5 /\ MemoryRequests \in Seq(Range(MemoryRequests))
  BY DEF MemoryRequests, Range
<1>3. Is(MemoryRequests[1], "GDDR", "ras", {}, {})
  BY Requests DEF MemoryRequests
<1>4. Is(MemoryRequests[2], "memsize", "sysfs", {}, {})
  BY Requests DEF MemoryRequests
<1>5. Is(MemoryRequests[3], "GFREQ", "ras", {}, {})
  BY Requests DEF MemoryRequests
<1>6. Is(MemoryRequests[4], "GVOLT", "ras", {}, {})
  BY Requests DEF MemoryRequests
<1>7. Is(MemoryRequests[5], "ECC", "ras", {}, {})
  BY Requests DEF MemoryRequests
<1> QED
  BY <1>1, <1>2, <1>3, <1>4, <1>5, <1>6, <1>7

LEMMA VersionTable ==
  /\ Len(Fill["version"]) = 1 /\ Fill["version"] \in Seq(Range(Fill["version"]))
  /\ Is(Fill["version"][1], "VER", "ras", {}, {})
<1>1. Fill["version"] = VersionRequests
  BY DEF Fill
<1>2. Len(VersionRequests) = 1 /\ VersionRequests \in Seq(Range(VersionRequests))
  BY DEF VersionRequests, Range
<1>3. Is(VersionRequests[1], "VER", "ras", {}, {})
  BY Requests DEF VersionRequests
<1> QED
  BY <1>1, <1>2, <1>3

LEMMA CoresTable ==
  /\ Len(Fill["cores"]) = 3 /\ Fill["cores"] \in Seq(Range(Fill["cores"]))
  /\ Is(Fill["cores"][1], "CLST", "ras", {}, {})
  /\ Is(Fill["cores"][2], "CFREQ", "ras", {}, {})
  /\ Is(Fill["cores"][3], "CVOLT", "ras", {}, {})
<1>1. Fill["cores"] = CoresRequests
  BY DEF Fill
<1>2. Len(CoresRequests) = 3 /\ CoresRequests \in Seq(Range(CoresRequests))
  BY DEF CoresRequests, Range
<1>3. Is(CoresRequests[1], "CLST", "ras", {}, {})
  BY Requests DEF CoresRequests
<1>4. Is(CoresRequests[2], "CFREQ", "ras", {}, {})
  BY Requests DEF CoresRequests
<1>5. Is(CoresRequests[3], "CVOLT", "ras", {}, {})
  BY Requests DEF CoresRequests
<1> QED
  BY <1>1, <1>2, <1>3, <1>4, <1>5

LEMMA FillFacts ==
  ASSUME NEW k \in Kinds
  PROVE  /\ Fill[k] \in Seq(Range(Fill[k])) /\ Len(Fill[k]) \in Nat \ {0}
         /\ \A i \in 1..Len(Fill[k]) : RequestOk(k, i)
         /\ Fill[k][Len(Fill[k])].when = {}
<1> USE DEF Is, RequestOk, OnHost
<1>1. CASE k = "pci"
  BY <1>1, PciTable
<1>2. CASE k = "processor"
  BY <1>2, ProcessorTable
<1>3. CASE k = "thermal"
  BY <1>3, ThermalTable
<1>4. CASE k = "memory"
  BY <1>4, MemoryTable
<1>5. CASE k = "version"
  BY <1>5, VersionTable
<1>6. CASE k = "cores"
  BY <1>6, CoresTable
<1> QED
  BY <1>1, <1>2, <1>3, <1>4, <1>5, <1>6 DEF Kinds

(* The fields of a structure, and that no two structures share one.          *)
Fields(k) ==
  CASE k = "pci" -> {"class_code", "domain", "bus_no", "device_no", "vendor_id",
                     "device_id", "revision_id", "subsystem_id", "link_speed", "link_width",
                     "max_payload", "max_readreq"}
    [] k = "processor" -> {"processor_model", "processor_model_ext", "processor_type",
                           "processor_family", "processor_family_ext",
                           "processor_stepping", "processor_steppingid"}
    [] k = "thermal" -> {"fsc_status", "fan_rpm", "fan_pwm", "smc_fwversion",
                         "smc_hwrevision", "smc_boot_loader_ver"} \cup Temperatures
    [] k = "memory" -> {"memory_vendor", "memory_revision", "memory_density",
                        "memory_speed", "memory_type", "memory_size", "memory_frequency",
                        "memory_voltage", "ecc_mode"}
    [] k = "version" -> {"uos_version", "flash_version"}
    [] k = "cores" -> {"cores_count", "cores_frequency", "cores_voltage"}

LEMMA ThermalGetters ==
  LET T == ThermalInfo
  IN /\ DOMAIN T = Fields("thermal")
     /\ T["fsc_status"] = "SMC_HW_REV" /\ T["fan_rpm"] = "SMC_FAN_RPM"
     /\ T["fan_pwm"] = "SMC_FAN_PWM" /\ \A t \in Temperatures : T[t] = "TEMP"
     /\ T["smc_fwversion"] = "SMC_FW_VER" /\ T["smc_hwrevision"] = "SMC_HW_REV"
     /\ T["smc_boot_loader_ver"] = "SMC_BOOT_LOADER_VER"
<1>1. DOMAIN ThermalTexts = {"smc_fwversion", "smc_hwrevision", "smc_boot_loader_ver"}
  BY DEF ThermalTexts
<1>2. DOMAIN ThermalValues = {"fsc_status", "fan_rpm", "fan_pwm"} \cup Temperatures
  BY DEF ThermalValues, Temperatures
<1>3. /\ ThermalValues["fsc_status"] = "SMC_HW_REV"
      /\ ThermalValues["fan_rpm"] = "SMC_FAN_RPM"
      /\ ThermalValues["fan_pwm"] = "SMC_FAN_PWM"
      /\ \A t \in Temperatures : ThermalValues[t] = "TEMP"
  BY DEF ThermalValues, Temperatures
<1>4. /\ ThermalTexts["smc_fwversion"] = "SMC_FW_VER"
      /\ ThermalTexts["smc_hwrevision"] = "SMC_HW_REV"
      /\ ThermalTexts["smc_boot_loader_ver"] = "SMC_BOOT_LOADER_VER"
  BY DEF ThermalTexts
<1> QED
  BY <1>1, <1>2, <1>3, <1>4 DEF ThermalInfo, Fields, Temperatures

LEMMA FieldFacts ==
  ASSUME NEW k \in Kinds
  PROVE  DOMAIN Getters[k] = Fields(k)
<1>1. CASE k = "pci"
  BY <1>1 DEF Getters, PciConfig, Fields
<1>2. CASE k = "processor"
  BY <1>2 DEF Getters, ProcessorInfo, Fields
<1>3. CASE k = "thermal"
  BY <1>3, ThermalGetters DEF Getters
<1>4. CASE k = "memory"
  BY <1>4 DEF Getters, MemoryInfo, Fields
<1>5. CASE k = "version"
  BY <1>5 DEF Getters, VersionInfo, Fields
<1>6. CASE k = "cores"
  BY <1>6 DEF Getters, CoresInfo, Fields
<1> QED
  BY <1>1, <1>2, <1>3, <1>4, <1>5, <1>6 DEF Kinds

LEMMA OneKind ==
  ASSUME NEW k \in Kinds, NEW field \in Fields(k)
  PROVE  KindOf(field) = k
<1>1. ASSUME NEW j \in Kinds, field \in Fields(j) PROVE j = k
  BY <1>1 DEF Kinds, Fields, Temperatures
<1>2. \A j \in Kinds : field \in DOMAIN Getters[j] <=> j = k
  BY <1>1, FieldFacts
<1> QED
  BY <1>2 DEF KindOf

LEMMA GetterFacts ==
  ASSUME NEW k \in Kinds, NEW field \in Fields(k)
  PROVE  \E i \in 1..Len(Fill[k]) :
           Fill[k][i].name = Getters[k][field] /\ Fill[k][i].when = Waits(field)
<1> DEFINE At(i) == Fill[k][i].name = Getters[k][field] /\ Fill[k][i].when = Waits(field)
<1>1. CASE k = "pci"
  <2>1. Getters[k] = PciConfig /\ Len(Fill[k]) = 3
    BY <1>1, PciTable DEF Getters
  <2>2. At(1) \/ At(2) \/ At(3)
    BY <1>1, <2>1, PciTable DEF PciConfig, Is, Waits, Fields
  <2> QED  BY <2>1, <2>2
<1>2. CASE k = "processor"
  <2>1. Getters[k] = ProcessorInfo /\ Len(Fill[k]) = 8
    BY <1>2, ProcessorTable DEF Getters
  <2>2. At(1) \/ At(2) \/ At(3) \/ At(4) \/ At(5) \/ At(6) \/ At(7) \/ At(8)
    BY <1>2, <2>1, ProcessorTable DEF ProcessorInfo, Is, Waits, Fields
  <2> QED  BY <2>1, <2>2
<1>3. CASE k = "thermal"
  <2>1. Getters[k] = ThermalInfo /\ Len(Fill[k]) = 6
    BY <1>3, ThermalTable DEF Getters
  <2>2. At(1) \/ At(2) \/ At(3) \/ At(4) \/ At(5) \/ At(6)
    BY <1>3, <2>1, ThermalTable, ThermalGetters DEF Temperatures, Is, Waits, Fields
  <2> QED  BY <2>1, <2>2
<1>4. CASE k = "memory"
  <2>1. Getters[k] = MemoryInfo /\ Len(Fill[k]) = 5
    BY <1>4, MemoryTable DEF Getters
  <2>2. At(1) \/ At(2) \/ At(3) \/ At(4) \/ At(5)
    BY <1>4, <2>1, MemoryTable DEF MemoryInfo, Is, Waits, Fields
  <2> QED  BY <2>1, <2>2
<1>5. CASE k = "version"
  <2>1. Getters[k] = VersionInfo /\ Len(Fill[k]) = 1
    BY <1>5, VersionTable DEF Getters
  <2>2. At(1)
    BY <1>5, <2>1, VersionTable DEF VersionInfo, Is, Waits, Fields
  <2> QED  BY <2>1, <2>2
<1>6. CASE k = "cores"
  <2>1. Getters[k] = CoresInfo /\ Len(Fill[k]) = 3
    BY <1>6, CoresTable DEF Getters
  <2>2. At(1) \/ At(2) \/ At(3)
    BY <1>6, <2>1, CoresTable DEF CoresInfo, Is, Waits, Fields
  <2> QED  BY <2>1, <2>2
<1> QED
  BY <1>1, <1>2, <1>3, <1>4, <1>5, <1>6 DEF Kinds

(* A line of a section that asked for the structures ks.                     *)
LineOf(line, ks) ==
  \/ line.field \in Direct /\ Waits(line.field) = line.when
  \/ \E k \in ks : line.field \in Fields(k) /\ Waits(line.field) = line.when

LEMMA Plain ==
  ASSUME NEW field, NEW k, NEW ks, k \in ks,
         field \in Direct \cup Fields(k), Waits(field) = {}
  PROVE  LineOf(Line(field), ks)
  BY DEF LineOf, Line

LEMMA SectionFacts ==
  ASSUME NEW s \in SectionNames
  PROVE  LET S == Section[s]
             asked == Range(S.needs)
         IN /\ S.needs \in Seq(Kinds) /\ Len(S.needs) \in Nat \ {0}
            /\ \A i, j \in 1..Len(S.needs) : S.needs[i] = S.needs[j] => i = j
            /\ S.frees \subseteq OnHost \cap asked /\ S.driver_frees \subseteq asked
            /\ s # "list" => asked \subseteq S.frees \cup S.driver_frees
<1> USE DEF Kinds, OnHost, Range
<1>1. CASE s = "ver"
  <2>1. Section[s] = version_info
    BY <1>1 DEF Section
  <2> QED  BY <1>1, <2>1 DEF version_info
<1>2. CASE s = "board"
  <2>1. Section[s] = board_info
    BY <1>2 DEF Section
  <2> QED  BY <1>2, <2>1 DEF board_info
<1>3. CASE s = "cores"
  <2>1. Section[s] = cores_info
    BY <1>3 DEF Section
  <2> QED  BY <1>3, <2>1 DEF cores_info
<1>4. CASE s = "thermal"
  <2>1. Section[s] = thermal_info
    BY <1>4 DEF Section
  <2> QED  BY <1>4, <2>1 DEF thermal_info
<1>5. CASE s = "gddr"
  <2>1. Section[s] = memory_info
    BY <1>5 DEF Section
  <2> QED  BY <1>5, <2>1 DEF memory_info
<1>6. CASE s = "list"
  <2>1. Section[s] = show_list
    BY <1>6 DEF Section
  <2> QED  BY <1>6, <2>1 DEF show_list
<1> QED
  BY <1>1, <1>2, <1>3, <1>4, <1>5, <1>6 DEF SectionNames

LEMMA LineFacts ==
  ASSUME NEW s \in SectionNames
  PROVE  LET S == Section[s]
             asked == Range(S.needs)
         IN /\ S.lines \in Seq(Range(S.lines)) /\ S.driver \in Seq(Range(S.driver))
            /\ \A line \in Range(S.lines) : LineOf(line, OnHost \cap asked)
            /\ \A line \in Range(S.driver) : LineOf(line, asked)
<1>1. CASE s = "ver"
  <2>1. Section[s] = version_info
    BY <1>1 DEF Section
  <2>2. /\ Range(version_info.needs) = {"version", "thermal"}
        /\ OnHost \cap {"version", "thermal"} = {}
    BY DEF version_info, Range, OnHost
  <2>3. /\ version_info.lines \in Seq(Range(version_info.lines))
        /\ version_info.driver \in Seq(Range(version_info.driver))
    BY Fifteen DEF version_info, Range
  <2>4. Range(version_info.lines) = {}
    BY DEF version_info, Range
  <2>5. Range(version_info.driver) \subseteq
          {Line("flash_version"), Line("smc_fwversion"),
           When("boot", "smc_boot_loader_ver"), Line("uos_version"),
           Line("serial_number")}
    BY DEF version_info, Range
  <2>6. \A line \in Range(version_info.driver) : LineOf(line, {"version", "thermal"})
    <3>1. \A field \in {"flash_version", "uos_version"} :
            LineOf(Line(field), {"version", "thermal"})
      BY Plain DEF Fields, Waits, Direct
    <3>2. \A field \in {"smc_fwversion"} :
            LineOf(Line(field), {"version", "thermal"})
      BY Plain DEF Fields, Waits, Direct
    <3>3. LineOf(When("boot", "smc_boot_loader_ver"), {"version", "thermal"})
      BY DEF LineOf, When, Fields, Waits
    <3>4. \A field \in {"serial_number"} : LineOf(Line(field), {"version", "thermal"})
      BY DEF LineOf, Line, Direct, Waits
    <3> QED  BY <2>5, <3>1, <3>2, <3>3, <3>4
  <2> QED  BY <2>1, <2>2, <2>3, <2>4, <2>6
<1>2. CASE s = "board"
  <2>1. Section[s] = board_info
    BY <1>2 DEF Section
  <2>2. /\ Range(board_info.needs) = {"pci", "processor", "thermal", "memory"}
        /\ OnHost \cap {"pci", "processor", "thermal", "memory"} = {"pci", "processor"}
    BY DEF board_info, Range, OnHost
  <2>3. /\ board_info.lines \in Seq(Range(board_info.lines))
        /\ board_info.driver \in Seq(Range(board_info.driver))
    BY Fifteen DEF board_info, Range
  <2>4. Range(board_info.lines) \subseteq
          {Line("vendor_id"), Line("device_id"), Line("subsystem_id"),
           Line("processor_steppingid"), Line("link_width"), Line("link_speed"),
           Line("max_payload"), Line("max_readreq"), Line("processor_model"),
           Line("processor_model_ext"), Line("processor_type"),
           Line("processor_family"), Line("processor_family_ext"),
           Line("processor_stepping"), Line("silicon_sku")}
    BY DEF board_info, Range
  <2>5. \A line \in Range(board_info.lines) : LineOf(line, {"pci", "processor"})
    <3>1. \A field \in {"vendor_id", "device_id", "subsystem_id", "link_width",
              "link_speed", "max_payload", "max_readreq"} :
            LineOf(Line(field), {"pci", "processor"})
      BY Plain DEF Fields, Waits, Direct
    <3>2. \A field \in {"processor_steppingid", "processor_model",
              "processor_model_ext", "processor_type", "processor_family",
              "processor_family_ext", "processor_stepping"} :
            LineOf(Line(field), {"pci", "processor"})
      BY Plain DEF Fields, Waits, Direct
    <3>3. \A field \in {"silicon_sku"} : LineOf(Line(field), {"pci", "processor"})
      BY DEF LineOf, Line, Direct, Waits
    <3> QED  BY <2>4, <3>1, <3>2, <3>3
  <2>6. Range(board_info.driver) \subseteq
          {Line("ecc_mode"), Line("smc_hwrevision")}
    BY DEF board_info, Range
  <2>7. \A line \in Range(board_info.driver) :
          LineOf(line, {"pci", "processor", "thermal", "memory"})
    <3>1. \A field \in {"smc_hwrevision"} :
            LineOf(Line(field), {"pci", "processor", "thermal", "memory"})
      BY Plain DEF Fields, Waits, Direct
    <3>2. \A field \in {"ecc_mode"} :
            LineOf(Line(field), {"pci", "processor", "thermal", "memory"})
      BY Plain DEF Fields, Waits, Direct
    <3> QED  BY <2>6, <3>1, <3>2
  <2> QED  BY <2>1, <2>2, <2>3, <2>5, <2>7
<1>3. CASE s = "cores"
  <2>1. Section[s] = cores_info
    BY <1>3 DEF Section
  <2>2. /\ Range(cores_info.needs) = {"cores"}
        /\ OnHost \cap {"cores"} = {}
    BY DEF cores_info, Range, OnHost
  <2>3. /\ cores_info.lines \in Seq(Range(cores_info.lines))
        /\ cores_info.driver \in Seq(Range(cores_info.driver))
    BY Fifteen DEF cores_info, Range
  <2>4. Range(cores_info.lines) = {}
    BY DEF cores_info, Range
  <2>5. Range(cores_info.driver) \subseteq
          {Line("cores_count"), Line("cores_voltage"), Line("cores_frequency")}
    BY DEF cores_info, Range
  <2>6. \A line \in Range(cores_info.driver) : LineOf(line, {"cores"})
    <3>1. \A field \in {"cores_count", "cores_voltage", "cores_frequency"} :
            LineOf(Line(field), {"cores"})
      BY Plain DEF Fields, Waits, Direct
    <3> QED  BY <2>5, <3>1
  <2> QED  BY <2>1, <2>2, <2>3, <2>4, <2>6
<1>4. CASE s = "thermal"
  <2>1. Section[s] = thermal_info
    BY <1>4 DEF Section
  <2>2. /\ Range(thermal_info.needs) = {"thermal"}
        /\ OnHost \cap {"thermal"} = {}
    BY DEF thermal_info, Range, OnHost
  <2>3. /\ thermal_info.lines \in Seq(Range(thermal_info.lines))
        /\ thermal_info.driver \in Seq(Range(thermal_info.driver))
    BY Fifteen DEF thermal_info, Range
  <2>4. Range(thermal_info.lines) = {}
    BY DEF thermal_info, Range
  <2>5. Range(thermal_info.driver) \subseteq
          {Line("fsc_status"), When("fan", "fan_rpm"), When("fan", "fan_pwm"),
           Line("die_temp")}
    BY DEF thermal_info, Range
  <2>6. \A line \in Range(thermal_info.driver) : LineOf(line, {"thermal"})
    <3>1. \A field \in {"fsc_status", "die_temp"} :
            LineOf(Line(field), {"thermal"})
      BY Plain DEF Fields, Waits, Direct, Temperatures
    <3>2. LineOf(When("fan", "fan_rpm"), {"thermal"})
      BY DEF LineOf, When, Fields, Waits
    <3>3. LineOf(When("fan", "fan_pwm"), {"thermal"})
      BY DEF LineOf, When, Fields, Waits
    <3> QED  BY <2>5, <3>1, <3>2, <3>3
  <2> QED  BY <2>1, <2>2, <2>3, <2>4, <2>6
<1>5. CASE s = "gddr"
  <2>1. Section[s] = memory_info
    BY <1>5 DEF Section
  <2>2. /\ Range(memory_info.needs) = {"memory"}
        /\ OnHost \cap {"memory"} = {}
    BY DEF memory_info, Range, OnHost
  <2>3. /\ memory_info.lines \in Seq(Range(memory_info.lines))
        /\ memory_info.driver \in Seq(Range(memory_info.driver))
    BY Fifteen DEF memory_info, Range
  <2>4. Range(memory_info.lines) = {}
    BY DEF memory_info, Range
  <2>5. Range(memory_info.driver) \subseteq
          {Line("memory_vendor"), Line("memory_revision"),
           Line("memory_density"), Line("memory_size"), Line("memory_type"),
           Line("memory_speed"), Line("memory_frequency"),
           Line("memory_voltage")}
    BY DEF memory_info, Range
  <2>6. \A line \in Range(memory_info.driver) : LineOf(line, {"memory"})
    <3>1. \A field \in {"memory_vendor", "memory_revision", "memory_density",
              "memory_size", "memory_type", "memory_speed",
              "memory_frequency", "memory_voltage"} :
            LineOf(Line(field), {"memory"})
      BY Plain DEF Fields, Waits, Direct
    <3> QED  BY <2>5, <3>1
  <2> QED  BY <2>1, <2>2, <2>3, <2>4, <2>6
<1>6. CASE s = "list"
  <2>1. Section[s] = show_list
    BY <1>6 DEF Section
  <2>2. /\ Range(show_list.needs) = {"pci"}
        /\ OnHost \cap {"pci"} = {"pci"}
    BY DEF show_list, Range, OnHost
  <2>3. /\ show_list.lines \in Seq(Range(show_list.lines))
        /\ show_list.driver \in Seq(Range(show_list.driver))
    BY Fifteen DEF show_list, Range
  <2>4. Range(show_list.lines) \subseteq
          {Line("domain"), Line("bus_no"), Line("device_no"), Line("device_id"),
           Line("vendor_id")}
    BY DEF show_list, Range
  <2>5. \A line \in Range(show_list.lines) : LineOf(line, {"pci"})
    <3>1. \A field \in {"domain", "bus_no", "device_no", "device_id", "vendor_id"} :
            LineOf(Line(field), {"pci"})
      BY Plain DEF Fields, Waits, Direct
    <3> QED  BY <2>4, <3>1
  <2>6. Range(show_list.driver) = {}
    BY DEF show_list, Range
  <2> QED  BY <2>1, <2>2, <2>3, <2>5, <2>6
<1> QED
  BY <1>1, <1>2, <1>3, <1>4, <1>5, <1>6 DEF SectionNames

(* In every section the lines that may be left unwritten come late. *)
LEMMA OrderFacts ==
  ASSUME NEW s \in SectionNames
  PROVE  Follows(Section[s].lines) /\ Follows(Section[s].driver)
<1>1. \A ls : (\A i \in 1..Len(ls) : ls[i].field \notin Late) => Follows(ls)
  BY DEF Follows
<1>2. CASE s = "ver"
  <2>1. Section[s] = version_info
    BY <1>2 DEF Section
  <2> DEFINE ls == version_info.driver
  <2>2. /\ version_info.lines = <<>> /\ Len(ls) = 5
        /\ ls[1].field = "flash_version" /\ ls[2].field = "smc_fwversion"
        /\ ls[3].field = "smc_boot_loader_ver" /\ ls[4].field = "uos_version"
        /\ ls[5].field = "serial_number"
    BY DEF version_info, Line, When
  <2> HIDE DEF ls
  <2>3. \A i \in 1..5 : i \in {1, 2, 3, 4, 5}
    OBVIOUS
  <2>4. \A i \in 1..5 : ls[i].field \in Late => i = 4
    BY <2>2, <2>3 DEF Late
  <2>5. ls[2].field = Writer(ls[4].field) /\ 2 \in 1..(4 - 1)
    BY <2>2 DEF Writer
  <2>6. Follows(ls)
    BY <2>2, <2>4, <2>5 DEF Follows
  <2>7. Follows(<<>>)
    BY DEF Follows
  <2> QED  BY <2>1, <2>2, <2>6, <2>7 DEF ls
<1>3. CASE s = "board"
  <2>1. Section[s] = board_info
    BY <1>3 DEF Section
  <2> DEFINE ls == board_info.lines
             ds == board_info.driver
  <2>2. /\ Len(ls) = 15
        /\ ls[1].field \notin Late /\ ls[2].field \notin Late /\ ls[3].field \notin Late
        /\ ls[4].field \notin Late /\ ls[5].field \notin Late /\ ls[6].field \notin Late
        /\ ls[7].field \notin Late /\ ls[8].field \notin Late /\ ls[9].field \notin Late
        /\ ls[10].field \notin Late /\ ls[11].field \notin Late
        /\ ls[12].field \notin Late /\ ls[13].field \notin Late
        /\ ls[14].field = "processor_stepping" /\ ls[15].field = "silicon_sku"
    BY DEF board_info, Line, Late
  <2>3. Len(ds) = 2 /\ ds[1].field \notin Late /\ ds[2].field \notin Late
    BY DEF board_info, Line, Late
  <2> HIDE DEF ls, ds
  <2>4. \A i \in 1..15 : i \in {1, 2, 3, 4, 5, 6, 7, 8, 9, 10, 11, 12, 13, 14, 15}
    OBVIOUS
  <2>5. \A i \in 1..15 : ls[i].field \in Late => i = 15
    BY <2>2, <2>4 DEF Late
  <2>6. ls[14].field = Writer(ls[15].field) /\ 14 \in 1..(15 - 1)
    BY <2>2 DEF Writer
  <2>7. Follows(ls)
    BY <2>2, <2>5, <2>6 DEF Follows
  <2>8. \A i \in 1..2 : i = 1 \/ i = 2
    OBVIOUS
  <2>9. Follows(ds)
    BY <1>1, <2>3, <2>8
  <2> QED  BY <2>1, <2>7, <2>9 DEF ls, ds
<1>4. CASE s \in {"cores", "thermal", "gddr", "list"}
  <2>1. /\ Section[s].lines \in Seq(Range(Section[s].lines))
        /\ Section[s].driver \in Seq(Range(Section[s].driver))
        /\ \A line \in Range(Section[s].lines) : LineOf(line, OnHost \cap Range(Section[s].needs))
        /\ \A line \in Range(Section[s].driver) : LineOf(line, Range(Section[s].needs))
    BY LineFacts
  <2>2. \A line \in Range(Section[s].lines) \cup Range(Section[s].driver) :
          line.field \notin Late
    <3>1. CASE s = "cores"
      <4>1. Section[s] = cores_info
        BY <3>1 DEF Section
      <4> QED  BY <4>1 DEF cores_info, Range, Line, Late
    <3>2. CASE s = "thermal"
      <4>1. Section[s] = thermal_info
        BY <3>2 DEF Section
      <4> QED  BY <4>1 DEF thermal_info, Range, Line, When, Late
    <3>3. CASE s = "gddr"
      <4>1. Section[s] = memory_info
        BY <3>3 DEF Section
      <4> QED  BY <4>1 DEF memory_info, Range, Line, Late
    <3>4. CASE s = "list"
      <4>1. Section[s] = show_list
        BY <3>4 DEF Section
      <4> QED  BY <4>1 DEF show_list, Range, Line, Late
    <3> QED  BY <1>4, <3>1, <3>2, <3>3, <3>4
  <2>3. ASSUME NEW ls, ls \in Seq(Range(ls)),
               \A line \in Range(ls) : line.field \notin Late
        PROVE  Follows(ls)
    <3>1. \A i \in 1..Len(ls) : ls[i] \in Range(ls)
      BY <2>3 DEF Range
    <3> QED  BY <1>1, <2>3, <3>1
  <2> QED  BY <2>1, <2>2, <2>3
<1> QED
  BY <1>2, <1>3, <1>4 DEF SectionNames

-------------------------------------------------------------------------------
(* Sequences read from the front, and the least card.                        *)

LEMMA OnlyOne ==
  ASSUME NEW n \in Nat \ {0}, NEW m, m = n - 1, m = 0
  PROVE  n = 1
  OBVIOUS

LEMMA RestTail ==
  ASSUME NEW S, NEW q \in Seq(S), NEW T, NEW whole \in Seq(T), q # <<>>, Rest(q, whole)
  PROVE  LET n == Passed(q, whole)
         IN /\ n \in Nat /\ n + 1 \in 1..Len(whole) /\ Head(q) = whole[n + 1]
            /\ Tail(q) \in Seq(S) /\ Rest(Tail(q), whole) /\ Passed(Tail(q), whole) = n + 1
            /\ Tail(q) = <<>> => n + 1 = Len(whole)
<1>1. Len(q) \in Nat \ {0} /\ Len(whole) \in Nat /\ Len(q) <= Len(whole)
  BY DEF Rest
<1>0. Len(Tail(q)) = Len(q) - 1
  BY <1>1
<1>2. /\ Tail(q) \in Seq(S) /\ Len(Tail(q)) = Len(q) - 1 /\ Head(q) = q[1]
      /\ \A i \in 1..Len(Tail(q)) : Tail(q)[i] = q[i + 1]
  BY <1>1
<1>3. Len(<<>>) = 0
  OBVIOUS
<1>4. \A i \in 1..Len(Tail(q)) : i + 1 \in 1..Len(q)
  BY <1>1, <1>2
<1>5. Rest(Tail(q), whole)
  BY <1>1, <1>2, <1>4 DEF Rest
<1>6. Passed(q, whole) \in Nat /\ Passed(Tail(q), whole) = Passed(q, whole) + 1
  BY <1>1, <1>2 DEF Passed
<1>7. ASSUME Tail(q) = <<>> PROVE Passed(q, whole) + 1 = Len(whole)
  <2>1. Len(Tail(q)) = 0
    BY <1>3, <1>7
  <2>2. Len(q) = 1
    <3> DEFINE n == Len(q)
               m == Len(Tail(q))
    <3>1. n \in Nat \ {0} /\ m = n - 1 /\ m = 0
      BY <1>0, <1>1, <2>1
    <3> HIDE DEF n, m
    <3>2. n = 1
      BY <3>1, OnlyOne
    <3> QED  BY <3>2 DEF n
  <2> QED  BY <1>1, <2>2 DEF Passed
<1>8. Head(q) = whole[Passed(q, whole) + 1] /\ Passed(q, whole) + 1 \in 1..Len(whole)
  BY <1>1, <1>2 DEF Rest, Passed
<1> QED
  BY <1>2, <1>5, <1>6, <1>7, <1>8

LEMMA RestWhole ==
  ASSUME NEW T, NEW whole \in Seq(T)
  PROVE  Rest(whole, whole) /\ Passed(whole, whole) = 0
  BY DEF Rest, Passed

LEMMA OwnRange ==
  ASSUME NEW S, NEW s \in Seq(S)
  PROVE  s \in Seq(Range(s))
  BY DEF Range

LEMMA SeqBoth ==
  ASSUME NEW S, NEW s \in Seq(S), NEW T, NEW t \in Seq(T)
  PROVE  s \o t \in Seq(Range(s \o t)) /\ Range(s \o t) \subseteq Range(s) \cup Range(t)
<1>1. /\ Len(s) \in Nat /\ Len(t) \in Nat
      /\ s \o t \in Seq(S \cup T) /\ Len(s \o t) = Len(s) + Len(t)
      /\ \A i \in 1..Len(s \o t) :
           (s \o t)[i] = IF i <= Len(s) THEN s[i] ELSE t[i - Len(s)]
  OBVIOUS
<1>2. \A i \in 1..Len(s \o t) :
        (i <= Len(s) => i \in 1..Len(s)) /\ (i > Len(s) => i - Len(s) \in 1..Len(t))
  BY <1>1
<1>3. \A i \in 1..Len(s \o t) : (s \o t)[i] \in Range(s) \cup Range(t)
  BY <1>1, <1>2 DEF Range
<1>4. s \o t \in Seq(Range(s \o t))
  BY <1>1, OwnRange
<1>5. DOMAIN (s \o t) = 1..Len(s \o t)
  BY <1>1
<1> QED
  BY <1>3, <1>4, <1>5 DEF Range

LEMMA FollowsBoth ==
  ASSUME NEW S, NEW s \in Seq(S), NEW T, NEW t \in Seq(T), Follows(s), Follows(t)
  PROVE  Follows(s \o t)
<1> DEFINE m == Len(s)
           n == Len(t)
           st == s \o t
<1>1. /\ m \in Nat /\ n \in Nat /\ Len(st) = m + n
      /\ \A i \in 1..m : st[i] = s[i]
      /\ \A i \in 1..n : st[m + i] = t[i]
  <2>1. /\ m \in Nat /\ n \in Nat /\ Len(st) = m + n
        /\ \A k \in 1..Len(st) : st[k] = IF k <= m THEN s[k] ELSE t[k - m]
    <3>1. Len(s) \in Nat /\ Len(t) \in Nat /\ Len(s \o t) = Len(s) + Len(t)
      OBVIOUS
    <3>2. \A k \in 1..Len(s \o t) :
            (s \o t)[k] = IF k <= Len(s) THEN s[k] ELSE t[k - Len(s)]
      OBVIOUS
    <3> QED  BY <3>1, <3>2
  <2> HIDE DEF m, n, st
  <2>2. \A i \in 1..m : st[i] = s[i]
    BY <2>1
  <2>3. ASSUME NEW i \in 1..n
        PROVE  st[m + i] = t[i]
    <3>1. m + i \in 1..Len(st) /\ ~(m + i <= m) /\ (m + i) - m = i
      BY <2>1
    <3> QED  BY <2>1, <3>1
  <2> QED
    BY <2>1, <2>2, <2>3
<1> HIDE DEF m, n, st
<1>2. ASSUME NEW i \in 1..(m + n), st[i].field \in Late
      PROVE  \E j \in 1..(i - 1) : st[j].field = Writer(st[i].field)
  <2>1. CASE i <= m
    <3>1. i \in 1..m
      BY <1>1, <2>1
    <3>2. PICK j \in 1..(i - 1) : s[j].field = Writer(s[i].field)
      BY <1>1, <1>2, <3>1 DEF Follows, m
    <3>3. j \in 1..m
      BY <1>1, <3>1
    <3> QED  BY <1>1, <3>1, <3>2, <3>3
  <2>2. CASE i > m
    <3>1. PICK k \in 1..n : i = m + k
      <4>1. i - m \in 1..n /\ i = m + (i - m)
        BY <1>1, <2>2
      <4> QED  BY <4>1
    <3>2. PICK j \in 1..(k - 1) : t[j].field = Writer(t[k].field)
      BY <1>1, <1>2, <3>1 DEF Follows, n
    <3>3. j \in 1..n /\ m + j \in 1..(i - 1)
      BY <1>1, <3>1
    <3> QED  BY <1>1, <3>1, <3>2, <3>3
  <2>3. i <= m \/ i > m
    BY <1>1
  <2> QED  BY <2>1, <2>2, <2>3
<1>3. Follows(st)
  BY <1>1, <1>2 DEF Follows
<1> QED
  BY <1>3 DEF st

(* The line in front is none of the late ones; once it is shown, either it   *)
(* has written the buffer or the others still follow theirs.                 *)
LEMMA FollowsTail ==
  ASSUME NEW S, NEW ls \in Seq(S), ls # <<>>, Follows(ls)
  PROVE  /\ Head(ls).field \notin Late
         /\ Head(ls).field \notin {Writer(f) : f \in Late} => Follows(Tail(ls))
<1>1. /\ Len(ls) \in Nat \ {0} /\ Head(ls) = ls[1] /\ Len(Tail(ls)) = Len(ls) - 1
      /\ \A i \in 1..Len(Tail(ls)) : Tail(ls)[i] = ls[i + 1]
  OBVIOUS
<1>2. Head(ls).field \notin Late
  BY <1>1 DEF Follows
<1>3. ASSUME Head(ls).field \notin {Writer(f) : f \in Late},
             NEW i \in 1..Len(Tail(ls)), Tail(ls)[i].field \in Late
      PROVE  \E j \in 1..(i - 1) : Tail(ls)[j].field = Writer(Tail(ls)[i].field)
  <2>1. i + 1 \in 1..Len(ls) /\ ls[i + 1].field \in Late /\ Tail(ls)[i] = ls[i + 1]
    BY <1>1, <1>3
  <2>2. PICK j \in 1..i : ls[j].field = Writer(ls[i + 1].field)
    <3>1. \E j \in 1..((i + 1) - 1) : ls[j].field = Writer(ls[i + 1].field)
      BY <2>1 DEF Follows
    <3> QED  BY <1>1, <3>1
  <2>3. j # 1
    BY <1>1, <1>3, <2>1, <2>2
  <2>4. j - 1 \in 1..(i - 1) /\ j - 1 \in 1..Len(Tail(ls)) /\ (j - 1) + 1 = j
    BY <1>1, <2>2, <2>3
  <2>5. Tail(ls)[j - 1] = ls[j]
    BY <1>1, <2>4
  <2> QED  BY <2>1, <2>2, <2>4, <2>5
<1> QED
  BY <1>2, <1>3 DEF Follows

LEMMA SeqTail ==
  ASSUME NEW s, s \in Seq(Range(s)), s # <<>>
  PROVE  /\ Head(s) \in Range(s) /\ Tail(s) \in Seq(Range(Tail(s)))
         /\ Range(Tail(s)) \subseteq Range(s)
<1>1. /\ Len(s) \in Nat \ {0} /\ Head(s) = s[1] /\ 1 \in DOMAIN s
      /\ Tail(s) \in Seq(Range(s))
  OBVIOUS
<1>2. \A i \in DOMAIN Tail(s) : i + 1 \in DOMAIN s /\ Tail(s)[i] = s[i + 1]
  OBVIOUS
<1>3. Tail(s) \in Seq(Range(Tail(s)))
  BY <1>1, OwnRange
<1> QED
  BY <1>1, <1>2, <1>3 DEF Range

LEMMA LeastCard ==
  ASSUME NEW S \in SUBSET Cards, S # {}
  PROVE  Min(S) \in S
<1>1. S \in SUBSET Nat
  BY MicInfoAssumption
<1>2. PICK x \in S : \A y \in S : ~(<<y, x>> \in OpToRel(<, Nat))
  BY <1>1, NatLessThanWellFounded, WFMin
<1>3. \A y \in S : ~(y < x)
  BY <1>1, <1>2 DEF OpToRel
<1>4. \A y \in S : x <= y
  BY <1>1, <1>3
<1> QED
  BY <1>4 DEF Min

LEMMA Presence ==
  ASSUME NEW present \in SUBSET Cards
  PROVE  Cardinality(present) \in 0..Cardinality(Cards)
<1>1. IsFiniteSet(present) /\ Cardinality(present) <= Cardinality(Cards)
  BY MicInfoAssumption, FS_Subset
<1>2. Cardinality(present) \in Nat /\ Cardinality(Cards) \in Nat
  BY <1>1, MicInfoAssumption, FS_CardinalityType
<1> QED
  BY <1>1, <1>2

-------------------------------------------------------------------------------
(* The command line, the cards and the exit code.                            *)

(* Another word of the command line, at most one more option of a kind. *)
LEMMA CountStep ==
  ASSUME OptionInv, words < MaxWords, words' = words + 1,
         NEW o \in Options,
         \/ cnt' = [cnt EXCEPT ![o] = @ + 1] \/ cnt' = [cnt EXCEPT ![o] = 0] \/ cnt' = cnt
  PROVE  /\ words' \in 0..MaxWords /\ cnt' \in [Options -> 0..MaxWords]
         /\ \A p \in Options : cnt'[p] <= words'
         /\ \A p \in Options \ {o} : cnt'[p] = cnt[p]
<1>1. MaxWords \in Nat /\ words \in Nat /\ cnt \in [Options -> 0..MaxWords]
  BY MicInfoAssumption DEF OptionInv
<1>2. \A p \in Options : cnt[p] \in Nat /\ cnt[p] <= words
  BY <1>1 DEF OptionInv
<1>3. cnt[o] + 1 \in 0..MaxWords /\ cnt[o] + 1 <= words'
  BY <1>1, <1>2
<1>4. \/ cnt' = [cnt EXCEPT ![o] = cnt[o] + 1]
      \/ cnt' = [cnt EXCEPT ![o] = 0] \/ cnt' = cnt
  OBVIOUS
<1>5. \A p \in Options : cnt'[p] \in {cnt[o] + 1, 0, cnt[p]} /\ (p # o => cnt'[p] = cnt[p])
  BY <1>1, <1>4
<1>6. cnt' \in [Options -> 0..MaxWords]
  BY <1>1, <1>3, <1>4
<1>7. \A p \in Options : cnt'[p] <= words'
  <2> TAKE p \in Options
  <2>1. CASE p = o
    BY <1>1, <1>2, <1>3, <1>4, <2>1
  <2>2. CASE p # o
    BY <1>1, <1>2, <1>5, <2>2
  <2> QED  BY <2>1, <2>2
<1> QED
  BY <1>1, <1>5, <1>6, <1>7

LEMMA OptionStep == OptionInv /\ [Next]_vars => OptionInv'
  <1> SUFFICES ASSUME OptionInv, [Next]_vars PROVE OptionInv'
    OBVIOUS
  <1>0. MaxWords \in Nat
    BY MicInfoAssumption
  <1> USE DEF Reading, Idle, Spelled, Seen, Counted
  <1>1. ASSUME NEW long \in BOOLEAN, NEW o \in {"list", "versions", "help"}, Flag(o, long)
        PROVE  OptionInv'
    <2>1. o \in Options /\ o # "device" /\ "device" \in Options
      BY DEF Options
    <2>2. /\ words < MaxWords /\ words' = words + 1 /\ cnt' = [cnt EXCEPT ![o] = @ + 1]
          /\ func' = o /\ required' \in BOOLEAN
          /\ UNCHANGED <<progname, device, group, error_cnt>>
      BY <1>1 DEF Flag, OptionInv
    <2> QED  BY <2>1, <2>2, CountStep DEF OptionInv
  <1>2. ASSUME NEW long \in BOOLEAN, NEW d \in Cards, DeviceOption(d, long) PROVE OptionInv'
    <2>1. "device" \in Options
      BY DEF Options
    <2>2. /\ words < MaxWords /\ words' = words + 1
          /\ cnt' = [cnt EXCEPT !["device"] = @ + 1]
          /\ func' = "device" /\ device' = d /\ required' \in BOOLEAN
          /\ UNCHANGED <<progname, group, error_cnt>>
      BY <1>2 DEF DeviceOption, OptionInv
    <2> QED  BY <2>1, <2>2, CountStep DEF OptionInv
  <1>3. ASSUME NEW long \in BOOLEAN, DeviceAll(long) PROVE OptionInv'
    <2>1. "device" \in Options
      BY DEF Options
    <2>2. /\ words < MaxWords /\ words' = words + 1 /\ cnt' = [cnt EXCEPT !["device"] = 0]
          /\ func' = "device" /\ required' \in BOOLEAN
          /\ UNCHANGED <<progname, device, group, error_cnt>>
      BY <1>3 DEF DeviceAll, OptionInv
    <2>3. cnt'["device"] = 0
      BY <2>1, <2>2 DEF OptionInv
    <2> QED  BY <2>1, <2>2, <2>3, CountStep DEF OptionInv
  <1>4. ASSUME NEW long \in BOOLEAN, NEW g \in Groups, GroupOption(g, long) PROVE OptionInv'
    <2>1. {"group", "device"} \subseteq Options
      BY DEF Options
    <2>2. /\ words < MaxWords /\ words' = words + 1
          /\ cnt' = [cnt EXCEPT !["group"] = @ + 1]
          /\ func' = "group" /\ group' = g /\ required' \in BOOLEAN
          /\ UNCHANGED <<progname, device, error_cnt>>
      BY <1>4 DEF GroupOption, OptionInv
    <2> QED  BY <2>1, <2>2, CountStep DEF OptionInv
  <1>5. CASE BadOption
    <2>1. {"help", "device"} \subseteq Options
      BY DEF Options
    <2>2. /\ words < MaxWords /\ words' = words + 1 /\ cnt' = cnt
          /\ func' = "help" /\ error_cnt' = 1
          /\ UNCHANGED <<progname, device, group, required>>
      BY <1>5 DEF BadOption
    <2> QED  BY <2>1, <2>2, CountStep DEF OptionInv
  <1>6. CASE ArgumentMissed \/ OptionsRefused
    BY <1>6 DEF ArgumentMissed, OptionsRefused, OptionInv, Idle, cmdline
  <1>7. CASE dispatch
    <2>1. /\ words' = 0 /\ cnt' = [o \in Options |-> 0] /\ device' = NoCard
          /\ required' = FALSE /\ UNCHANGED <<progname, func, group, error_cnt>>
      BY <1>7 DEF dispatch
    <2>2. "device" \in Options /\ \A o \in Options : cnt'[o] = 0
      BY <2>1 DEF Options
    <2>3. cnt' \in [Options -> 0..MaxWords] /\ words' \in 0..MaxWords
      BY <1>0, <2>1
    <2>4. \A o \in Options : cnt'[o] <= words'
      BY <2>1, <2>2
    <2> QED  BY <2>1, <2>2, <2>3, <2>4 DEF OptionInv
  <1>8. CASE UNCHANGED <<progname, cmdline>>
    BY <1>8 DEF OptionInv, cmdline
  <1>9. ListCards => UNCHANGED <<progname, cmdline>>
    BY DEF ListCards, mic_get_devices, Rescan, NoDevices, Listed
  <1>10. ShowCard => UNCHANGED <<progname, cmdline>>
    BY DEF ShowCard, mic_open_device, StartSection, NotAsked, Answered, NoDriver,
           RequestFailed, HexAnswered, ShowLine, EndSection, mic_close_device, AllShown,
           Display
  <1> QED
    BY <1>1, <1>2, <1>3, <1>4, <1>5, <1>6, <1>7, <1>8, <1>9, <1>10
     DEF Next, ReadOptions, Done, vars

LEMMA CardStep == OptionInv /\ CardInv /\ [Next]_vars => CardInv'
  <1> SUFFICES ASSUME OptionInv, CardInv, [Next]_vars PROVE CardInv'
    OBVIOUS
  <1> USE DEF Places, Before, Within
  <1>0. Cards \in SUBSET Nat /\ NoCard \notin Cards /\ NoCard = -1
    BY MicInfoAssumption DEF NoCard
  <1>1. ASSUME NEW long \in BOOLEAN, NEW o \in {"list", "versions", "help"}, Flag(o, long)
        PROVE  CardInv'
    BY <1>1 DEF Flag, CardInv, Honest, Reading, Idle
  <1>2. ASSUME NEW long \in BOOLEAN, NEW d \in Cards, DeviceOption(d, long) PROVE CardInv'
    BY <1>2 DEF DeviceOption, CardInv, Honest, Reading, Idle
  <1>3. ASSUME NEW long \in BOOLEAN, DeviceAll(long) PROVE CardInv'
    BY <1>3 DEF DeviceAll, CardInv, Honest, Reading, Idle
  <1>4. ASSUME NEW long \in BOOLEAN, NEW g \in Groups, GroupOption(g, long) PROVE CardInv'
    BY <1>4 DEF GroupOption, CardInv, Honest, Reading, Idle
  <1>5. CASE BadOption
    BY <1>5 DEF BadOption, CardInv, Honest, Reading, Idle
  <1>6. CASE ArgumentMissed \/ OptionsRefused
    BY <1>0, <1>6 DEF ArgumentMissed, OptionsRefused, CardInv, Honest, Reading, Idle
  <1>7. CASE dispatch
    <2>1. cnt["device"] # 0 => device \in Cards
      BY DEF OptionInv
    <2> QED  BY <1>0, <1>7, <2>1 DEF dispatch, CardInv, Honest
  <1>8. ASSUME NEW present \in SUBSET Cards, mic_get_devices(present) PROVE CardInv'
    BY <1>0, <1>8, Presence DEF mic_get_devices, CardInv, Honest, Listed, cmdline
  <1>9. ASSUME NEW present \in SUBSET Cards, Rescan(present) PROVE CardInv'
    BY <1>0, <1>9 DEF Rescan, CardInv, Honest, Listed, cmdline
  <1>10. CASE NoDevices
    BY <1>0, <1>10 DEF NoDevices, CardInv, Honest, Listed
  <1>11. ASSUME NEW opened \in BOOLEAN, mic_open_device(opened) PROVE CardInv'
    <2>1. /\ card' \in todo /\ todo' = todo \ {card'} /\ card' \in Cards /\ card' # NoCard
          /\ card' \notin failed
      BY <1>0, <1>11, LeastCard DEF mic_open_device, CardInv
    <2>2. UNCHANGED <<func, first>> /\ Honest
      BY <1>11 DEF mic_open_device, cmdline, CardInv
    <2>3. CASE opened
      <3>1. /\ place' = "section" /\ UNCHANGED failed
            /\ ret' = (IF func = "list" THEN 0 ELSE ret)
        BY <1>11, <2>3 DEF mic_open_device
      <3> QED  BY <2>1, <2>2, <3>1 DEF CardInv, Honest
    <2>4. CASE ~opened
      <3>1. place' = place /\ place = "open" /\ ret' = -1 /\ failed' = failed \cup {card'}
        BY <1>11, <2>4 DEF mic_open_device, Missed
      <3> QED  BY <2>1, <2>2, <3>1 DEF CardInv, Honest
    <2> QED  BY <2>3, <2>4
  <1>12. CASE StartSection
    BY <1>12 DEF StartSection, CardInv, Honest, Display, cmdline
  <1>13. CASE NotAsked
    BY <1>13 DEF NotAsked, CardInv, Honest, Display, cmdline
  <1>14. CASE \/ Answered \/ NoDriver
             \/ \E text \in {"number", "empty", "junk"} : HexAnswered(text)
    <2>1. UNCHANGED <<func, first, todo, card, failed, ret>> /\ place = "fetch"
      BY <1>14 DEF Answered, NoDriver, HexAnswered, Display, cmdline, Answering
    <2>2. place' \in {"fetch", "lines"}
      BY <1>14, <2>1 DEF Answered, NoDriver, HexAnswered, NextRequest, NextStructure
    <2> QED  BY <2>1, <2>2 DEF CardInv, Honest
  <1>15. CASE RequestFailed
    BY <1>0, <1>15 DEF RequestFailed, Answering, Missed, CardInv, Honest, Display, cmdline
  <1>16. ASSUME NEW silent \in BOOLEAN, ShowLine(silent) PROVE CardInv'
    BY <1>16 DEF ShowLine, CardInv, Honest, Display, cmdline
  <1>17. CASE EndSection
    BY <1>17 DEF EndSection, CardInv, Honest, Display, cmdline
  <1>18. CASE mic_close_device
    BY <1>18 DEF mic_close_device, CardInv, Honest, Display, cmdline
  <1>19. CASE AllShown
    BY <1>19 DEF AllShown, CardInv, Honest, cmdline
  <1>20. CASE UNCHANGED vars
    BY <1>20 DEF vars, CardInv, Honest, cmdline
  <1> QED
    BY <1>1, <1>2, <1>3, <1>4, <1>5, <1>6, <1>7, <1>8, <1>9, <1>10, <1>11, <1>12, <1>13,
       <1>14, <1>15, <1>16, <1>17, <1>18, <1>19, <1>20
     DEF Next, ReadOptions, ListCards, ShowCard, Done

LEMMA StreamStep == StreamInv /\ [Next]_vars => StreamInv'
  <1> SUFFICES ASSUME StreamInv, [Next]_vars PROVE StreamInv'
    OBVIOUS
  <1>1. CASE UNCHANGED <<jam, odd, mixed>>
    BY <1>1 DEF StreamInv
  <1>2. CASE StartSection \/ mic_close_device
    BY <1>2 DEF StartSection, mic_close_device, StreamInv
  <1>3. ASSUME NEW text \in {"number", "empty", "junk"}, HexAnswered(text) PROVE StreamInv'
    BY <1>3 DEF HexAnswered, StreamInv
  <1>4. ReadOptions \/ dispatch \/ ListCards => UNCHANGED <<jam, odd, mixed>>
    BY DEF ReadOptions, Flag, DeviceOption, DeviceAll, GroupOption, BadOption,
           ArgumentMissed, OptionsRefused, Idle, dispatch, ListCards, mic_get_devices,
           Rescan, NoDevices, Listed, answers
  <1>5. ASSUME ShowCard, ~StartSection, ~mic_close_device,
               \A text \in {"number", "empty", "junk"} : ~HexAnswered(text)
        PROVE  UNCHANGED <<jam, odd, mixed>>
    BY <1>5 DEF ShowCard, mic_open_device, NotAsked, Answered, NoDriver, RequestFailed,
           ShowLine, EndSection, AllShown, answers
  <1>6. Done \/ UNCHANGED vars => UNCHANGED <<jam, odd, mixed>>
    BY DEF Done, vars, answers
  <1> QED
    BY <1>1, <1>2, <1>3, <1>4, <1>5, <1>6 DEF Next

-------------------------------------------------------------------------------
(* A section: what has been asked for, and what its lines may show.          *)

LEMMA SectionsOk ==
  ASSUME OptionInv
  PROVE  /\ Sections \in Seq(SectionNames)
         /\ \A i \in 1..Len(Sections) : Sections[i] = "list" <=> func = "list"
<1>1. group \in Groups
  BY DEF OptionInv
<1>2. CASE func = "list"
  BY <1>2 DEF Sections, SectionNames
<1>3. CASE func # "list" /\ group = "all"
  BY <1>3 DEF Sections, SectionNames
<1>4. CASE func # "list" /\ group # "all"
  BY <1>1, <1>4 DEF Sections, SectionNames, Groups
<1> QED
  BY <1>2, <1>3, <1>4

(* The section being shown. *)
LEMMA InSection ==
  ASSUME SectionInv, place \in {"fetch", "lines"}
  PROVE  /\ Head(sections) \in SectionNames /\ sections \in Seq(SectionNames)
         /\ sections # <<>> /\ (Head(sections) = "list" <=> func = "list")
         /\ Needs \in Seq(Kinds) /\ Len(Needs) \in Nat \ {0}
         /\ \A i, j \in 1..Len(Needs) : Needs[i] = Needs[j] => i = j
         /\ \A i \in 1..Len(Needs) : Needs[i] \in Kinds /\ Needs[i] \in Range(Needs)
         /\ \A k \in Range(Needs) : \E i \in 1..Len(Needs) : k = Needs[i]
<1>1. sections \in Seq(SectionNames) /\ sections # <<>>
  BY DEF SectionInv, Within
<1>2. /\ Head(sections) \in SectionNames /\ Head(sections) = sections[1]
      /\ 1 \in 1..Len(sections)
  BY <1>1
<1>3. /\ Needs \in Seq(Kinds) /\ Len(Needs) \in Nat \ {0}
      /\ \A i, j \in 1..Len(Needs) : Needs[i] = Needs[j] => i = j
  BY <1>2, SectionFacts DEF Needs
<1>4. DOMAIN Needs = 1..Len(Needs)
  BY <1>3
<1> QED
  BY <1>1, <1>2, <1>3, <1>4 DEF SectionInv, Within, Range

(* A structure that is held answers for its fields. *)
LEMMA LineBacked ==
  ASSUME NEW line, NEW ks \in SUBSET Kinds, LineOf(line, ks),
         \A k \in ks : held'[k] = "live" /\ Obtained(k, Len(Fill[k]))'
  PROVE  Backed(line)'
<1>1. CASE line.field \in Direct /\ Waits(line.field) = line.when
  BY <1>1 DEF Backed
<1>2. CASE \E k \in ks : line.field \in Fields(k) /\ Waits(line.field) = line.when
  <2>1. PICK k \in ks : line.field \in Fields(k) /\ Waits(line.field) = line.when
    BY <1>2
  <2>2. k \in Kinds /\ KindOf(line.field) = k
    BY <2>1, OneKind
  <2>3. PICK i \in 1..Len(Fill[k]) :
          Fill[k][i].name = Getters[k][line.field] /\ Fill[k][i].when = line.when
    BY <2>1, <2>2, GetterFacts
  <2>4. line.when \subseteq facts' => Getters[k][line.field] \in got'
    BY <2>1, <2>3 DEF Obtained
  <2> QED  BY <2>1, <2>2, <2>4 DEF Backed
<1> QED
  BY <1>1, <1>2 DEF LineOf

LEMMA LinesBacked ==
  ASSUME Head(sections') \in SectionNames, Filled(Len(Needs))', no_driver' \in BOOLEAN,
         lines' = Section[Head(sections')].lines
                    \o (IF no_driver' THEN <<>> ELSE Section[Head(sections')].driver)
  PROVE  /\ lines' \in Seq(Range(lines')) /\ \A line \in Range(lines') : Backed(line)'
         /\ Follows(lines')
<1> DEFINE s == Head(sections')
           A == Section[s].lines
           B == Section[s].driver
           asked == Range(Section[s].needs)
<1>1. /\ A \in Seq(Range(A)) /\ B \in Seq(Range(B))
      /\ \A line \in Range(A) : LineOf(line, OnHost \cap asked)
      /\ \A line \in Range(B) : LineOf(line, asked)
      /\ Follows(A) /\ Follows(B)
  BY LineFacts, OrderFacts
<1>2. /\ Section[s].needs \in Seq(Kinds)
      /\ asked \subseteq Kinds /\ Needs' = Section[s].needs
      /\ \A k \in asked : \E i \in 1..Len(Section[s].needs) : k = Section[s].needs[i]
  <2>1. Section[s].needs \in Seq(Kinds)
    BY SectionFacts
  <2> QED  BY <2>1 DEF Needs, Range
<1>3. ASSUME NEW k \in asked, k \in OnHost \/ ~no_driver'
      PROVE  held'[k] = "live" /\ Obtained(k, Len(Fill[k]))'
  BY <1>2, <1>3 DEF Filled
<1>4. ASSUME NEW line \in Range(A) PROVE Backed(line)'
  <2>1. OnHost \cap asked \in SUBSET Kinds
    BY <1>2
  <2>2. \A k \in OnHost \cap asked : held'[k] = "live" /\ Obtained(k, Len(Fill[k]))'
    BY <1>3
  <2>3. LineOf(line, OnHost \cap asked)
    BY <1>1
  <2> HIDE DEF A, asked
  <2> QED  BY <2>1, <2>2, <2>3, LineBacked
<1>5. ASSUME ~no_driver', NEW line \in Range(B) PROVE Backed(line)'
  <2>1. asked \in SUBSET Kinds
    BY <1>2
  <2>2. \A k \in asked : held'[k] = "live" /\ Obtained(k, Len(Fill[k]))'
    BY <1>3, <1>5
  <2>3. LineOf(line, asked)
    BY <1>1
  <2> HIDE DEF B, asked
  <2> QED  BY <2>1, <2>2, <2>3, LineBacked
<1> HIDE DEF A, B, asked
<1>6. CASE no_driver'
  <2>1. lines' = A \o <<>>
    BY <1>6 DEF A, s
  <2>2. lines' = A
    BY <1>1, <2>1, ConcatEmptySeq
  <2> QED  BY <1>1, <1>4, <2>2
<1>7. CASE ~no_driver'
  <2>1. lines' = A \o B
    BY <1>7 DEF A, B, s
  <2>2. /\ A \o B \in Seq(Range(A \o B)) /\ Range(A \o B) \subseteq Range(A) \cup Range(B)
    BY <1>1, SeqBoth
  <2>3. Follows(A \o B)
    BY <1>1, FollowsBoth
  <2> QED  BY <1>4, <1>5, <1>7, <2>1, <2>2, <2>3
<1> QED
  BY <1>6, <1>7


-------------------------------------------------------------------------------
(* The steps of a section.                                                   *)

(* The structure being filled, and the request it has come to. *)
LEMMA Fetching ==
  ASSUME SectionInv, FetchInv, place = "fetch"
  PROVE  LET k == Head(needs)
         IN /\ k \in Kinds /\ Nth \in 1..Len(Needs) /\ k = Needs[Nth]
            /\ Tail(needs) \in Seq(Kinds) /\ Rest(Tail(needs), Needs)
            /\ Passed(Tail(needs), Needs) = Nth
            /\ Tail(needs) = <<>> => Nth = Len(Needs)
            /\ Due \in 1..Len(Fill[k]) /\ Asked = Fill[k][Due]
            /\ Tail(requests) \in Seq(Range(Fill[k])) /\ Rest(Tail(requests), Fill[k])
            /\ Passed(Tail(requests), Fill[k]) = Due
            /\ Tail(requests) = <<>> => Due = Len(Fill[k])
            /\ Filled(Nth - 1) /\ Obtained(k, Due - 1) /\ str = "garbage" /\ shown = <<>>
<1>1. /\ needs \in Seq(Kinds) /\ needs # <<>> /\ Rest(needs, Needs)
      /\ requests \in Seq(Range(Fill[Head(needs)])) /\ requests # <<>>
      /\ Rest(requests, Fill[Head(needs)])
      /\ Filled(Passed(needs, Needs))
      /\ Obtained(Head(needs), Passed(requests, Fill[Head(needs)]))
      /\ str = "garbage" /\ shown = <<>>
  BY DEF FetchInv, SectionInv
<1>2. Needs \in Seq(Kinds)
  BY InSection
<1>3. /\ Passed(needs, Needs) \in Nat /\ Nth \in 1..Len(Needs) /\ Head(needs) = Needs[Nth]
      /\ Tail(needs) \in Seq(Kinds) /\ Rest(Tail(needs), Needs)
      /\ Passed(Tail(needs), Needs) = Nth
      /\ Tail(needs) = <<>> => Nth = Len(Needs)
  BY <1>1, <1>2, RestTail DEF Nth
<1>4. Head(needs) \in Kinds
  BY <1>1
<1> DEFINE k == Head(needs)
<1>5. Fill[k] \in Seq(Range(Fill[k]))
  BY <1>4, FillFacts
<1>6. /\ Passed(requests, Fill[k]) \in Nat /\ Due \in 1..Len(Fill[k])
      /\ Head(requests) = Fill[k][Due]
      /\ Tail(requests) \in Seq(Range(Fill[k])) /\ Rest(Tail(requests), Fill[k])
      /\ Passed(Tail(requests), Fill[k]) = Due
      /\ Tail(requests) = <<>> => Due = Len(Fill[k])
  BY <1>1, <1>5, RestTail DEF Due
<1>7. Nth - 1 = Passed(needs, Needs) /\ Due - 1 = Passed(requests, Fill[k])
  <2> DEFINE a == Passed(needs, Needs)
             b == Passed(requests, Fill[k])
  <2>1. a \in Nat /\ b \in Nat /\ Nth = a + 1 /\ Due = b + 1
    BY <1>3, <1>6 DEF Nth, Due
  <2> HIDE DEF a, b
  <2>2. Nth - 1 = a /\ Due - 1 = b
    BY <2>1
  <2> QED  BY <2>2 DEF a, b
<1> QED
  BY <1>1, <1>3, <1>4, <1>6, <1>7 DEF Asked

(* An answer disturbs no request that was passed over: what it settles is    *)
(* waited for by later requests of the same structure only.                  *)
LEMMA AnswerKeeps ==
  ASSUME NEW k \in Kinds, NEW p \in 1..Len(Fill[k]), facts \subseteq Facts,
         facts \subseteq facts', facts' \subseteq facts \cup Fill[k][p].tells,
         got' = got \cup {Fill[k][p].name}
  PROVE  /\ facts' \subseteq Facts
         /\ Obtained(k, p - 1) => Obtained(k, p)'
         /\ \A j \in Kinds \ {k} : Obtained(j, Len(Fill[j])) => Obtained(j, Len(Fill[j]))'
<1>1. Len(Fill[k]) \in Nat /\ RequestOk(k, p)
  BY FillFacts
<1>2. facts' \subseteq Facts
  BY <1>1 DEF RequestOk, Facts
<1>3. ASSUME Obtained(k, p - 1) PROVE Obtained(k, p)'
  <2>1. ASSUME NEW i \in 1..p, Fill[k][i].when \subseteq facts'
        PROVE  Fill[k][i].name \in got'
    <3>1. CASE i = p
      BY <3>1
    <3>2. CASE i # p
      <4>1. i \in 1..(p - 1) /\ i \in 1..Len(Fill[k]) /\ i < p
        BY <1>1, <3>2
      <4>2. RequestOk(k, i)
        BY <4>1, FillFacts
      <4>3. Fill[k][i].when # {} => Fill[k][p].tells = {}
        BY <1>1, <4>1, <4>2 DEF RequestOk
      <4>4. Fill[k][i].when \subseteq facts
        BY <2>1, <4>3
      <4> QED  BY <1>3, <4>1, <4>4 DEF Obtained
    <3> QED  BY <3>1, <3>2
  <2> QED  BY <2>1 DEF Obtained
<1>4. ASSUME NEW j \in Kinds \ {k}, Obtained(j, Len(Fill[j]))
      PROVE  Obtained(j, Len(Fill[j]))'
  <2>1. ASSUME NEW i \in 1..Len(Fill[j]), Fill[j][i].when \subseteq facts'
        PROVE  Fill[j][i].name \in got'
    <3>1. RequestOk(j, i)
      BY FillFacts
    <3>2. Fill[j][i].when \cap Fill[k][p].tells = {}
      BY <1>1, <3>1 DEF RequestOk
    <3>3. Fill[j][i].when \subseteq facts
      BY <2>1, <3>2
    <3> QED  BY <1>4, <3>3 DEF Obtained
  <2> QED  BY <2>1 DEF Obtained
<1> QED
  BY <1>2, <1>3, <1>4

(* A structure is settled: filled, or freed for want of a driver. *)
LEMMA Settled ==
  ASSUME SectionInv, FetchInv, place = "fetch", sections' = sections,
         NEW k, k = Head(needs), NEW n, n = Nth,
         \/ /\ held' = [held EXCEPT ![k] = "live"] /\ no_driver' = no_driver
            /\ Obtained(k, Len(Fill[k]))'
         \/ held' = [held EXCEPT ![k] = "gone"] /\ no_driver' = TRUE /\ k \notin OnHost,
         \A j \in Kinds \ {k} : Obtained(j, Len(Fill[j])) => Obtained(j, Len(Fill[j]))'
  PROVE  Filled(n)' /\ held' \in [Kinds -> {"none", "live", "gone"}]
<1>1. /\ k \in Kinds /\ n \in 1..Len(Needs) /\ k = Needs[n] /\ Filled(n - 1)
      /\ held \in [Kinds -> {"none", "live", "gone"}] /\ no_driver \in BOOLEAN
  BY Fetching DEF SectionInv
<1>2. /\ Len(Needs) \in Nat /\ \A i \in 1..Len(Needs) : Needs[i] \in Kinds
      /\ \A i, j \in 1..Len(Needs) : Needs[i] = Needs[j] => i = j
      /\ Needs' = Needs
  BY InSection DEF Needs
<1>3. /\ held' \in [Kinds -> {"none", "live", "gone"}] /\ (no_driver => no_driver')
      /\ \A j \in Kinds \ {k} : held'[j] = held[j]
      /\ \/ held'[k] = "live" /\ no_driver' = no_driver /\ Obtained(k, Len(Fill[k]))'
         \/ held'[k] = "gone" /\ no_driver' /\ k \notin OnHost
  BY <1>1
<1>4. \A i \in 1..n : i = n \/ (i \in 1..(n - 1) /\ Needs[i] \in Kinds \ {k})
  BY <1>1, <1>2
<1>5. ASSUME NEW i \in 1..n, NEW j, j = Needs[i]
      PROVE  \/ held'[j] = "live" /\ Obtained(j, Len(Fill[j]))'
             \/ held'[j] = "gone" /\ no_driver' /\ j \notin OnHost
  <2>1. CASE i = n
    BY <1>1, <1>3, <1>5, <2>1
  <2>2. CASE i # n
    <3>1. i \in 1..(n - 1) /\ j \in Kinds \ {k}
      BY <1>4, <1>5, <2>2
    <3>2. \/ held[j] = "live" /\ Obtained(j, Len(Fill[j]))
          \/ held[j] = "gone" /\ no_driver /\ j \notin OnHost
      BY <1>1, <1>5, <3>1 DEF Filled
    <3> QED  BY <1>3, <3>1, <3>2
  <2> QED  BY <2>1, <2>2
<1>6. ASSUME NEW j \in Kinds, held'[j] # "none" PROVE \E i \in 1..n : j = Needs[i]
  <2>1. CASE j = k
    BY <1>1, <2>1
  <2>2. CASE j # k
    <3>1. PICK i \in 1..(n - 1) : j = Needs[i]
      BY <1>1, <1>3, <1>6, <2>2 DEF Filled
    <3> QED  BY <1>1, <1>2, <3>1
  <2> QED  BY <2>1, <2>2
<1>7. ASSUME no_driver' PROVE \E j \in Kinds : held'[j] = "gone"
  <2>1. CASE held'[k] = "gone"
    BY <1>1, <2>1
  <2>2. CASE held'[k] # "gone"
    <3>1. no_driver
      BY <1>3, <1>7, <2>2
    <3>2. PICK j \in Kinds : held[j] = "gone"
      BY <1>1, <3>1 DEF Filled
    <3>3. PICK i \in 1..(n - 1) : j = Needs[i]
      BY <1>1, <3>2 DEF Filled
    <3>4. i \in 1..n /\ i # n
      BY <1>1, <1>2, <3>3
    <3>5. j # k
      BY <1>4, <3>3, <3>4
    <3> QED  BY <1>3, <3>2, <3>5
  <2> QED  BY <2>1, <2>2
<1>8. \A i \in 1..n :
        \/ held'[Needs'[i]] = "live" /\ Obtained(Needs[i], Len(Fill[Needs[i]]))'
        \/ held'[Needs'[i]] = "gone" /\ no_driver' /\ Needs'[i] \notin OnHost
  BY <1>2, <1>5 DEF Obtained
<1> QED
  BY <1>2, <1>3, <1>6, <1>7, <1>8 DEF Filled

(* The next structure, or the lines once all are settled. *)
LEMMA NextKeeps ==
  ASSUME DisplayInv, place = "fetch", NEW pointers, NEW driver \in BOOLEAN,
         NextStructure(pointers, driver), NEW k, k = Head(needs),
         UNCHANGED <<func, sections, str, shown>>, facts' \subseteq Facts,
         \/ /\ pointers = [held EXCEPT ![k] = "live"] /\ driver = ~no_driver
            /\ Obtained(k, Len(Fill[k]))'
         \/ pointers = [held EXCEPT ![k] = "gone"] /\ ~driver /\ k \notin OnHost,
         \A j \in Kinds \ {k} : Obtained(j, Len(Fill[j])) => Obtained(j, Len(Fill[j]))'
  PROVE  DisplayInv'
<1> USE DEF DisplayInv
<1>1. /\ held' = pointers /\ no_driver' = ~driver /\ needs' = Tail(needs)
      /\ needs' # <<>> => /\ requests' = Fill[Head(needs')] /\ place' = "fetch"
      /\ needs' = <<>> =>
           /\ place' = "lines"
           /\ lines' = Section[Head(sections)].lines
                         \o (IF driver THEN Section[Head(sections)].driver ELSE <<>>)
  BY DEF NextStructure, Fetch
<1>2. /\ Nth \in 1..Len(Needs) /\ Tail(needs) \in Seq(Kinds) /\ Rest(Tail(needs), Needs)
      /\ Passed(Tail(needs), Needs) = Nth /\ (Tail(needs) = <<>> => Nth = Len(Needs))
      /\ str = "garbage" /\ shown = <<>>
  BY Fetching
<1>3. /\ Head(sections) \in SectionNames /\ sections \in Seq(SectionNames)
      /\ sections # <<>>
      /\ Needs' = Needs /\ no_driver \in BOOLEAN
      /\ \A i \in 1..Len(sections) : sections[i] = "list" <=> func = "list"
  BY InSection DEF SectionInv, Within, Needs
<1>4. PICK n : n = Nth
  OBVIOUS
<1>5. Filled(n)' /\ held' \in [Kinds -> {"none", "live", "gone"}]
  BY <1>1, <1>3, <1>4, Settled
<1>6. SectionInv'
  BY <1>1, <1>2, <1>3, <1>5 DEF SectionInv, Within
<1>7. KeptInv'
  BY <1>1 DEF KeptInv, Before
<1>8. CASE needs' # <<>>
  <2>1. needs' \in Seq(Kinds) /\ Rest(needs', Needs) /\ Passed(needs', Needs) = n
    BY <1>1, <1>2, <1>4
  <2>2. PICK j \in Kinds : j = Head(needs')
    BY <1>8, <2>1
  <2>3. Fill[j] \in Seq(Range(Fill[j])) /\ Len(Fill[j]) \in Nat \ {0}
    BY FillFacts
  <2>4. /\ requests' = Fill[j] /\ requests' \in Seq(Range(Fill[j])) /\ requests' # <<>>
        /\ Rest(requests', Fill[j]) /\ Passed(requests', Fill[j]) = 0
    BY <1>1, <1>8, <2>2, <2>3, RestWhole
  <2>5. Obtained(j, 0)'
    BY DEF Obtained
  <2>6. FetchInv'
    BY <1>2, <1>3, <1>5, <1>8, <2>1, <2>2, <2>4, <2>5
     DEF FetchInv, Rest, Passed, Filled, Obtained
  <2>7. LinesInv'
    BY <1>1, <1>8 DEF LinesInv
  <2> QED  BY <1>6, <1>7, <2>6, <2>7
<1>9. CASE needs' = <<>>
  <2>1. n = Len(Needs) /\ place' = "lines"
    BY <1>1, <1>2, <1>4, <1>9
  <2>2. lines' = Section[Head(sections')].lines
                   \o (IF no_driver' THEN <<>> ELSE Section[Head(sections')].driver)
    BY <1>1, <1>9
  <2>3. Filled(Len(Needs))'
    BY <1>3, <1>5, <2>1 DEF Filled, Obtained
  <2>4. /\ lines' \in Seq(Range(lines')) /\ \A line \in Range(lines') : Backed(line)'
        /\ Follows(lines')
    BY <1>1, <1>3, <2>2, <2>3, LinesBacked
  <2>5. LinesInv'
    BY <1>2, <2>3, <2>4 DEF LinesInv, Own, ShownAnswered
  <2>6. FetchInv'
    BY <2>1 DEF FetchInv
  <2> QED  BY <1>6, <1>7, <2>5, <2>6
<1> QED
  BY <1>8, <1>9

(* While no card is shown nothing is held. *)
LEMMA Away ==
  ASSUME DisplayInv, place \in Before \cup {"open"},
         place' \in Before \cup {"open", "exit", "dead"}, UNCHANGED <<answers, display>>
  PROVE  DisplayInv'
<1>1. UNCHANGED <<held, no_driver, facts, shown>> /\ shown = <<>> /\ held = NoPointers
  BY DEF answers, display, DisplayInv, SectionInv, KeptInv, Before
<1>2. SectionInv' /\ KeptInv'
  BY <1>1 DEF DisplayInv, SectionInv, KeptInv, Within, Before
<1>3. FetchInv' /\ LinesInv'
  BY DEF FetchInv, LinesInv, Before
<1> QED
  BY <1>2, <1>3 DEF DisplayInv

LEMMA StartKeeps == DisplayInv /\ StartSection => DisplayInv'
  <1> SUFFICES ASSUME DisplayInv, StartSection PROVE DisplayInv'
    OBVIOUS
  <1> USE DEF DisplayInv
  <1>1. /\ place = "section" /\ place' = "fetch" /\ sections' = sections /\ func' = func
        /\ sections # <<>> /\ shown' = shown /\ shown = <<>>
        /\ needs' = Section[Head(sections)].needs /\ requests' = Fill[Head(needs')]
        /\ held' = NoPointers /\ no_driver' = FALSE /\ facts' = {} /\ str' = "garbage"
    BY DEF StartSection, Fetch, Display, cmdline, SectionInv
  <1>2. /\ sections \in Seq(SectionNames) /\ Head(sections) \in SectionNames
        /\ \A i \in 1..Len(sections) : sections[i] = "list" <=> func = "list"
    BY <1>1 DEF SectionInv, Within
  <1>3. needs' \in Seq(Kinds) /\ Len(needs') \in Nat \ {0} /\ Needs' = needs'
    BY <1>1, <1>2, SectionFacts DEF Needs
  <1>4. PICK k \in Kinds : k = Head(needs')
    BY <1>3
  <1>5. Fill[k] \in Seq(Range(Fill[k])) /\ Len(Fill[k]) \in Nat \ {0}
    BY FillFacts
  <1>6. \A k2 \in Kinds : held'[k2] = "none"
    BY <1>1 DEF NoPointers
  <1>7. held' \in [Kinds -> {"none", "live", "gone"}]
    BY <1>1 DEF NoPointers
  <1>8. SectionInv'
    BY <1>1, <1>2, <1>7 DEF SectionInv, Within, Facts
  <1>9. FetchInv'
    <2>1. /\ Rest(needs', needs') /\ Passed(needs', needs') = 0 /\ needs' # <<>>
      BY <1>3, RestWhole
    <2>2. /\ requests' = Fill[k] /\ requests' # <<>>
          /\ Rest(requests', Fill[k]) /\ Passed(requests', Fill[k]) = 0
      BY <1>1, <1>4, <1>5, RestWhole
    <2>3. Filled(0)' /\ Obtained(k, 0)'
      BY <1>1, <1>6 DEF Filled, Obtained
    <2> QED  BY <1>1, <1>3, <1>4, <1>5, <2>1, <2>2, <2>3
             DEF FetchInv, Rest, Passed, Filled, Obtained
  <1>10. LinesInv' /\ KeptInv'
    BY <1>1 DEF LinesInv, KeptInv, Before
  <1> QED
    BY <1>8, <1>9, <1>10

(* The last request of a structure waits for nothing: one is left. *)
LEMMA NotAskedKeeps == DisplayInv /\ NotAsked => DisplayInv'
  <1> SUFFICES ASSUME DisplayInv, NotAsked PROVE DisplayInv'
    OBVIOUS
  <1> USE DEF DisplayInv
  <1>1. /\ place = "fetch" /\ ~(Asked.when \subseteq facts) /\ requests' = Tail(requests)
        /\ UNCHANGED <<func, place, sections, needs, held, no_driver, facts, got,
                       lines, str, shown>>
    BY DEF NotAsked, Display, cmdline, display
  <1>2. PICK k : k = Head(needs)
    OBVIOUS
  <1>3. PICK p : p = Due
    OBVIOUS
  <1>4. /\ k \in Kinds /\ p \in 1..Len(Fill[k]) /\ Asked = Fill[k][p]
        /\ Tail(requests) \in Seq(Range(Fill[k])) /\ Rest(Tail(requests), Fill[k])
        /\ Passed(Tail(requests), Fill[k]) = p
        /\ Tail(requests) = <<>> => p = Len(Fill[k])
        /\ Obtained(k, p - 1)
    BY <1>1, <1>2, <1>3, Fetching
  <1>5. Tail(requests) # <<>>
    BY <1>1, <1>4, FillFacts
  <1>6. Obtained(k, p)
    <2>1. \A i \in 1..p : i \in 1..(p - 1) \/ i = p
      BY <1>4, FillFacts
    <2> QED  BY <1>1, <1>4, <2>1 DEF Obtained
  <1>7. FetchInv'
    <2>1. /\ Filled(Passed(needs, Needs))' /\ Needs' = Needs
      BY <1>1 DEF FetchInv, Filled, Obtained, Needs, Passed
    <2>2. Obtained(k, p)'
      BY <1>1, <1>6 DEF Obtained
    <2>3. Obtained(Head(needs), Passed(requests, Fill[Head(needs)]))'
      BY <1>1, <1>2, <1>4, <2>2 DEF Obtained, Passed
    <2>4. /\ needs' \in Seq(Kinds) /\ needs' # <<>> /\ Rest(needs', Needs')
          /\ requests' \in Seq(Range(Fill[Head(needs')])) /\ requests' # <<>>
          /\ Rest(requests', Fill[Head(needs')]) /\ str' = "garbage"
      BY <1>1, <1>2, <1>4, <1>5, <2>1 DEF FetchInv
    <2> QED  BY <2>1, <2>3, <2>4 DEF FetchInv, Rest
  <1>8. SectionInv' /\ LinesInv' /\ KeptInv'
    BY <1>1 DEF SectionInv, LinesInv, KeptInv, Before, Within
  <1> QED
    BY <1>7, <1>8

(* An answer that was kept, whichever way it came. *)
LEMMA AnsweredKeeps ==
  ASSUME DisplayInv, place = "fetch", NextRequest,
         UNCHANGED <<func, sections, str, shown>>,
         Asked.when \subseteq facts, facts \subseteq facts',
         facts' \subseteq facts \cup Asked.tells, got' = got \cup {Asked.name}
  PROVE  DisplayInv'
<1> USE DEF DisplayInv
<1>1. PICK k : k = Head(needs)
  OBVIOUS
<1>2. PICK p : p = Due
  OBVIOUS
<1>3. /\ k \in Kinds /\ p \in 1..Len(Fill[k]) /\ Asked = Fill[k][p]
      /\ Tail(requests) \in Seq(Range(Fill[k])) /\ Rest(Tail(requests), Fill[k])
      /\ Passed(Tail(requests), Fill[k]) = p
      /\ Tail(requests) = <<>> => p = Len(Fill[k])
      /\ Obtained(k, p - 1) /\ Filled(Nth - 1)
      /\ facts \subseteq Facts /\ no_driver \in BOOLEAN
  BY <1>1, <1>2, Fetching DEF SectionInv
<1>4. /\ facts' \subseteq Facts /\ Obtained(k, p)'
      /\ \A j \in Kinds \ {k} : Obtained(j, Len(Fill[j])) => Obtained(j, Len(Fill[j]))'
  BY <1>3, AnswerKeeps
<1>5. CASE Tail(requests) = <<>>
  <2>1. NextStructure([held EXCEPT ![k] = "live"], ~no_driver)
    BY <1>1, <1>5 DEF NextRequest
  <2>2. Obtained(k, Len(Fill[k]))'
    BY <1>3, <1>4, <1>5
  <2>3. (~no_driver) \in BOOLEAN
    OBVIOUS
  <2> QED  BY <1>1, <1>4, <2>1, <2>2, <2>3, NextKeeps
<1>6. CASE Tail(requests) # <<>>
  <2>1. /\ requests' = Tail(requests)
        /\ UNCHANGED <<needs, held, no_driver, place, lines>>
    BY <1>6 DEF NextRequest
  <2>2. PICK n : n = Passed(needs, Needs)
    OBVIOUS
  <2>3. /\ Filled(n) /\ Needs' = Needs /\ needs' = needs
        /\ \A i \in 1..n : i \in 1..Len(Needs) /\ i # Nth
    <3>1. Nth \in 1..Len(Needs) /\ n + 1 = Nth /\ Filled(n) /\ Len(Needs) \in Nat
      BY <2>2, Fetching, InSection DEF Nth, FetchInv
    <3>2. n \in Nat
      <4>1. Passed(needs, Needs) \in Nat
        <5>1. /\ needs \in Seq(Kinds) /\ needs # <<>> /\ Rest(needs, Needs)
              /\ Needs \in Seq(Kinds)
          BY InSection DEF FetchInv
        <5> QED  BY <5>1, RestTail
      <4> QED  BY <2>2, <4>1
    <3> QED  BY <2>1, <3>1, <3>2 DEF Needs
  <2>4. Filled(n)'
    <3>1. \A i \in 1..n : Needs[i] \in Kinds \ {k}
      <4>1. k = Needs[Nth] /\ Nth \in 1..Len(Needs)
        BY <1>1, Fetching
      <4> QED  BY <2>3, <4>1, InSection
    <3>2. ASSUME NEW i \in 1..n, NEW j, j = Needs[i]
          PROVE  \/ held'[j] = "live" /\ Obtained(j, Len(Fill[j]))'
                 \/ held'[j] = "gone" /\ no_driver' /\ j \notin OnHost
      <4>1. \/ held[j] = "live" /\ Obtained(j, Len(Fill[j]))
            \/ held[j] = "gone" /\ no_driver /\ j \notin OnHost
        BY <2>3, <3>2 DEF Filled
      <4> QED  BY <1>4, <2>1, <3>1, <3>2, <4>1
    <3>3. \A i \in 1..n :
            \/ held'[Needs'[i]] = "live" /\ Obtained(Needs[i], Len(Fill[Needs[i]]))'
            \/ held'[Needs'[i]] = "gone" /\ no_driver' /\ Needs'[i] \notin OnHost
      BY <2>3, <3>2 DEF Obtained
    <3> QED  BY <2>1, <2>3, <3>3 DEF Filled
  <2>5. FetchInv'
    <3>1. Obtained(Head(needs), Passed(requests, Fill[Head(needs)]))'
      BY <1>1, <1>3, <1>4, <2>1 DEF Obtained, Passed
    <3>2. Filled(Passed(needs, Needs))'
      BY <2>2, <2>3, <2>4 DEF Filled, Obtained, Passed
    <3>3. /\ needs' \in Seq(Kinds) /\ needs' # <<>> /\ Rest(needs', Needs')
          /\ requests' \in Seq(Range(Fill[Head(needs')])) /\ requests' # <<>>
          /\ Rest(requests', Fill[Head(needs')]) /\ str' = "garbage"
      BY <1>1, <1>3, <1>6, <2>1, <2>3 DEF FetchInv
    <3> QED  BY <3>1, <3>2, <3>3 DEF FetchInv, Rest
  <2>6. SectionInv'
    BY <1>4, <2>1 DEF SectionInv, Within
  <2>7. LinesInv' /\ KeptInv'
    BY <2>1 DEF LinesInv, KeptInv, Before
  <2> QED  BY <2>5, <2>6, <2>7
<1> QED
  BY <1>5, <1>6

LEMMA NoDriverKeeps == DisplayInv /\ NoDriver => DisplayInv'
  <1> SUFFICES ASSUME DisplayInv, NoDriver PROVE DisplayInv'
    OBVIOUS
  <1> USE DEF DisplayInv
  <1>1. PICK k : k = Head(needs)
    OBVIOUS
  <1>2. /\ place = "fetch" /\ Asked.by = "ras" /\ facts' = facts /\ got' = got
        /\ NextStructure([held EXCEPT ![k] = "gone"], FALSE)
        /\ UNCHANGED <<func, sections, str, shown>>
    BY <1>1 DEF NoDriver, Answering, Display, cmdline
  <1>3. k \in Kinds /\ Due \in 1..Len(Fill[k]) /\ Asked = Fill[k][Due]
    BY <1>1, <1>2, Fetching
  <1>4. k \notin OnHost
    BY <1>2, <1>3, FillFacts DEF RequestOk
  <1>5. /\ facts' \subseteq Facts
        /\ \A j \in Kinds \ {k} : Obtained(j, Len(Fill[j])) => Obtained(j, Len(Fill[j]))'
    BY <1>2 DEF SectionInv, Obtained
  <1> QED
    BY <1>1, <1>2, <1>4, <1>5, NextKeeps

LEMMA FailedKeeps == DisplayInv /\ RequestFailed => DisplayInv'
  <1> SUFFICES ASSUME DisplayInv, RequestFailed PROVE DisplayInv'
    OBVIOUS
  <1> USE DEF DisplayInv
  <1>1. /\ place = "fetch" /\ place' = "close"
        /\ held' = [held EXCEPT ![Head(needs)] = "gone"]
        /\ UNCHANGED <<no_driver, facts, shown>>
    BY DEF RequestFailed, Answering, display
  <1>2. /\ Head(needs) \in Kinds /\ shown = <<>>
        /\ held \in [Kinds -> {"none", "live", "gone"}] /\ no_driver \in BOOLEAN
        /\ facts \subseteq Facts
    BY <1>1, Fetching DEF SectionInv
  <1>3. held' \in [Kinds -> {"none", "live", "gone"}] /\ held'[Head(needs)] = "gone"
    BY <1>1, <1>2
  <1>4. SectionInv'
    BY <1>1, <1>2, <1>3 DEF SectionInv, Within
  <1>5. KeptInv'
    BY <1>1, <1>2, <1>3 DEF KeptInv, Before
  <1>6. FetchInv' /\ LinesInv'
    BY <1>1 DEF FetchInv, LinesInv
  <1> QED
    BY <1>4, <1>5, <1>6

LEMMA LineKeeps ==
  ASSUME DisplayInv, NEW silent \in BOOLEAN, ShowLine(silent)
  PROVE  DisplayInv'
<1> USE DEF DisplayInv
<1>1. /\ place = "lines" /\ lines # <<>> /\ lines' = Tail(lines)
      /\ UNCHANGED <<func, place, sections, held, no_driver, facts, got>>
  BY DEF ShowLine, Display, cmdline, answers
<1>2. /\ lines \in Seq(Range(lines)) /\ \A line \in Range(lines) : Backed(line)
      /\ Filled(Len(Needs)) /\ Own(str) /\ (str = "garbage" => Follows(lines))
  BY <1>1 DEF LinesInv
<1>3. /\ Head(lines) \in Range(lines) /\ lines' \in Seq(Range(lines'))
      /\ Range(lines') \subseteq Range(lines)
  BY <1>1, <1>2, SeqTail
<1> DEFINE field == Head(lines).field
           withheld == \/ ~(Head(lines).when \subseteq facts)
                       \/ field \in Locked /\ "access" \in facts
           text == IF withheld THEN "N/A" ELSE IF ~silent THEN field
                   ELSE IF field = "serial_number" THEN "garbage" ELSE str
<1>4. Backed(Head(lines))
  BY <1>2, <1>3
<1>5. withheld => Withheld(field)
  BY <1>4 DEF Backed, Waits, Withheld
<1>6. ~withheld => Given(field)
  BY <1>4 DEF Backed, Given
<1>7. /\ shown' = <<field, text>> /\ (silent => field \in Silent /\ ~withheld)
      /\ str' = IF silent \/ withheld \/ field \notin Texts THEN str ELSE field
  BY DEF ShowLine
<1>8. str = "garbage" => /\ field \notin Late
                         /\ field \notin {Writer(f) : f \in Late} => Follows(lines')
  BY <1>1, <1>2, FollowsTail
<1>9. field \in {Writer(f) : f \in Late} => field \in Texts /\ ~silent /\ ~withheld
  <2>1. {Writer(f) : f \in Late} = {"smc_fwversion", "processor_stepping"}
    BY DEF Late, Writer
  <2>2. ASSUME field \in {"smc_fwversion", "processor_stepping"} PROVE ~Withheld(field)
    BY <2>2 DEF Withheld, Locked
  <2>3. ASSUME field \in {"smc_fwversion", "processor_stepping"}
        PROVE  field \in Texts /\ field \notin Silent
    BY <2>3 DEF Texts, Silent
  <2> QED  BY <1>5, <1>7, <2>1, <2>2, <2>3
<1>10. \A t \in Texts : t # "garbage"
  BY DEF Texts
<1> HIDE DEF field, withheld, text
<1>11. Own(str') /\ (str' = "garbage" => Follows(lines'))
  <2>1. CASE str' = str
    <3>1. Own(str')
      BY <1>2, <2>1
    <3>2. ASSUME str' = "garbage" PROVE Follows(lines')
      <4>1. field \notin {Writer(f) : f \in Late}
        <5>1. ASSUME field \in {Writer(f) : f \in Late} PROVE FALSE
          <6>1. str' = field /\ field \in Texts
            BY <1>7, <1>9, <5>1
          <6> QED  BY <1>10, <3>2, <6>1
        <5> QED  BY <5>1
      <4> QED  BY <1>8, <2>1, <3>2, <4>1
    <3> QED  BY <3>1, <3>2
  <2>2. CASE str' # str
    <3>1. str' = field /\ field \in Texts /\ ~withheld
      BY <1>7, <2>2
    <3> QED  BY <1>6, <1>10, <3>1 DEF Own
  <2> QED  BY <2>1, <2>2
<1>12. ASSUME NEW f, NEW t, f = field, t = text
       PROVE  \/ t = "N/A" /\ Withheld(f)
              \/ t = f /\ Given(f)
              \/ f \in Silent /\ t \in Texts /\ Given(t)
              \/ f \in {"flash_version", "serial_number"} /\ t = "garbage"
  <2>1. CASE withheld
    BY <1>5, <1>12, <2>1 DEF text
  <2>2. CASE ~withheld /\ ~silent
    BY <1>6, <1>12, <2>2 DEF text
  <2>3. CASE ~withheld /\ silent /\ f = "serial_number"
    BY <1>12, <2>3 DEF text
  <2>4. CASE ~withheld /\ silent /\ f # "serial_number"
    <3>1. t = str /\ f \in Silent
      BY <1>7, <1>12, <2>4 DEF text
    <3>2. CASE str = "garbage"
      <4>1. f \notin Late
        BY <1>8, <1>12, <3>2
      <4> QED  BY <2>4, <3>1, <3>2, <4>1 DEF Silent, Late
    <3>3. CASE str # "garbage"
      BY <1>2, <3>1, <3>3 DEF Own
    <3> QED  BY <3>2, <3>3
  <2> QED  BY <2>1, <2>2, <2>3, <2>4
<1>13. ShownAnswered'
  <2>1. shown'[1] = field /\ shown'[2] = text
    BY <1>7
  <2>2. /\ \A f : Withheld(f)' <=> Withheld(f)
        /\ \A f : Given(f)' <=> Given(f)
    BY <1>1 DEF Withheld, Given
  <2> QED  BY <1>12, <2>1, <2>2 DEF ShownAnswered, Withheld, Given
<1>14. Own(str)'
  BY <1>1, <1>11 DEF Own, Given
<1>15. \A line \in Range(lines') : Backed(line)'
  BY <1>1, <1>2, <1>3 DEF Backed
<1>16. Filled(Len(Needs))'
  BY <1>1, <1>2 DEF Filled, Obtained, Needs
<1>17. LinesInv'
  BY <1>3, <1>11, <1>13, <1>14, <1>15, <1>16 DEF LinesInv
<1>18. SectionInv' /\ FetchInv' /\ KeptInv'
  BY <1>1 DEF SectionInv, FetchInv, KeptInv, Within, Before
<1> QED
  BY <1>17, <1>18

(* What the end of a section frees is held; a structure that is left, not    *)
(* by the list, was left because there was no driver.                        *)
LEMMA FreesHeld ==
  ASSUME SectionInv, LinesInv, place = "lines"
  PROVE  /\ \A k \in Frees : held[k] = "live"
         /\ func # "list" =>
              \A k \in Kinds : held[k] = "live" => k \in Frees \/ no_driver
         /\ no_driver => \E k \in Kinds \ Frees : held[k] = "gone"
<1> DEFINE s == Section[Head(sections)]
           asked == Range(Needs)
<1>1. /\ s.frees \subseteq OnHost \cap asked /\ s.driver_frees \subseteq asked
      /\ func # "list" => asked \subseteq s.frees \cup s.driver_frees
      /\ \A k \in asked : \E i \in 1..Len(Needs) : k = Needs[i]
      /\ \A i \in 1..Len(Needs) : Needs[i] \in asked
  BY InSection, SectionFacts DEF Needs
<1>2. /\ \A k \in asked : \/ held[k] = "live"
                          \/ held[k] = "gone" /\ no_driver /\ k \notin OnHost
      /\ \A k \in Kinds : held[k] # "none" => k \in asked
      /\ no_driver => \E k \in Kinds : held[k] = "gone"
  <2>1. Filled(Len(Needs))
    BY DEF LinesInv
  <2> HIDE DEF asked
  <2> QED  BY <1>1, <2>1 DEF Filled
<1>3. Frees = s.frees \cup (IF no_driver THEN {} ELSE s.driver_frees)
  BY DEF Frees
<1> HIDE DEF s, asked
<1> QED
  BY <1>1, <1>2, <1>3

LEMMA EndKeeps == DisplayInv /\ EndSection => DisplayInv'
  <1> SUFFICES ASSUME DisplayInv, EndSection PROVE DisplayInv'
    OBVIOUS
  <1> USE DEF DisplayInv
  <1>1. /\ place = "lines" /\ place' = "section" /\ sections' = Tail(sections)
        /\ held' = [k \in Kinds |-> IF k \in Frees THEN "none" ELSE held[k]]
        /\ shown' = <<>> /\ UNCHANGED <<func, no_driver, facts>>
    BY DEF EndSection, Display, cmdline
  <1>2. /\ sections \in Seq(SectionNames) /\ sections # <<>>
        /\ \A i \in 1..Len(sections) : sections[i] = "list" <=> func = "list"
        /\ held \in [Kinds -> {"none", "live", "gone"}] /\ no_driver \in BOOLEAN
        /\ facts \subseteq Facts
    BY <1>1 DEF SectionInv, Within
  <1>3. /\ sections' \in Seq(SectionNames)
        /\ \A i \in 1..Len(sections') : sections'[i] = "list" <=> func = "list"
    <2>1. /\ sections' \in Seq(SectionNames) /\ Len(sections') = Len(sections) - 1
          /\ \A i \in 1..Len(sections') : sections'[i] = sections[i + 1]
      BY <1>1, <1>2, HeadTailProperties
    <2>2. \A i \in 1..Len(sections') : i + 1 \in 1..Len(sections)
      BY <1>2, <2>1
    <2> QED  BY <1>2, <2>1, <2>2
  <1>4. held' \in [Kinds -> {"none", "live", "gone"}]
    BY <1>1, <1>2
  <1>5. SectionInv'
    BY <1>1, <1>2, <1>3, <1>4 DEF SectionInv, Within
  <1>6. ASSUME func # "list", NEW k \in Kinds, held'[k] = "live"
        PROVE  \E j \in Kinds : held'[j] = "gone"
    <2>1. k \notin Frees /\ held[k] = "live"
      BY <1>1, <1>6
    <2>2. no_driver
      BY <1>1, <1>6, <2>1, FreesHeld
    <2>3. PICK j \in Kinds \ Frees : held[j] = "gone"
      BY <1>1, <2>2, FreesHeld
    <2> QED  BY <1>1, <2>3
  <1>7. KeptInv'
    BY <1>1, <1>6 DEF KeptInv, Before
  <1>8. FetchInv' /\ LinesInv'
    BY <1>1 DEF FetchInv, LinesInv
  <1> QED
    BY <1>5, <1>7, <1>8

LEMMA OpenedKeeps == OptionInv /\ DisplayInv /\ mic_open_device(TRUE) => DisplayInv'
  <1> SUFFICES ASSUME OptionInv, DisplayInv, mic_open_device(TRUE) PROVE DisplayInv'
    OBVIOUS
  <1>1. /\ place = "open" /\ place' = "section" /\ sections' = Sections
        /\ UNCHANGED <<func, held, no_driver, facts, shown>>
    BY DEF mic_open_device, cmdline, answers, display
  <1>2. shown = <<>> /\ held = NoPointers
    BY <1>1 DEF DisplayInv, SectionInv, KeptInv
  <1>3. SectionInv'
    BY <1>1, <1>2, SectionsOk DEF DisplayInv, SectionInv, Within
  <1>4. KeptInv'
    BY <1>1, <1>2 DEF KeptInv, Before, NoPointers
  <1>5. FetchInv' /\ LinesInv'
    BY <1>1 DEF FetchInv, LinesInv
  <1> QED
    BY <1>3, <1>4, <1>5 DEF DisplayInv

LEMMA CloseKeeps == DisplayInv /\ mic_close_device => DisplayInv'
  <1> SUFFICES ASSUME DisplayInv, mic_close_device PROVE DisplayInv'
    OBVIOUS
  <1>1. /\ place' = "open" /\ held' = NoPointers /\ no_driver' = FALSE /\ facts' = {}
        /\ shown' = <<>>
    BY DEF mic_close_device
  <1>2. SectionInv' /\ KeptInv'
    BY <1>1 DEF SectionInv, KeptInv, Within, NoPointers
  <1>3. FetchInv' /\ LinesInv'
    BY <1>1 DEF FetchInv, LinesInv
  <1> QED
    BY <1>2, <1>3 DEF DisplayInv

LEMMA DisplayStep == OptionInv /\ DisplayInv /\ [Next]_vars => DisplayInv'
  <1> SUFFICES ASSUME OptionInv, DisplayInv, [Next]_vars PROVE DisplayInv'
    OBVIOUS
  <1>1. CASE ReadOptions \/ dispatch
    <2>1. place = "options" /\ UNCHANGED <<answers, display>>
      BY <1>1 DEF ReadOptions, Flag, DeviceOption, DeviceAll, GroupOption, BadOption,
                  ArgumentMissed, OptionsRefused, Reading, Idle, dispatch
    <2>2. place' \in {"options", "scan", "open", "exit"}
      BY <1>1 DEF ReadOptions, Flag, DeviceOption, DeviceAll, GroupOption, BadOption,
                  ArgumentMissed, OptionsRefused, Reading, Idle, dispatch
    <2> QED  BY <2>1, <2>2, Away DEF Before
  <1>2. CASE ListCards
    <2>1. /\ place \in {"scan", "rescan"} /\ UNCHANGED <<answers, display>>
          /\ place' \in {"rescan", "open", "dead", "exit"}
      BY <1>2 DEF ListCards, mic_get_devices, Rescan, NoDevices, Listed
    <2> QED  BY <2>1, Away DEF Before
  <1>3. ASSUME NEW opened \in BOOLEAN, mic_open_device(opened) PROVE DisplayInv'
    <2>1. CASE opened
      <3>1. opened = TRUE
        BY <2>1
      <3> QED  BY <1>3, <3>1, OpenedKeeps
    <2>2. CASE ~opened
      <3>1. place = "open" /\ place' = "open" /\ UNCHANGED <<answers, display>>
        BY <1>3, <2>2 DEF mic_open_device
      <3> QED  BY <3>1, Away
    <2> QED  BY <2>1, <2>2
  <1>4. CASE Answered
    <2>1. PICK settled \in SUBSET Asked.tells : facts' = facts \cup settled
      BY <1>4 DEF Answered
    <2>2. facts \subseteq facts' /\ facts' \subseteq facts \cup Asked.tells
      BY <2>1
    <2>3. /\ place = "fetch" /\ NextRequest /\ Asked.when \subseteq facts
          /\ got' = got \cup {Asked.name} /\ UNCHANGED <<func, sections, str, shown>>
      BY <1>4 DEF Answered, Answering, Display, cmdline
    <2> QED  BY <2>2, <2>3, AnsweredKeeps
  <1>5. ASSUME NEW text \in {"number", "empty", "junk"}, HexAnswered(text) PROVE DisplayInv'
    <2>1. /\ place = "fetch" /\ NextRequest /\ Asked.when \subseteq facts /\ facts' = facts
          /\ got' = got \cup {Asked.name} /\ UNCHANGED <<func, sections, str, shown>>
      BY <1>5 DEF HexAnswered, Answering, Display, cmdline
    <2> QED  BY <2>1, AnsweredKeeps
  <1>6. CASE AllShown
    <2>1. place = "open" /\ place' = "exit" /\ UNCHANGED <<answers, display>>
      BY <1>6 DEF AllShown
    <2> QED  BY <2>1, Away
  <1>7. CASE UNCHANGED vars
    <2>1. UNCHANGED <<func, place, sections, needs, requests, held, no_driver, facts, got,
                      lines, str, shown>>
      BY <1>7 DEF vars, cmdline, answers, display
    <2>2. SectionInv' /\ KeptInv'
      BY <2>1 DEF DisplayInv, SectionInv, KeptInv
    <2>3. FetchInv' /\ LinesInv'
      BY <2>1 DEF DisplayInv, FetchInv, LinesInv, Filled, Obtained, Backed, Own, Given,
                  Withheld, ShownAnswered, Needs, Rest, Passed
    <2> QED  BY <2>2, <2>3 DEF DisplayInv
  <1> QED
    BY <1>1, <1>2, <1>3, <1>4, <1>5, <1>6, <1>7, StartKeeps, NotAskedKeeps, NoDriverKeeps,
       FailedKeeps, LineKeeps, EndKeeps, CloseKeeps
     DEF Next, ShowCard, Done

LEMMA InitInv == Init => IInv
  <1> SUFFICES ASSUME Init PROVE IInv
    OBVIOUS
  <1>1. MaxWords \in Nat /\ Cardinality(Cards) \in Nat /\ NoCard \notin Cards
    BY MicInfoAssumption, FS_CardinalityType DEF NoCard
  <1>2. OptionInv
    <2>1. /\ words = 0 /\ 0 \in 0..MaxWords /\ cnt = [o \in Options |-> 0]
          /\ "device" \in Options
      BY <1>1 DEF Init, Options
    <2>2. cnt \in [Options -> 0..MaxWords] /\ \A o \in Options : cnt[o] = 0
      BY <2>1
    <2>3. /\ progname \in {"mpssinfo", "micinfo"} /\ func \in Options
          /\ device \in Cards \cup {NoCard} /\ group \in Groups
          /\ error_cnt \in {0, 1} /\ required \in BOOLEAN
      BY DEF Init, Options, Groups
    <2>4. cnt["device"] = 0 /\ \A o \in Options : cnt[o] <= words
      BY <2>1, <2>2
    <2> QED  BY <2>1, <2>2, <2>3, <2>4 DEF OptionInv
  <1>3. CardInv
    BY <1>1 DEF Init, CardInv, Honest, Places, Before, Within
  <1>4. StreamInv
    BY DEF Init, StreamInv
  <1>5. SectionInv /\ KeptInv
    BY DEF Init, SectionInv, KeptInv, Before, Within, NoPointers
  <1>6. FetchInv /\ LinesInv
    BY DEF Init, FetchInv, LinesInv
  <1> QED
    BY <1>2, <1>3, <1>4, <1>5, <1>6 DEF IInv, DisplayInv

LEMMA Inductive == Spec => []IInv
  <1>1. IInv /\ [Next]_vars => IInv'
    BY OptionStep, CardStep, StreamStep, DisplayStep DEF IInv
  <1> QED
    BY <1>1, InitInv, PTL DEF Spec

-------------------------------------------------------------------------------
(* The results.                                                              *)

(* Every variable keeps to its values, whatever words, cards and answers     *)
(* there are; in particular the count of an option never exceeds the words   *)
(* read, and the first scan never more cards than there may be.              *)
THEOREM TypeCorrect == Spec => []TypeOK
  <1>1. IInv => TypeOK
    BY DEF IInv, OptionInv, CardInv, StreamInv, DisplayInv, SectionInv, TypeOK, Places,
           Before, Within, Facts
  <1> QED
    BY <1>1, Inductive, PTL

(* mpssinfo.c reads a structure and frees it only while the library holds    *)
(* it, and leaks one only in a section that lost another, or in the list.    *)
THEOREM PointersCorrect == Spec => []PointersKept
  <1>1. IInv => PointersKept
    <2> SUFFICES ASSUME IInv PROVE PointersKept
      OBVIOUS
    <2>1. ASSUME place = "lines", lines = <<>>, NEW k \in Frees PROVE held[k] = "live"
      BY <2>1, FreesHeld DEF IInv, DisplayInv
    <2>2. ASSUME place = "lines", lines # <<>>, Head(lines).field \notin Direct
          PROVE  held[KindOf(Head(lines).field)] = "live"
      <3>1. lines \in Seq(Range(lines)) /\ \A line \in Range(lines) : Backed(line)
        BY <2>2 DEF IInv, DisplayInv, LinesInv
      <3>2. Head(lines) \in Range(lines)
        BY <2>2, <3>1, SeqTail
      <3> QED  BY <2>2, <3>1, <3>2 DEF Backed
    <2>3. KeptInv
      BY DEF IInv, DisplayInv
    <2> QED  BY <2>1, <2>2, <2>3 DEF PointersKept, KeptInv
  <1> QED
    BY <1>1, Inductive, PTL

(* A line of mic.c shows its own field, answered in this section, or N/A     *)
(* when the card has none; a getter that writes nothing leaves an earlier    *)
(* answered text of the section, and an unwritten buffer only on the lines   *)
(* of the flash version and of the serial number.                            *)
THEOREM ShownCorrect == Spec => []ShownAnswered
  <1>1. IInv => ShownAnswered
    <2> SUFFICES ASSUME IInv PROVE ShownAnswered
      OBVIOUS
    <2>1. CASE shown = <<>>
      BY <2>1 DEF ShownAnswered
    <2>2. CASE shown # <<>>
      BY <2>2 DEF IInv, DisplayInv, SectionInv, LinesInv
    <2> QED  BY <2>1, <2>2
  <1> QED
    BY <1>1, Inductive, PTL

(* get_processor_info() gives an attribute another one's number, or zero,    *)
(* only after a file that was empty or held no number.                       *)
THEOREM ProcessorCorrect == Spec => []ProcessorOwn
  <1>1. IInv => ProcessorOwn
    BY DEF IInv, StreamInv, ProcessorOwn
  <1> QED
    BY <1>1, Inductive, PTL

(* The exit code of a display tells whether a card failed; that of a list,   *)
(* whether the last one did.                                                 *)
THEOREM ExitCorrect == Spec => []ExitHonest
  <1>1. IInv => ExitHonest
    BY DEF IInv, CardInv, Honest, ExitHonest
  <1> QED
    BY <1>1, Inductive, PTL
===============================================================================
