-------------------------------- MODULE MicLib --------------------------------
(***************************************************************************)
(* What libmicmgmt asks a card for and what it hands out of the answers:   *)
(* for each structure of the library the requests that fill it, in order   *)
(* (miclib/src/knc_device.cpp, host_platform.cpp), and for each getter the *)
(* request its value comes from (miclib/src/miclib.cpp).  A failed request *)
(* ends the filling; the library then frees the structure.                 *)
(***************************************************************************)
EXTENDS Naturals, Sequences

(* A request goes to the card over SCIF ("ras") or to a sysfs file of the   *)
(* driver; "hex" is a sysfs file whose number is read through one           *)
(* stringstream shared with the other files.  It is made when all of "when" *)
(* holds, and its answer settles the facts of "tells".                      *)
Ras(name) == [name |-> name, by |-> "ras", when |-> {}, tells |-> {}]
Sysfs(name) == [Ras(name) EXCEPT !.by = "sysfs"]
Hex(name) == [Ras(name) EXCEPT !.by = "hex"]

(* Both programs refuse what a getter may not give when the link registers *)
(* could not be read: the fact "access".                                    *)
PciRequests ==
  << Sysfs("PCI_CLASS"), Sysfs("PCI_SLOT_NAME"),
     [Sysfs("config") EXCEPT !.tells = {"access"}] >>

ProcessorRequests ==
  << Hex("model"), Hex("model_ext"), Hex("type"), Hex("family"),
     Hex("family_ext"), Sysfs("stepping"), Hex("stepping_data"),
     Hex("substepping_data") >>

ThermalRequests ==
  << [Ras("SMC_FW_VER") EXCEPT !.tells = {"boot"}],
     [Ras("SMC_HW_REV") EXCEPT !.tells = {"fan"}],
     [Ras("SMC_BOOT_LOADER_VER") EXCEPT !.when = {"boot"}],
     [Ras("SMC_FAN_PWM") EXCEPT !.when = {"fan"}],
     [Ras("SMC_FAN_RPM") EXCEPT !.when = {"fan"}],
     Ras("TEMP") >>

MemoryRequests ==
  << Ras("GDDR"), Sysfs("memsize"), Ras("GFREQ"), Ras("GVOLT"), Ras("ECC") >>

VersionRequests == << Ras("VER") >>

CoresRequests == << Ras("CLST"), Ras("CFREQ"), Ras("CVOLT") >>

PowerUtilRequests == << Ras("PWRUT") >>
PowerLimitRequests == << Ras("PWRLIM"), Ras("PWRLIM0"), Ras("PWRLIM1") >>
MemoryUtilRequests == << Ras("MEMUT") >>
CoreUtilRequests == << Ras("CUTIL") >>
ThrottleRequests == << Ras("TTL") >>
TurboRequests == << Ras("TURBO") >>
PmRequests == << Ras("PMCFG") >>

(* The getters: where the value comes from.                                 *)
PciConfig ==
  [class_code |-> "PCI_CLASS", domain |-> "PCI_SLOT_NAME",
   bus_no |-> "PCI_SLOT_NAME", device_no |-> "PCI_SLOT_NAME",
   vendor_id |-> "config", device_id |-> "config", revision_id |-> "config",
   subsystem_id |-> "config", link_speed |-> "config",
   link_width |-> "config", max_payload |-> "config", max_readreq |-> "config"]

ProcessorInfo ==
  [processor_model |-> "model", processor_model_ext |-> "model_ext",
   processor_type |-> "type", processor_family |-> "family",
   processor_family_ext |-> "family_ext", processor_stepping |-> "stepping",
   processor_steppingid |-> "stepping_data"]

Temperatures == {"die_temp", "gddr_temp", "fanin_temp", "fanout_temp",
                 "vccp_temp", "vddg_temp", "vddq_temp"}

ThermalValues ==
  [fsc_status |-> "SMC_HW_REV", fan_rpm |-> "SMC_FAN_RPM", fan_pwm |-> "SMC_FAN_PWM",
   die_temp |-> "TEMP", gddr_temp |-> "TEMP", fanin_temp |-> "TEMP", fanout_temp |-> "TEMP",
   vccp_temp |-> "TEMP", vddg_temp |-> "TEMP", vddq_temp |-> "TEMP"]

ThermalTexts ==
  [smc_fwversion |-> "SMC_FW_VER", smc_hwrevision |-> "SMC_HW_REV",
   smc_boot_loader_ver |-> "SMC_BOOT_LOADER_VER"]

ThermalInfo ==
  [v \in DOMAIN ThermalValues \cup DOMAIN ThermalTexts |->
     IF v \in DOMAIN ThermalTexts THEN ThermalTexts[v] ELSE ThermalValues[v]]

MemoryInfo ==
  [memory_vendor |-> "GDDR", memory_revision |-> "GDDR",
   memory_density |-> "GDDR", memory_speed |-> "GDDR", memory_type |-> "GDDR",
   memory_size |-> "memsize", memory_frequency |-> "GFREQ",
   memory_voltage |-> "GVOLT", ecc_mode |-> "ECC"]

VersionInfo == [uos_version |-> "VER", flash_version |-> "VER"]

CoresInfo ==
  [cores_count |-> "CLST", cores_frequency |-> "CFREQ",
   cores_voltage |-> "CVOLT"]

Rails == {"vccp", "vddg", "vddq"}
PowerUtil ==
  [v \in {"total_power_w0", "total_power_w1", "inst_power", "max_inst_power", "pcie_power",
         "c2x3_power", "c2x4_power"}
        \cup {r \o q : r \in Rails, q \in {"_power", "_current", "_voltage"}} |-> "PWRUT"]

PowerLimit ==
  [power_phys_limit |-> "PWRLIM", power_hmrk |-> "PWRLIM", power_lmrk |-> "PWRLIM",
   time_window0 |-> "PWRLIM0", time_window1 |-> "PWRLIM1"]

MemoryUtil ==
  [v \in {"total_memory_size", "available_memory_size", "memory_buffers_size"} |-> "MEMUT"]

Counts == {"idle", "nice", "sys", "user"}
CoreUtil ==
  [v \in {c \o q : c \in Counts, q \in {"_counters", "_sum"}}
        \cup {"jiffy_counter", "num_cores", "threads_core", "tick_count"} |-> "CUTIL"]

ThrottleState ==
  [v \in {w \o q : w \in {"thermal_ttl_", "power_ttl_"},
                  q \in {"active", "current_len", "count", "time"}} |-> "TTL"]

TurboState == [v \in {"turbo_state_valid", "turbo_state", "turbo_mode"} |-> "TURBO"]
PmConfig == [v \in {"cpufreq_mode", "corec6_mode", "pc3_mode", "pc6_mode"} |-> "PMCFG"]

(* Getters of the device itself: each makes its request when it is called.  *)
silicon_sku == Sysfs("SI_SKU")
serial_number == Ras("SERNO")
led_alert == Ras("LED_READ")
set_led_alert == Ras("LED_WRITE")
set_turbo_mode == Ras("TURBO_WRITE")
is_ras_avail == Ras("a connection")
sysfs_attribute == Sysfs("an attribute")
post_code == Sysfs("POST_CODE")

(* The getters that return E_MIC_ACCESS under the fact "access".            *)
Locked == {"link_speed", "link_width", "max_payload", "max_readreq"}

(* The getters that may leave the caller's buffer as it was: the version    *)
(* texts when they are not of the expected form, and the device's own       *)
(* getters when their request fails.                                        *)
Silent == {"uos_version", "flash_version", "silicon_sku", "serial_number"}

Fill ==
  [pci |-> PciRequests, processor |-> ProcessorRequests,
   thermal |-> ThermalRequests, memory |-> MemoryRequests,
   version |-> VersionRequests, cores |-> CoresRequests,
   power_util |-> PowerUtilRequests, power_limit |-> PowerLimitRequests,
   memory_util |-> MemoryUtilRequests, core_util |-> CoreUtilRequests,
   throttle |-> ThrottleRequests, turbo |-> TurboRequests, pm |-> PmRequests]

Getters ==
  [pci |-> PciConfig, processor |-> ProcessorInfo,
   thermal |-> ThermalInfo, memory |-> MemoryInfo,
   version |-> VersionInfo, cores |-> CoresInfo,
   power_util |-> PowerUtil, power_limit |-> PowerLimit,
   memory_util |-> MemoryUtil, core_util |-> CoreUtil,
   throttle |-> ThrottleState, turbo |-> TurboState, pm |-> PmConfig]

Names(requests) == {requests[i].name : i \in DOMAIN requests}
===============================================================================
