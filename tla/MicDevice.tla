------------------------------- MODULE MicDevice ------------------------------
(***************************************************************************)
(* The device class of micsmc (mic_device_class and mic_device_features):  *)
(* each of its features is one structure of the library, kept until it is  *)
(* updated, with the values the class gives out of it.                     *)
(***************************************************************************)
EXTENDS MicLib, SequencesExt

Keeps(kind, values) == [kind |-> kind, values |-> values]

THERMAL_INFO == Keeps("thermal", Temperatures)
CORES_INFO == Keeps("cores", {"cores_count", "cores_frequency"})
POWER_UTIL_INFO == Keeps("power_util", {"total_power_w0"})
POWER_LIMIT_INFO == Keeps("power_limit", {"power_phys_limit", "power_hmrk", "power_lmrk"})
MEM_UTIL_INFO == Keeps("memory_util", {"total_memory_size", "available_memory_size"})
THROTTLE_INFO == Keeps("throttle", DOMAIN ThrottleState)
PCI_CONFIG_INFO == Keeps("pci", {"device_id"})
VERSION_INFO == Keeps("version", {"uos_version", "flash_version"})
PROC_INFO == Keeps("processor", {"processor_steppingid"})
CORE_UTIL_INFO == Keeps("core_util", DOMAIN CoreUtil \ {"tick_count"})
MEM_INFO == Keeps("memory", {"ecc_mode"})
PM_CONFIG_INFO == Keeps("pm", DOMAIN PmConfig)
TURBO_INFO == Keeps("turbo", DOMAIN TurboState)

features_ ==
  [THERMAL_INFO |-> THERMAL_INFO, CORES_INFO |-> CORES_INFO,
   POWER_UTIL_INFO |-> POWER_UTIL_INFO, POWER_LIMIT_INFO |-> POWER_LIMIT_INFO,
   MEM_UTIL_INFO |-> MEM_UTIL_INFO, THROTTLE_INFO |-> THROTTLE_INFO,
   PCI_CONFIG_INFO |-> PCI_CONFIG_INFO, VERSION_INFO |-> VERSION_INFO,
   PROC_INFO |-> PROC_INFO, CORE_UTIL_INFO |-> CORE_UTIL_INFO,
   MEM_INFO |-> MEM_INFO, PM_CONFIG_INFO |-> PM_CONFIG_INFO,
   TURBO_INFO |-> TURBO_INFO]

(* A step of a display: a new object of a feature, the object there is (a   *)
(* new one when there is none), or a request of which nothing is kept.      *)
Update(f) == [do |-> "update", feature |-> f]
Get(f) == [do |-> "get", feature |-> f]
Ask(request) == [do |-> "ask", feature |-> request.name]

(* What the steps of a display make available to show.                      *)
Available(steps) ==
  UNION {IF s.do = "ask" THEN {s.feature} ELSE features_[s.feature].values : s \in Range(steps)}

(* Each value of a feature comes from a request of the structure it keeps.  *)
ASSUME FeatureAssumption ==
  \A f \in DOMAIN features_ :
    LET kind == features_[f].kind
    IN /\ features_[f].values \subseteq DOMAIN Getters[kind]
       /\ \A v \in features_[f].values : Getters[kind][v] \in Names(Fill[kind])
===============================================================================
