-------------------------------- MODULE Micsmc --------------------------------
(***************************************************************************)
(* The commands of micsmc (apps/micsmc): the command line, the order its   *)
(* options are performed in, and each option over its cards, with the      *)
(* objects of a card that stay from one option to the next and the         *)
(* configuration files that --pwrenable rewrites.  Changing the ECC mode   *)
(* is EccOps; here it is one step.                                         *)
(***************************************************************************)
EXTENDS MicDevice, Integers, FiniteSets

CONSTANTS Cards,      \* the names of the cards the host may have
          Spelled,    \* the options as they may be typed
          ArgLists,   \* the lists of words that may follow one
          MaxOptions, \* how many options are typed
          AVG_THROTTLE_SAMPLE_COUNT

(* The spellings of each option; two of them are two options to the parser. *)
Spellings ==
  {"-a", "--all", "-c", "--cores", "-f", "--freq", "-i", "--info", "-l", "--lost", "--online",
   "--offline", "-m", "--mem", "-t", "--temp", "--ecc", "--turbo", "--led", "--pthrottle",
   "--tthrottle", "--pwrenable", "--pwrstatus", "--timeout", "--verbose", "-h", "--help", "-v",
   "--version"}

Known ==
  [s \in Spellings |->
     CASE s \in {"-a", "--all"} -> "all"     [] s \in {"-c", "--cores"} -> "cores"
       [] s \in {"-f", "--freq"} -> "freq"   [] s \in {"-i", "--info"} -> "info"
       [] s \in {"-l", "--lost"} -> "lost"   [] s \in {"-m", "--mem"} -> "mem"
       [] s \in {"-t", "--temp"} -> "temp"   [] s \in {"-h", "--help"} -> "help"
       [] s \in {"-v", "--version"} -> "version"
       [] s = "--online" -> "online"         [] s = "--offline" -> "offline"
       [] s = "--ecc" -> "ecc"               [] s = "--turbo" -> "turbo"
       [] s = "--led" -> "led"               [] s = "--timeout" -> "timeout"
       [] s = "--pthrottle" -> "pthrottle"   [] s = "--tthrottle" -> "tthrottle"
       [] s = "--pwrenable" -> "pwrenable"   [] s = "--pwrstatus" -> "pwrstatus"
       [] s = "--verbose" -> "verbose"]

(* The names "help" knows: those of the spellings, without their dashes.    *)
OptionNames == {Known[s] : s \in DOMAIN Known} \cup {"a", "c", "f", "i", "l", "m", "t", "h", "v"}
Features == {"cpufreq", "corec6", "pc3", "pc6"}
Verbs == {"status", "enable", "disable"}

AllWords == UNION {Range(args) : args \in ArgLists}

ASSUME MicsmcAssumption ==
  /\ IsFiniteSet(Cards) /\ Cards \cap (Features \cup Verbs \cup {"all", "device"}) = {}
  /\ ArgLists \subseteq Seq(AllWords)
  /\ MaxOptions \in Nat /\ AVG_THROTTLE_SAMPLE_COUNT \in Nat \ {0}

VARIABLES
  typed, ordered_args_,        \* how many options were read; those to perform
  exit_code_, timeout_,        \* timeout_ is "default" or "given"
  place,
  words,                       \* the words left to read the option's cards from
  subs, device_nums, avail_dev_nums,  \* the displays left of the option, its
                               \* cards, and those --all found online
  todo, card, steps,           \* the cards and the steps of the display left
  devices_,                    \* the cards that are open
  obj,                         \* the objects of a card, of one run
  sample1,                     \* the first sample of perform_cores_opt()
  conf, content, enabled,      \* /etc/mpss/<card>.conf; what was read of it;
                               \* the features to enable
  changed, advised,            \* cards changed by the option ("success");
                               \* the restart was advised
  missed,                      \* history: why something asked for was not done
  refused, found, unread, fault \* history: the words of the option that were
                               \* no card's name; the cards it found online;
                               \* the cards whose sample failed; the files a
                               \* fault cut

(* Something was not done: an error was reported; an option with the same   *)
(* spelling came before, with other words; a configuration file was not     *)
(* read or not written whole.                                               *)
Reasons == {"error", "repeated", "file"}

cmdline == <<typed, ordered_args_, timeout_>>
loop == <<words, refused, subs, device_nums, avail_dev_nums, todo, card, steps>>
objects == <<devices_, obj, sample1>>
files == <<conf, content, enabled, changed, advised, fault>>
vars == <<cmdline, exit_code_, place, loop, objects, files, missed, found, unread>>

(* The objects that are ever read without an update just before.            *)
Kept == {"PCI_CONFIG_INFO", "PROC_INFO", "CORE_UTIL_INFO"}
NoCard == "none"

Init_Allocated ==
  /\ typed = 0 /\ ordered_args_ = <<>> /\ timeout_ = "default"
  /\ exit_code_ = 0 /\ place = "parse"
  /\ words = <<>> /\ subs = <<>> /\ device_nums = <<>> /\ avail_dev_nums = <<>>
  /\ todo = <<>> /\ card = NoCard /\ steps = <<>>
  /\ devices_ = {}
  /\ obj = [c \in Cards |-> [f \in Kept |-> IF f = "CORE_UTIL_INFO" THEN "blank" ELSE "none"]]
  /\ sample1 = "none"
  /\ conf = [c \in Cards |-> [lines |-> "all", pm |-> {"as before"}]]
  /\ content = "none" /\ enabled = {} /\ changed = {} /\ advised = FALSE
  /\ missed = {} /\ refused = {} /\ found = {} /\ unread = {} /\ fault = {}

Init ==
  /\ typed = 0 /\ ordered_args_ = <<>> /\ timeout_ = "default"
  /\ exit_code_ = 0 /\ place = "parse"
  /\ words = <<>> /\ subs = <<>> /\ device_nums = <<>> /\ avail_dev_nums = <<>>
  /\ todo = <<>> /\ card = NoCard /\ steps = <<>>
  /\ devices_ = {} /\ obj = [c \in Cards |-> [f \in Kept |-> "none"]]
  /\ sample1 = "none"
  /\ conf = [c \in Cards |-> [lines |-> "all", pm |-> {"as before"}]]
  /\ content = "none" /\ enabled = {} /\ changed = {} /\ advised = FALSE
  /\ missed = {} /\ refused = {} /\ found = {} /\ unread = {} /\ fault = {}

-------------------------------------------------------------------------------
(* What each display asks the card for, in order, and what it shows.        *)

driver_version == Sysfs("driver version")
apart == Sysfs("samples that differ")

Shows(asked, values) == [steps |-> asked, values |-> values]

perform_info_opt ==
  Shows(<< Update("PCI_CONFIG_INFO"), Update("CORE_UTIL_INFO"), Update("VERSION_INFO"),
           Update("PROC_INFO"), Ask(driver_version) >>,
        {"device_id", "processor_steppingid", "uos_version", "flash_version", "driver version",
         "num_cores"})

perform_temp_opt == Shows(<< Update("THERMAL_INFO") >>, Temperatures)

perform_freq_opt ==
  Shows(<< Update("CORES_INFO"), Update("POWER_UTIL_INFO"), Update("POWER_LIMIT_INFO") >>,
        {"cores_frequency", "total_power_w0", "power_lmrk", "power_hmrk", "power_phys_limit"})

perform_mem_opt ==
  Shows(<< Update("MEM_UTIL_INFO") >>, {"total_memory_size", "available_memory_size"})

(* Two samples of the utilization, the first of the object there is.  The   *)
(* last step is the refusal of two samples of the same instant.             *)
perform_cores_opt ==
  Shows(<< Get("CORE_UTIL_INFO"), Update("CORE_UTIL_INFO"), Ask(apart) >>,
        {"num_cores", "threads_core", "jiffy_counter", "user_sum", "sys_sum", "user_counters",
         "sys_counters"})

perform_lost_opt ==
  Shows(<< Ask(is_ras_avail), Ask(sysfs_attribute), Ask(post_code) >>,
        {"a connection", "an attribute", "POST_CODE"})

perform_online_opt == Shows(<< Ask(is_ras_avail), Ask(sysfs_attribute) >>, {"an attribute"})
perform_offline_opt == Shows(<< Ask(is_ras_avail), Ask(sysfs_attribute) >>, {"an attribute"})
perform_ecc_status == Shows(<< Update("MEM_INFO") >>, {"ecc_mode"})

perform_turbo_status ==
  Shows(<< Update("TURBO_INFO") >>, {"turbo_state_valid", "turbo_mode"})

perform_turbo_set ==
  Shows(<< Update("TURBO_INFO"), Ask(set_turbo_mode) >>, {"turbo_state_valid"})

perform_led_status == Shows(<< Ask(led_alert) >>, {"LED_READ"})
perform_led_set == Shows(<< Ask(set_led_alert) >>, {})

Throttle == [i \in 1..AVG_THROTTLE_SAMPLE_COUNT |-> Update("THROTTLE_INFO")]
Ttl == {"active", "current_len", "count", "time"}
perform_pthrottle_opt == Shows(Throttle, {"power_ttl_" \o q : q \in Ttl})
perform_tthrottle_opt == Shows(Throttle, {"thermal_ttl_" \o q : q \in Ttl})

perform_pwrstatus_opt == Shows(<< Update("PM_CONFIG_INFO") >>, DOMAIN PmConfig)

(* --pwrenable and the first pass of --all show nothing of the card.        *)
Displayed ==
  [info |-> perform_info_opt, temp |-> perform_temp_opt, freq |-> perform_freq_opt,
   mem |-> perform_mem_opt, cores |-> perform_cores_opt, lost |-> perform_lost_opt,
   online |-> perform_online_opt, offline |-> perform_offline_opt,
   ecc |-> perform_ecc_status, turbo |-> perform_turbo_status,
   turbo_set |-> perform_turbo_set, led |-> perform_led_status, led_set |-> perform_led_set,
   pthrottle |-> perform_pthrottle_opt, tthrottle |-> perform_tthrottle_opt,
   pwrstatus |-> perform_pwrstatus_opt, pwrenable |-> Shows(<<>>, {}),
   verify |-> Shows(<<>>, {})]

Steps == [d \in DOMAIN Displayed |-> Displayed[d].steps]

(* No display shows a value its own steps did not make available.           *)
ASSUME DisplayAssumption ==
  \A d \in DOMAIN Displayed : Displayed[d].values \subseteq Available(Steps[d])

NotChecked == {"lost", "online", "offline", "pwrenable"}
All == << "info", "temp", "freq", "mem", "cores" >>

(* A card that has no turbo mode: its number and stepping are shown.        *)
Refuse == [do |-> "refuse", feature |-> "turbo"]
Unsupported == << Get("PCI_CONFIG_INFO"), Get("PROC_INFO"), Refuse >>

(* A card is online when its RAS server answers and its state says so.      *)
get_device_status(ras_avail, state, mode, scif_status) ==
  IF ~ras_avail THEN "unavailable"
  ELSE IF state = "online" THEN "online"
  ELSE IF state = "ready" /\ mode = "N/A" THEN "loaded"
  ELSE IF state = "ready" /\ mode = "linux" /\ scif_status = "initializing" THEN "ready"
  ELSE IF state = "ready" /\ mode = "linux" /\ scif_status = "online" THEN "started"
  ELSE "unknown"

Statuses == {get_device_status(r, s, m, f) : r \in BOOLEAN, s \in {"online", "ready", "booting"},
             m \in {"N/A", "linux", "elf"}, f \in {"initializing", "online", "offline"}}

-------------------------------------------------------------------------------
(* The command line.                                                        *)

Frame == UNCHANGED <<loop, objects, files, found, unread>>

(* Only the first of two options spelled alike is kept, with its words.     *)
parse_args(o, args) ==
  /\ place = "parse" /\ typed < MaxOptions /\ typed' = typed + 1
  /\ ordered_args_' =
       IF \E opt \in Range(ordered_args_) : opt.option = o
       THEN ordered_args_
       ELSE Append(ordered_args_, [option |-> o, args |-> args])
  /\ missed' = IF \E opt \in Range(ordered_args_) : opt.option = o /\ opt.args # args
               THEN missed \cup {"repeated"} ELSE missed
  /\ UNCHANGED <<timeout_, exit_code_, place>> /\ Frame

NoArguments == {"lost", "online", "offline", "verbose", "version"}

Valid(opt) ==
  /\ opt.option \in DOMAIN Known
  /\ Known[opt.option] \in NoArguments => opt.args = <<>>
  /\ Known[opt.option] = "timeout" => opt.args = << "number" >>

ToPerform(opt) == Valid(opt) /\ Known[opt.option] \notin {"timeout", "verbose"}

(* An error does not stop the other options.                                *)
process_cmd_line_args ==
  /\ place = "parse" /\ ordered_args_ # <<>> /\ place' = "timeout"
  /\ LET wrong == \E opt \in Range(ordered_args_) : ~Valid(opt)
     IN /\ exit_code_' = (IF wrong THEN 1 ELSE 0)
        /\ missed' = (IF wrong THEN missed \cup {"error"} ELSE missed)
  /\ UNCHANGED cmdline /\ Frame

(* --timeout comes first, and its number is used even when it is followed   *)
(* by words that are an error.                                              *)
perform_timeout_opt ==
  /\ place = "timeout" /\ place' = "options"
  /\ LET timed == {opt \in Range(ordered_args_) : opt.option = "--timeout"}
         number == \E opt \in timed : opt.args # <<>> /\ opt.args[1] = "number"
     IN /\ timeout_' = IF number THEN "given" ELSE timeout_
        /\ exit_code_' = IF timed = {} \/ number THEN exit_code_ ELSE 1
  /\ UNCHANGED <<ordered_args_, typed, missed>> /\ Frame

(* Without options the graphical program is run, and main() returns what    *)
(* system() does: 256 times its exit code, the signal that killed it, or -1.*)
(* The parent of micsmc sees 8 bits of this.                                *)
GuiStatuses == {0, 256, 127 * 256, 9, -1}

run_gui(status) ==
  /\ place = "parse" /\ ordered_args_ = <<>>
  /\ place' = "exit" /\ exit_code_' = status % 256
  /\ UNCHANGED <<cmdline, missed>> /\ Frame

AllPerformed ==
  /\ place = "options" /\ ordered_args_ = <<>> /\ place' = "exit"
  /\ UNCHANGED <<cmdline, exit_code_, missed>> /\ Frame

Opt == Head(ordered_args_)
Performing(names) == /\ place = "options" /\ ordered_args_ # <<>>
                     /\ ToPerform(Opt) /\ Known[Opt.option] \in names
NextOption == ordered_args_' = Tail(ordered_args_)

(* The options in error, and those that were read before the others.        *)
PassOver ==
  /\ place = "options" /\ ordered_args_ # <<>> /\ ~ToPerform(Opt) /\ NextOption
  /\ UNCHANGED <<typed, timeout_, exit_code_, place, missed>> /\ Frame

perform_version_opt ==
  /\ Performing({"version"}) /\ NextOption
  /\ UNCHANGED <<typed, timeout_, exit_code_, place, missed>> /\ Frame

perform_help_opt ==
  /\ Performing({"help"}) /\ NextOption
  /\ LET all_known == \A i \in DOMAIN Opt.args : Opt.args[i] \in OptionNames
     IN /\ exit_code_' = IF all_known THEN exit_code_ ELSE 1
        /\ missed' = (IF all_known THEN missed ELSE missed \cup {"error"})
  /\ UNCHANGED <<typed, timeout_, place>> /\ Frame

-------------------------------------------------------------------------------
(* The cards of an option: the words after those that say what to do.  A    *)
(* word that is no card's name is an error and is passed over.              *)

FeatureWord(w) == w \in Features \cup {"all"}
Leading(args) == CHOOSE n \in 0..Len(args) :
                   /\ \A i \in 1..n : FeatureWord(args[i])
                   /\ n < Len(args) => ~FeatureWord(args[n + 1])

Enables(args) == IF "all" \in Range(args) THEN Features ELSE Range(args) \cap Features

Verb(opt) == IF Known[opt.option] \in {"ecc", "turbo", "led"} /\ opt.args # <<>>
                /\ opt.args[1] \in Verbs
             THEN opt.args[1] ELSE "none"

DeviceWords(opt) ==
  CASE Verb(opt) # "none" -> Tail(opt.args)
    [] Known[opt.option] = "pwrenable" ->
         SubSeq(opt.args, Leading(opt.args) + 1, Len(opt.args))
    [] OTHER -> opt.args

IsCard(w) == w \in Cards
WithoutDevice(args) == IF args[1] = "device" THEN Tail(args) ELSE args

Displays(opt) ==
  IF Known[opt.option] = "all" THEN << "verify" >> \o All
  ELSE IF Verb(opt) \in {"enable", "disable"} /\ Known[opt.option] = "turbo" THEN << "turbo_set" >>
  ELSE IF Verb(opt) \in {"enable", "disable"} /\ Known[opt.option] = "led" THEN << "led_set" >>
  ELSE << Known[opt.option] >>

Start(nums) ==
  /\ place' = "card" /\ subs' = Displays(Opt) /\ device_nums' = nums /\ todo' = nums
  /\ enabled' = Enables(SubSeq(Opt.args, 1, Leading(Opt.args)))
  /\ UNCHANGED <<cmdline, words, refused, avail_dev_nums, card, steps, objects, conf, content,
                 changed, advised, found, fault, unread>>

NotStarted ==
  /\ place' = "options" /\ NextOption /\ exit_code_' = 1 /\ missed' = missed \cup {"error"}
  /\ refused' = {}
  /\ UNCHANGED <<typed, timeout_, words, subs, device_nums, avail_dev_nums, todo, card, steps,
                 objects, files, found, unread>>

Commands == {"all", "cores", "freq", "info", "lost", "online", "offline", "mem", "temp", "ecc",
             "turbo", "led", "pthrottle", "tthrottle", "pwrenable", "pwrstatus"}

ReadCards ==
  /\ Performing(Commands) /\ DeviceWords(Opt) # <<>>
  /\ place' = "words" /\ words' = WithoutDevice(DeviceWords(Opt))
  /\ UNCHANGED <<cmdline, exit_code_, missed, refused, subs, device_nums, avail_dev_nums, todo,
                 card, steps, objects, files, found, unread>>

get_device_num_Quiet ==
  /\ place = "words" /\ words # <<>> /\ words' = Tail(words)
  /\ IF IsCard(Head(words))
     THEN device_nums' = Append(device_nums, Head(words)) /\ UNCHANGED <<exit_code_, missed>>
     ELSE missed' = missed \cup {"error"} /\ UNCHANGED <<exit_code_, device_nums>>
  /\ UNCHANGED refused
  /\ UNCHANGED <<cmdline, place, subs, avail_dev_nums, todo, card, steps, objects, files, found,
                 unread>>

get_device_num ==
  /\ place = "words" /\ words # <<>> /\ words' = Tail(words)
  /\ IF IsCard(Head(words))
     THEN /\ device_nums' = Append(device_nums, Head(words))
          /\ UNCHANGED <<exit_code_, missed, refused>>
     ELSE /\ exit_code_' = 1 /\ missed' = missed \cup {"error"}
          /\ refused' = refused \cup {Head(words)} /\ UNCHANGED device_nums
  /\ UNCHANGED <<cmdline, place, subs, avail_dev_nums, todo, card, steps, objects, files, found,
                 unread>>

get_device_nums ==
  /\ place = "words" /\ words = <<>>
  /\ IF device_nums = <<>> THEN NotStarted
     ELSE Start(device_nums) /\ UNCHANGED <<exit_code_, missed>>

get_avail_device_nums(present) ==
  /\ Performing(Commands) /\ DeviceWords(Opt) = <<>>
  /\ IF present = <<>> THEN NotStarted
     ELSE Start(present) /\ UNCHANGED <<exit_code_, missed>>

(* --ecc enable and --ecc disable: one thread per card, see EccOps.         *)
EccSet == Known[Opt.option] = "ecc" /\ Verb(Opt) \in {"enable", "disable"}

perform_ecc_set(ok, some) ==
  /\ place = "card" /\ EccSet /\ todo # <<>> /\ (ok => some)
  /\ todo' = <<>> /\ advised' = (advised \/ some)
  /\ exit_code_' = (IF ok THEN exit_code_ ELSE 1)
  /\ missed' = (IF ok THEN missed ELSE missed \cup {"error"})
  /\ UNCHANGED <<cmdline, place, words, refused, subs, device_nums, avail_dev_nums, card, steps, objects,
                 conf, content, enabled, changed, fault, found, unread>>

-------------------------------------------------------------------------------
(* The loop over the cards.  An exception ends the card's iteration.        *)

Leave ==
  /\ place' = "card" /\ card' = NoCard /\ steps' = <<>> /\ sample1' = "none"
  /\ content' = "none"

CardDone == Leave /\ UNCHANGED <<exit_code_, missed>>
CardFailed_Counts == Leave /\ exit_code_' = exit_code_ + 1 /\ missed' = missed \cup {"error"}
CardFailed_Quiet == Leave /\ UNCHANGED exit_code_ /\ missed' = missed \cup {"error"}
CardFailed == Leave /\ exit_code_' = 1 /\ missed' = missed \cup {"error"}
Loop == UNCHANGED <<cmdline, words, refused, subs, device_nums, todo>>

Display == Head(subs)

(* The devices_verified of the displays of --all.                           *)
Verified == Display \in NotChecked \/ (Known[Opt.option] = "all" /\ Display # "verify")

get_device(opened) ==
  /\ place = "card" /\ todo # <<>> /\ ~EccSet
  /\ todo[1] \in devices_ => opened
  /\ todo' = Tail(todo)
  /\ IF opened
     THEN /\ card' = todo[1] /\ devices_' = devices_ \cup {todo[1]}
          /\ place' = (IF Display = "pwrenable" THEN "conf"
                       ELSE IF Verified THEN "steps" ELSE "check")
          /\ steps' = Steps[Display]
          /\ UNCHANGED <<exit_code_, missed, sample1, content>>
     ELSE CardFailed /\ UNCHANGED devices_
  /\ UNCHANGED <<cmdline, words, refused, subs, device_nums, avail_dev_nums, obj, conf, enabled,
                 changed, advised, fault, found, unread>>

validate_device_is_online(status) ==
  /\ place = "check"
  /\ IF status # "online" THEN CardFailed /\ UNCHANGED <<found, avail_dev_nums>>
     ELSE /\ found' = found \cup {card}
          /\ IF Display = "verify"
             THEN CardDone /\ avail_dev_nums' = Append(avail_dev_nums, card)
             ELSE /\ place' = "steps"
                  /\ UNCHANGED <<card, steps, sample1, content, exit_code_, missed, avail_dev_nums>>
  /\ Loop /\ UNCHANGED <<devices_, obj, conf, enabled, changed, advised, fault, unread>>

perform_all_Unfiltered ==
  /\ place = "card" /\ todo = <<>> /\ Display = "verify" /\ avail_dev_nums # <<>>
  /\ subs' = All /\ UNCHANGED device_nums /\ todo' = device_nums
  /\ avail_dev_nums' = <<>>
  /\ UNCHANGED <<cmdline, words, refused, exit_code_, place, card, steps, objects, files, missed,
                 found, unread>>

perform_all ==
  /\ place = "card" /\ todo = <<>> /\ Display = "verify" /\ avail_dev_nums # <<>>
  /\ subs' = All /\ device_nums' = avail_dev_nums /\ todo' = avail_dev_nums
  /\ avail_dev_nums' = <<>>
  /\ UNCHANGED <<cmdline, words, refused, exit_code_, place, card, steps, objects, files, missed,
                 found, unread>>

NextDisplay ==
  /\ place = "card" /\ todo = <<>> /\ Display # "verify" /\ Tail(subs) # <<>>
  /\ subs' = Tail(subs) /\ todo' = device_nums
  /\ UNCHANGED <<cmdline, words, refused, exit_code_, place, device_nums, avail_dev_nums, card,
                 steps, objects, files, missed, found, unread>>

OptionDone_AllCards ==
  /\ place = "card" /\ todo = <<>>
  /\ IF Display = "verify" THEN avail_dev_nums = <<>> ELSE Tail(subs) = <<>>
  /\ place' = "options" /\ NextOption
  /\ subs' = <<>> /\ device_nums' = <<>> /\ avail_dev_nums' = <<>> /\ refused' = {} /\ found' = {}
  /\ enabled' = {} /\ changed' = {}
  /\ advised' = (advised \/ (changed # {} /\ changed = Range(device_nums)))
  /\ UNCHANGED <<typed, timeout_, exit_code_, words, todo, card, steps, objects, conf, content,
                 fault, missed, unread>>

OptionDone ==
  /\ place = "card" /\ todo = <<>>
  /\ IF Display = "verify" THEN avail_dev_nums = <<>> ELSE Tail(subs) = <<>>
  /\ place' = "options" /\ NextOption
  /\ subs' = <<>> /\ device_nums' = <<>> /\ avail_dev_nums' = <<>> /\ refused' = {} /\ found' = {}
  /\ enabled' = {} /\ changed' = {} /\ advised' = (advised \/ changed # {})
  /\ UNCHANGED <<typed, timeout_, exit_code_, words, todo, card, steps, objects, conf, content,
                 fault, missed, unread>>

-------------------------------------------------------------------------------
(* The steps of a display.  mic_info_obj::update() frees the object first;  *)
(* a failure leaves none, except that of the core utilization, which is     *)
(* allocated apart and stays, all zero.                                     *)

Step == Head(steps)
Object == obj[card][Step.feature]
Renewing == Step.do = "update" \/ (Step.do = "get" /\ Object = "none")
KeepObject(state) ==
  obj' = IF Step.feature \in Kept THEN [obj EXCEPT ![card][Step.feature] = state] ELSE obj

Answered ==
  /\ place = "steps" /\ steps # <<>> /\ Step.do # "refuse"
  /\ IF Step.do # "ask" /\ Renewing THEN KeepObject("read") ELSE UNCHANGED obj
  /\ sample1' = IF Step = Get("CORE_UTIL_INFO") THEN obj'[card]["CORE_UTIL_INFO"] ELSE sample1
  /\ \/ steps' = Tail(steps)
     \/ Step = Update("TURBO_INFO") /\ steps' = Unsupported
  /\ Loop /\ UNCHANGED <<exit_code_, place, avail_dev_nums, card, devices_, files, missed, found,
                         unread>>

Failed ==
  /\ place = "steps" /\ steps # <<>> /\ Step.do # "refuse"
  /\ Step.do = "get" => Renewing
  /\ CardFailed
  /\ IF Step.do = "ask" THEN UNCHANGED <<obj, unread>>
     ELSE IF Step.feature = "CORE_UTIL_INFO"
     THEN KeepObject("blank") /\ unread' = unread \cup {card}
     ELSE KeepObject("none") /\ UNCHANGED unread
  /\ Loop /\ UNCHANGED <<avail_dev_nums, devices_, conf, enabled, changed, advised, fault, found>>

Refused ==
  /\ place = "steps" /\ steps # <<>> /\ Step.do = "refuse" /\ CardFailed
  /\ Loop /\ UNCHANGED <<avail_dev_nums, devices_, obj, conf, enabled, changed, advised, fault,
                         found, unread>>

Shown ==
  /\ place = "steps" /\ steps = <<>> /\ CardDone
  /\ Loop /\ UNCHANGED <<avail_dev_nums, devices_, obj, conf, enabled, changed, advised, fault,
                         found, unread>>

(* The counters of a first sample without cores are read beyond their end.  *)
compute_dev_utilization ==
  /\ place = "steps" /\ steps = <<>> /\ Display = "cores" /\ sample1 # "read"
  /\ place' = "dead"
  /\ UNCHANGED <<cmdline, exit_code_, loop, objects, files, missed, found, unread>>

-------------------------------------------------------------------------------
(* set_mic_pm_config(): the file is read line by line, truncated, and       *)
(* written again; only its opening to write is checked.                     *)

Conf == UNCHANGED <<cmdline, words, refused, subs, device_nums, avail_dev_nums, todo, devices_, obj, enabled,
                    advised, found, unread>>

(* A fault of the file that the program does not look for.                  *)
Cut == fault' = fault \cup {card} /\ missed' = missed \cup {"file"}

read_conf(lines) ==
  /\ place = "conf" /\ place' = "write"
  /\ content' = lines
  /\ IF lines = conf[card].lines THEN UNCHANGED <<fault, missed>> ELSE Cut
  /\ Conf /\ UNCHANGED <<exit_code_, card, steps, sample1, conf, changed>>

open_conf(opened) ==
  /\ place = "write"
  /\ IF opened
     THEN /\ place' = "flush" /\ conf' = [conf EXCEPT ![card] = [lines |-> "none", pm |-> {}]]
          /\ UNCHANGED <<exit_code_, card, steps, sample1, content, missed>>
     ELSE CardFailed /\ UNCHANGED conf
  /\ Conf /\ UNCHANGED <<changed, fault>>

write_conf_OnlyLine(whole) ==
  /\ place = "flush"
  /\ IF whole
     THEN /\ conf' = [conf EXCEPT ![card] = [lines |-> "none", pm |-> enabled]]
          /\ UNCHANGED <<fault, missed>>
     ELSE Cut /\ UNCHANGED conf
  /\ changed' = changed \cup {card} /\ Leave /\ UNCHANGED exit_code_
  /\ Conf

write_conf(whole) ==
  /\ place = "flush"
  /\ IF whole
     THEN /\ conf' = [conf EXCEPT ![card] = [lines |-> content, pm |-> enabled]]
          /\ UNCHANGED <<fault, missed>>
     ELSE Cut /\ UNCHANGED conf
  /\ changed' = changed \cup {card} /\ Leave /\ UNCHANGED exit_code_
  /\ Conf

Interrupted ==
  /\ place = "flush" /\ place' = "dead"
  /\ Conf /\ UNCHANGED <<exit_code_, card, steps, sample1, conf, content, changed, fault, missed>>

-------------------------------------------------------------------------------
Done == place \in {"exit", "dead"} /\ UNCHANGED vars

Next ==
  \/ \E o \in Spelled, args \in ArgLists : parse_args(o, args)
  \/ process_cmd_line_args \/ perform_timeout_opt \/ AllPerformed
  \/ \E status \in GuiStatuses : run_gui(status)
  \/ PassOver \/ perform_version_opt \/ perform_help_opt
  \/ ReadCards \/ get_device_num \/ get_device_nums
  \/ \E present \in SUBSET Cards : get_avail_device_nums(SetToSeq(present))
  \/ \E ok, some \in BOOLEAN : perform_ecc_set(ok, some)
  \/ \E opened \in BOOLEAN : get_device(opened) \/ open_conf(opened)
  \/ \E status \in Statuses \cup {"error"} : validate_device_is_online(status)
  \/ perform_all \/ NextDisplay \/ OptionDone
  \/ Answered \/ Failed \/ Refused \/ Shown \/ compute_dev_utilization
  \/ \E lines \in {"all", "some", "none"} : read_conf(lines)
  \/ \E whole \in BOOLEAN : write_conf(whole)
  \/ Interrupted \/ Done

Spec == Init /\ [][Next]_vars
-------------------------------------------------------------------------------
Options == [option : Spelled, args : ArgLists]
AllSteps == (UNION {Range(Steps[d]) : d \in DOMAIN Steps}) \cup Range(Unsupported)
ConfType == [lines : {"all", "some", "none"}, pm : SUBSET (Features \cup {"as before"})]

LineType ==
  /\ typed \in 0..MaxOptions /\ ordered_args_ \in Seq(Options) /\ Len(ordered_args_) <= typed
  /\ timeout_ \in {"default", "given"}

CodeType ==
  /\ place \in {"parse", "timeout", "options", "words", "card", "check", "steps", "conf", "write",
                "flush", "exit", "dead"}
  /\ exit_code_ \in {0, 1} \cup {g % 256 : g \in GuiStatuses}

LoopType ==
  /\ words \in Seq(AllWords) /\ refused \subseteq AllWords
  /\ subs \in Seq(DOMAIN Steps) /\ steps \in Seq(AllSteps)
  /\ device_nums \in Seq(Cards) /\ avail_dev_nums \in Seq(Cards) /\ todo \in Seq(Cards)
  /\ card \in Cards \cup {NoCard}

ObjectType ==
  /\ devices_ \subseteq Cards /\ obj \in [Cards -> [Kept -> {"none", "blank", "read"}]]
  /\ sample1 \in {"none", "blank", "read"}
  /\ found \subseteq Cards /\ unread \subseteq Cards

FileType ==
  /\ conf \in [Cards -> ConfType] /\ content \in {"all", "some", "none"}
  /\ enabled \subseteq Features /\ changed \subseteq Cards /\ fault \subseteq Cards

(* The types of the command line, the loop, the objects and the files.      *)
TypeOK == /\ LineType /\ CodeType /\ LoopType /\ ObjectType /\ FileType
          /\ advised \in BOOLEAN /\ missed \subseteq Reasons

(* When options were given, the exit code is 0 exactly when every one was   *)
(* understood and done on every card it names, whatever order the failures  *)
(* came in (micsmc_cli::run(), the catch clauses of the loops over the      *)
(* cards) -- but for two things that the exit code never tells: an option   *)
(* spelled like an earlier one is dropped, whatever its words               *)
(* (cmd_line_args::parse_args(), a warning), and a configuration file that  *)
(* was not read or not written whole is reported as changed                 *)
(* (set_mic_pm_config() looks at neither).                                  *)
ExitHonest ==
  place = "exit" /\ typed > 0 => (exit_code_ = 0 <=> missed \subseteq {"repeated", "file"})

(* A card's utilization is computed from a sample that was never read only  *)
(* when the card failed to give one to an earlier option, or display of     *)
(* --all, of the same run (mic_info_obj::update() and get_data()).          *)
SampleExplained ==
  (place \in {"steps", "dead"} /\ Display = "cores" /\ sample1 = "blank") => card \in unread

(* No display but those that are about unavailable cards asks anything of a *)
(* card that the option did not find online; the five displays of --all     *)
(* rely on its first pass (micsmc_cli::perform_all()).                      *)
OnlineFirst ==
  (place = "steps" /\ Display \notin NotChecked) => card \in found

(* A card's configuration file keeps its other lines, unless it could not   *)
(* be read or written whole, or the program is stopped between truncating   *)
(* it and writing it again (linux_mpss_utils::set_mic_pm_config()).         *)
ConfKept ==
  \A c \in Cards : conf[c].lines = "all" \/ c \in fault \/ (card = c /\ place \in {"flush", "dead"})

(* Once a card's change is reported, its file enables all the features of   *)
(* the command line and no other, unless one of them was itself refused, as *)
(* the name of a card, with an error: it comes after a card or after a word *)
(* that is misspelt (perform_pwrenable_opt()).  The exception is a write    *)
(* that was cut short: the file is left without a line although the change  *)
(* was reported as a success.  (A card that is named twice has its file     *)
(* rewritten twice.)                                                        *)
FeaturesAsAsked ==
  \A c \in changed : \/ conf[c].pm = Enables(Opt.args)
                     \/ exit_code_ = 1 /\ \E w \in refused : FeatureWord(w)
                     \/ c \in fault /\ conf[c] = [lines |-> "none", pm |-> {}]
                     \/ card = c /\ place \in {"flush", "dead"}

(* When the program ends by itself with a card's file changed, it advised   *)
(* the restart, whichever card of the list failed.                          *)
RestartAdvised ==
  (place = "exit" /\ \E c \in Cards : conf[c].pm # {"as before"}) => advised
===============================================================================
