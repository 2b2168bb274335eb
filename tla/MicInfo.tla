------------------------------- MODULE MicInfo --------------------------------
(***************************************************************************)
(* mpssinfo and micinfo (apps/mpssinfo): the command line, the list of     *)
(* cards, and the display of a card, section by section, over libmicmgmt.  *)
(***************************************************************************)
EXTENDS MicLib, Integers, FiniteSets, FiniteSetsExt

CONSTANTS Cards,     \* the numbers of the cards the host may have
          N_DEVICES, \* the length of the first device list
          MaxWords   \* how many options the command line may have

ASSUME MicInfoAssumption ==
  /\ Cards \in SUBSET Nat /\ IsFiniteSet(Cards)
  /\ N_DEVICES \in Nat \ {0} /\ MaxWords \in Nat

VARIABLES
  progname,            \* "mpssinfo" or "micinfo"
  words,               \* how many options have been read (a bound)
  cnt, func, device, group, error_cnt,   \* struct args_list
  required,            \* the last long option takes an argument (indexptr)
  place,               \* where the program is
  first,               \* how many cards the first scan of the list saw
  todo, card,          \* the cards still to show; the one being shown
  sections, needs, requests,   \* what is left of the card, of the section,
                               \* and of the structure being filled
  held, no_driver,     \* the section's pointers, and its no_driver
  facts, got,          \* what the answers settled; the requests answered
  value, jam, odd, mixed,   \* get_processor_info(): the variable, the stream,
                       \* whether a file was empty or held no number, and
                       \* whether a field got what its file does not say
  lines, str, shown,   \* the lines left; whose text str holds; the last line
  failed, ret          \* the cards that could not be shown; the exit code

cmdline == <<words, cnt, func, device, group, error_cnt, required>>
answers == <<requests, held, no_driver, facts, got, value, jam, odd, mixed>>
display == <<lines, str, shown>>
vars == <<progname, cmdline, place, first, todo, card, sections, needs,
          answers, display, failed, ret>>

Options == {"list", "versions", "device", "group", "help"}
Groups == {"all", "ver", "board", "cores", "thermal", "gddr"}
NoCard == -1
Kinds == {"pci", "processor", "thermal", "memory", "version", "cores"}
NoPointers == [k \in Kinds |-> "none"]

Init ==
  /\ progname \in {"mpssinfo", "micinfo"}
  /\ words = 0
  /\ cnt = [o \in Options |-> 0] /\ func = "device"
  /\ device = NoCard /\ group = "all" /\ error_cnt = 0 /\ required = FALSE
  /\ place = "options"
  /\ first = 0 /\ todo = {} /\ card = NoCard
  /\ sections = <<>> /\ needs = <<>>
  /\ requests = <<>> /\ held = NoPointers /\ no_driver = FALSE
  /\ facts = {} /\ got = {} /\ value = "zero" /\ jam = FALSE
  /\ odd = FALSE /\ mixed = FALSE
  /\ lines = <<>> /\ str = "garbage" /\ shown = <<>>
  /\ failed = {} /\ ret = 0

-------------------------------------------------------------------------------
(* The command line.  micinfo (process_args) reads on after an error,       *)
(* mpssinfo (getopt_long) stops; both read every option before dispatch().  *)
(* The word after "help" is swallowed, whatever it is.                      *)

Reading == place = "options" /\ words < MaxWords
           /\ (progname = "mpssinfo" => error_cnt = 0)
Idle == UNCHANGED <<progname, first, todo, card, sections, needs, answers, display, failed>>

Seen == words' = words + 1
Counted(o) == cnt' = [cnt EXCEPT ![o] = @ + 1]

(* Only long options move indexptr; "required" outlives the option.         *)
Spelled(long, takesArgument) ==
  /\ progname = "micinfo" => ~long
  /\ required' = IF long THEN takesArgument ELSE required

Flag(o, long) ==
  /\ Reading /\ o \in {"list", "versions", "help"}
  /\ (o = "versions" /\ progname = "mpssinfo") => long
  /\ Spelled(long, FALSE) /\ ~required'
  /\ func' = o /\ Counted(o) /\ Seen
  /\ UNCHANGED <<device, group, error_cnt, place, ret>> /\ Idle

DeviceOption(d, long) ==
  /\ Reading /\ Spelled(long, TRUE)
  /\ func' = "device" /\ Counted("device") /\ Seen /\ device' = d
  /\ UNCHANGED <<group, error_cnt, place, ret>> /\ Idle

DeviceAll(long) ==
  /\ Reading /\ Spelled(long, TRUE)
  /\ func' = "device" /\ Seen /\ cnt' = [cnt EXCEPT !["device"] = 0]
  /\ UNCHANGED <<device, group, error_cnt, place, ret>> /\ Idle

GroupOption(g, long) ==
  /\ Reading /\ Spelled(long, TRUE)
  /\ func' = "group" /\ Counted("group") /\ Seen /\ group' = g
  /\ UNCHANGED <<device, error_cnt, place, ret>> /\ Idle

(* An unknown option, a missing or an invalid argument.                     *)
BadOption ==
  /\ Reading
  /\ func' = "help" /\ error_cnt' = 1 /\ words' = words + 1
  /\ UNCHANGED <<cnt, device, group, required, place, ret>> /\ Idle

(* main() of mpssinfo takes an option without an argument for one that      *)
(* lacks it, when the last long option took one.                            *)
ArgumentMissed ==
  /\ Reading /\ progname = "mpssinfo" /\ required
  /\ place' = "exit" /\ ret' = -1
  /\ UNCHANGED cmdline /\ Idle

(* mpssinfo: words that are no option are left for the end.                 *)
OptionsRefused ==
  /\ place = "options" /\ (error_cnt = 1 \/ progname = "mpssinfo")
  /\ place' = "exit" /\ ret' = 1
  /\ UNCHANGED cmdline /\ Idle

Contradictory ==
  \/ \E o \in Options : cnt[o] > 1
  \/ \E o \in {"versions", "list", "help"} : cnt[o] > 0 /\ \E p \in Options \ {o} : cnt[p] > 0

dispatch ==
  /\ place = "options" /\ error_cnt = 0
  /\ \/ /\ Contradictory
        /\ place' = "exit" /\ ret' = 1 /\ UNCHANGED todo
     \/ /\ ~Contradictory /\ func \in {"help", "versions"}
        /\ place' = "exit" /\ UNCHANGED <<todo, ret>>
     \/ /\ ~Contradictory /\ (func = "list" \/ (func \in {"device", "group"} /\ cnt["device"] = 0))
        /\ place' = "scan" /\ UNCHANGED <<todo, ret>>
     \/ /\ ~Contradictory /\ func \in {"device", "group"} /\ cnt["device"] # 0
        /\ place' = "open" /\ todo' = {device} /\ UNCHANGED ret
  /\ words' = 0 /\ required' = FALSE   \* not read again
  /\ cnt' = [o \in Options |-> 0] /\ device' = NoCard
  /\ UNCHANGED <<progname, func, group, error_cnt, first, card, sections, needs, answers, display, failed>>

-------------------------------------------------------------------------------
(* The list of cards: mic_get_devices() scans sysfs again when the first    *)
(* list is too short.  The cards present may change between the scans.      *)

Listed == <<progname, cmdline, card, sections, needs, answers, display, failed>>

mic_get_devices(present) ==
  /\ place = "scan"
  /\ IF Cardinality(present) > N_DEVICES
     THEN place' = "rescan" /\ first' = Cardinality(present) /\ UNCHANGED todo
     ELSE place' = "open" /\ todo' = present /\ UNCHANGED first
  /\ UNCHANGED <<Listed, ret>>

(* When the second scan counts another number, the list is freed, and freed *)
(* again by the handler of the exception this throws: the program dies.     *)
Rescan(present) ==
  /\ place = "rescan"
  /\ IF Cardinality(present) = first
     THEN place' = "open" /\ todo' = present
     ELSE place' = "dead" /\ UNCHANGED todo
  /\ UNCHANGED <<Listed, first, ret>>

(* The driver is not loaded, or an entry of the directory is malformed.     *)
NoDevices ==
  /\ place \in {"scan", "rescan"}
  /\ place' = "exit" /\ ret' = -1
  /\ UNCHANGED <<Listed, first, todo>>

-------------------------------------------------------------------------------
(* The sections: what each needs, the lines it shows in every case and the  *)
(* ones it shows with a driver only, and what it frees.                     *)

Line(field) == [field |-> field, when |-> {}]
When(fact, field) == [field |-> field, when |-> {fact}]

version_info ==
  [needs |-> <<"version", "thermal">>,
   lines |-> <<>>,
   driver |-> << Line("flash_version"), Line("smc_fwversion"),
                 When("boot", "smc_boot_loader_ver"), Line("uos_version"),
                 Line("serial_number") >>,
   frees |-> {}, driver_frees |-> {"thermal", "version"}]

board_info ==
  [needs |-> <<"pci", "processor", "thermal", "memory">>,
   lines |-> << Line("vendor_id"), Line("device_id"), Line("subsystem_id"),
                Line("processor_steppingid"), Line("link_width"), Line("link_speed"),
                Line("max_payload"), Line("max_readreq"), Line("processor_model"),
                Line("processor_model_ext"), Line("processor_type"),
                Line("processor_family"), Line("processor_family_ext"),
                Line("processor_stepping"), Line("silicon_sku") >>,
   driver |-> << Line("ecc_mode"), Line("smc_hwrevision") >>,
   frees |-> {"pci", "processor"}, driver_frees |-> {"thermal", "memory"}]

cores_info_Always ==
  [needs |-> <<"cores">>,
   lines |-> << Line("cores_count"), Line("cores_voltage"), Line("cores_frequency") >>,
   driver |-> <<>>, frees |-> {}, driver_frees |-> {"cores"}]

cores_info ==
  [needs |-> <<"cores">>, lines |-> <<>>,
   driver |-> << Line("cores_count"), Line("cores_voltage"), Line("cores_frequency") >>,
   frees |-> {}, driver_frees |-> {"cores"}]

thermal_info_NoFscCheck ==
  [needs |-> <<"thermal">>, lines |-> <<>>,
   driver |-> << Line("fsc_status"), Line("fan_rpm"), Line("fan_pwm"), Line("die_temp") >>,
   frees |-> {}, driver_frees |-> {"thermal"}]

thermal_info ==
  [needs |-> <<"thermal">>, lines |-> <<>>,
   driver |-> << Line("fsc_status"), When("fan", "fan_rpm"), When("fan", "fan_pwm"),
                 Line("die_temp") >>,
   frees |-> {}, driver_frees |-> {"thermal"}]

memory_info ==
  [needs |-> <<"memory">>, lines |-> <<>>,
   driver |-> << Line("memory_vendor"), Line("memory_revision"), Line("memory_density"),
                 Line("memory_size"), Line("memory_type"), Line("memory_speed"),
                 Line("memory_frequency"), Line("memory_voltage") >>,
   frees |-> {}, driver_frees |-> {"memory"}]

(* A card's line of the list; pci_config is never freed.                    *)
show_list ==
  [needs |-> <<"pci">>,
   lines |-> << Line("domain"), Line("bus_no"), Line("device_no"), Line("device_id"),
                Line("vendor_id") >>,
   driver |-> <<>>, frees |-> {}, driver_frees |-> {}]

Section ==
  [ver |-> version_info, board |-> board_info, cores |-> cores_info,
   thermal |-> thermal_info, gddr |-> memory_info, list |-> show_list]

Sections == IF func = "list" THEN <<"list">>
            ELSE IF group = "all" THEN <<"ver", "board", "cores", "thermal", "gddr">>
            ELSE <<group>>
-------------------------------------------------------------------------------
(* A card: mic_info(), or an iteration of show_list().  ret is the return   *)
(* value of the display: show_all() keeps a failure, show_list() the last   *)
(* card's result.                                                           *)

Missed_Adds(c) == ret' = ret - 1 /\ failed' = failed \cup {c}
Missed_Skips(c) == UNCHANGED ret /\ failed' = failed \cup {c}
Missed(c) == ret' = -1 /\ failed' = failed \cup {c}

mic_open_device(opened) ==
  /\ place = "open" /\ todo # {}
  /\ card' = Min(todo) /\ todo' = todo \ {card'}
  /\ IF opened
     THEN /\ place' = "section" /\ sections' = Sections
          /\ ret' = (IF func = "list" THEN 0 ELSE ret) /\ UNCHANGED failed
     ELSE Missed(card') /\ UNCHANGED <<place, sections>>
  /\ UNCHANGED <<progname, cmdline, first, needs, answers, display>>

AllShown ==
  /\ place = "open" /\ todo = {}
  /\ place' = "exit"
  /\ UNCHANGED <<progname, cmdline, first, todo, card, sections, needs, answers, display,
                 failed, ret>>

Display == UNCHANGED <<progname, cmdline, first, todo, card>>

(* The first request of a structure; its pointer is NULL until then.        *)
Fetch(kind) == requests' = Fill[kind]

StartSection ==
  /\ place = "section" /\ sections # <<>>
  /\ place' = "fetch" /\ needs' = Section[Head(sections)].needs
  /\ Fetch(Head(needs'))
  /\ held' = NoPointers /\ no_driver' = FALSE /\ facts' = {} /\ got' = {}
  /\ value' = "zero" /\ jam' = FALSE /\ odd' = FALSE /\ mixed' = FALSE
  /\ str' = "garbage"
  /\ Display /\ UNCHANGED <<sections, lines, shown, failed, ret>>

(* Once all structures were asked for, the lines.                           *)
NextStructure(pointers, driver) ==
  /\ held' = pointers /\ no_driver' = ~driver
  /\ needs' = Tail(needs)
  /\ IF needs' # <<>>
     THEN Fetch(Head(needs')) /\ UNCHANGED <<place, lines>>
     ELSE /\ place' = "lines" /\ requests' = <<>>
          /\ LET s == Section[Head(sections)]
             IN lines' = s.lines \o (IF driver THEN s.driver ELSE <<>>)

Asked == Head(requests)
Answering(by) == place = "fetch" /\ Asked.when \subseteq facts /\ Asked.by \in by

NotAsked ==
  /\ place = "fetch" /\ ~(Asked.when \subseteq facts)
  /\ requests' = Tail(requests)
  /\ Display /\ UNCHANGED <<place, sections, needs, held, no_driver, facts, got, value, jam,
                            odd, mixed, display, failed, ret>>

NextRequest ==
  IF Tail(requests) = <<>>
  THEN NextStructure([held EXCEPT ![Head(needs)] = "live"], ~no_driver)
  ELSE requests' = Tail(requests) /\ UNCHANGED <<needs, held, no_driver, place, lines>>

Answered ==
  /\ Answering({"ras", "sysfs"})
  /\ \E settled \in SUBSET Asked.tells : facts' = facts \cup settled
  /\ got' = got \cup {Asked.name}
  /\ NextRequest
  /\ Display /\ UNCHANGED <<sections, value, jam, odd, mixed, str, shown, failed, ret>>

(* ss << text; ss >> value; ss.clear(): text that is no number stays in the *)
(* stream in front of all that follows, and no text leaves value as it was. *)
HexAnswered_NoClear(text) ==
  /\ Answering({"hex"})
  /\ odd' = (odd \/ text # "number")
  /\ jam' = TRUE   \* the end of the first file's text
  /\ value' = IF jam THEN "zero" ELSE IF text = "empty" THEN value ELSE Asked.name
  /\ mixed' = (mixed \/ value' # Asked.name)
  /\ got' = got \cup {Asked.name}
  /\ NextRequest
  /\ Display /\ UNCHANGED <<sections, facts, str, shown, failed, ret>>

HexAnswered(text) ==
  /\ Answering({"hex"})
  /\ odd' = (odd \/ text # "number")
  /\ jam' = (jam \/ text = "junk")
  /\ value' = IF jam' THEN "zero" ELSE IF text = "empty" THEN value ELSE Asked.name
  /\ mixed' = (mixed \/ value' # Asked.name)
  /\ got' = got \cup {Asked.name}
  /\ NextRequest
  /\ Display /\ UNCHANGED <<sections, facts, str, shown, failed, ret>>

(* The library frees the structure and leaves the pointer as it was.        *)
NoDriver ==
  /\ Answering({"ras"})
  /\ NextStructure([held EXCEPT ![Head(needs)] = "gone"], FALSE)
  /\ Display /\ UNCHANGED <<sections, facts, got, value, jam, odd, mixed, str, shown,
                            failed, ret>>

RequestFailed ==
  /\ Answering({"ras", "sysfs", "hex"})
  /\ place' = "close" /\ Missed(card)
  /\ held' = [held EXCEPT ![Head(needs)] = "gone"]
  /\ requests' = <<>> /\ needs' = <<>> /\ sections' = <<>>
  /\ Display /\ UNCHANGED <<no_driver, facts, got, value, jam, odd, mixed, display>>

(* The lines share the buffer str, except the serial number's.              *)
Texts == {"flash_version", "smc_fwversion", "smc_boot_loader_ver", "uos_version", "link_speed",
          "processor_stepping", "silicon_sku", "smc_hwrevision", "memory_vendor", "memory_type"}

ShowLine(silent) ==
  /\ place = "lines" /\ lines # <<>>
  /\ LET field == Head(lines).field
         withheld == \/ ~(Head(lines).when \subseteq facts)
                     \/ field \in Locked /\ "access" \in facts
     IN /\ silent => field \in Silent /\ ~withheld
        /\ shown' = <<field, IF withheld THEN "N/A" ELSE IF ~silent THEN field
                             ELSE IF field = "serial_number" THEN "garbage" ELSE str>>
        /\ str' = IF silent \/ withheld \/ field \notin Texts THEN str ELSE field
  /\ lines' = Tail(lines)
  /\ Display /\ UNCHANGED <<place, sections, needs, answers, failed, ret>>

Frees == LET s == Section[Head(sections)]
         IN s.frees \cup (IF no_driver THEN {} ELSE s.driver_frees)

EndSection ==
  /\ place = "lines" /\ lines = <<>>
  /\ place' = "section" /\ sections' = Tail(sections)
  /\ held' = [k \in Kinds |-> IF k \in Frees THEN "none" ELSE held[k]]
  /\ shown' = <<>>
  /\ Display /\ UNCHANGED <<needs, requests, no_driver, facts, got, value, jam, odd, mixed, lines,
                            str, failed, ret>>

mic_close_device ==
  /\ place = "close" \/ (place = "section" /\ sections = <<>>)
  /\ place' = "open"
  /\ held' = NoPointers /\ no_driver' = FALSE /\ facts' = {} /\ got' = {}
  /\ value' = "zero" /\ jam' = FALSE /\ odd' = FALSE /\ mixed' = FALSE
  /\ str' = "garbage" /\ shown' = <<>>
  /\ Display /\ UNCHANGED <<sections, needs, requests, lines, failed, ret>>

Done == place \in {"exit", "dead"} /\ UNCHANGED vars

ReadOptions ==
  \/ \E long \in BOOLEAN : \/ \E o \in {"list", "versions", "help"} : Flag(o, long)
                           \/ \E d \in Cards : DeviceOption(d, long)
                           \/ DeviceAll(long)
                           \/ \E g \in Groups : GroupOption(g, long)
  \/ BadOption \/ ArgumentMissed \/ OptionsRefused

ListCards ==
  \/ \E present \in SUBSET Cards : mic_get_devices(present) \/ Rescan(present)
  \/ NoDevices

ShowCard ==
  \/ \E opened \in BOOLEAN : mic_open_device(opened)
  \/ StartSection \/ NotAsked \/ Answered \/ NoDriver \/ RequestFailed
  \/ \E text \in {"number", "empty", "junk"} : HexAnswered(text)
  \/ \E silent \in BOOLEAN : ShowLine(silent)
  \/ EndSection \/ mic_close_device \/ AllShown

Next == ReadOptions \/ dispatch \/ ListCards \/ ShowCard \/ Done

Spec == Init /\ [][Next]_vars
-------------------------------------------------------------------------------
(* The values of the variables.                                             *)
TypeOK ==
  /\ progname \in {"mpssinfo", "micinfo"}
  /\ words \in 0..MaxWords
  /\ cnt \in [Options -> 0..MaxWords] /\ func \in Options
  /\ device \in Cards \cup {NoCard} /\ group \in Groups
  /\ error_cnt \in {0, 1} /\ required \in BOOLEAN
  /\ place \in {"options", "scan", "rescan", "open", "section", "fetch", "lines", "close",
                "exit", "dead"}
  /\ first \in 0..Cardinality(Cards) /\ todo \subseteq Cards /\ card \in Cards \cup {NoCard}
  /\ held \in [Kinds -> {"none", "live", "gone"}] /\ no_driver \in BOOLEAN
  /\ facts \subseteq {"access", "boot", "fan"}
  /\ jam \in BOOLEAN /\ odd \in BOOLEAN /\ mixed \in BOOLEAN
  /\ failed \subseteq Cards /\ ret \in {-1, 0, 1}

Direct == {"silicon_sku", "serial_number"}
KindOf(field) == CHOOSE k \in Kinds : field \in DOMAIN Getters[k]

(* A line reads, and the end of a section frees, only structures that hold: *)
(* a pointer the library left behind when it failed is not used.  And a     *)
(* structure is left unfreed only when another one of the section failed,   *)
(* or by the list of cards.                                                 *)
PointersKept ==
  /\ place = "lines" =>
       IF lines = <<>> THEN \A k \in Frees : held[k] = "live"
       ELSE Head(lines).field \notin Direct => held[KindOf(Head(lines).field)] = "live"
  /\ place \in {"section", "close"} /\ func # "list" /\ (\E k \in Kinds : held[k] = "live")
       => \E k \in Kinds : held[k] = "gone"

(* The fields whose getter the program does not call, or refuses the answer *)
(* of, for what the card said of itself.                                    *)
Withheld(field) ==
  \/ field \in Locked /\ "access" \in facts
  \/ field \in {"fan_rpm", "fan_pwm"} /\ "fan" \notin facts
  \/ field = "smc_boot_loader_ver" /\ "boot" \notin facts

(* A getter of the device asks for its value itself.                        *)
Given(field) == field \in Direct \/ Getters[KindOf(field)][field] \in got

(* A line shows its own field, answered by the card in this section, or     *)
(* says that the card has none.  Only a getter that returns without writing *)
(* leaves something else on its line: the text of an earlier line of the    *)
(* section, answered as well, or, for the flash version (it comes first)    *)
(* and the serial number (its buffer is its own), what an unwritten buffer  *)
(* held.                                                                    *)
ShownAnswered ==
  shown # <<>> =>
    LET field == shown[1]
        text == shown[2]
    IN \/ text = "N/A" /\ Withheld(field)
       \/ text = field /\ Given(field)
       \/ field \in Silent /\ text \in Texts /\ Given(text)
       \/ field \in {"flash_version", "serial_number"} /\ text = "garbage"

(* An attribute of the processor holds another one's value, or zero, only   *)
(* when one of the files was empty or held no number.                       *)
ProcessorOwn == mixed => odd

(* A display of cards returns 0 exactly when every card could be opened and *)
(* every structure of it could be asked for; a list, when this is true of   *)
(* the last card.                                                           *)
ExitHonest ==
  place = "exit" /\ card # NoCard
    => (ret = 0 <=> IF func = "list" THEN card \notin failed ELSE failed = {})

===============================================================================
