----------------------------- MODULE Micsmc_proofs ----------------------------
(***************************************************************************)
(* The options of micsmc, for any cards, any options and any words.  Each   *)
(* property has an invariant of its own, which implies it and which every   *)
(* step keeps; all of them rest on the types and on PlaceInv, which says    *)
(* what there is where the program is.  The proof of a step has one case    *)
(* for each action.                                                         *)
(***************************************************************************)
EXTENDS Micsmc, FiniteSetTheorems, NaturalsInduction, WellFoundedInduction, TLAPS

LEMMA SeqParts ==
  ASSUME NEW S, NEW s \in Seq(S), s # <<>>
  PROVE  /\ Tail(s) \in Seq(S) /\ Head(s) \in S /\ Head(s) = s[1]
         /\ Range(Tail(s)) \subseteq Range(s) /\ Head(s) \in Range(s)
         /\ \A w \in Range(s) : w = Head(s) \/ w \in Range(Tail(s))
<1>1. Tail(s) \in Seq(S) /\ Head(s) \in S /\ Head(s) = s[1] /\ 1 \in DOMAIN s
  OBVIOUS
<1>2. \A i \in DOMAIN Tail(s) : i + 1 \in DOMAIN s /\ Tail(s)[i] = s[i + 1]
  OBVIOUS
<1>3. \A i \in DOMAIN s : i = 1 \/ (i - 1 \in DOMAIN Tail(s) /\ s[i] = Tail(s)[i - 1])
  OBVIOUS
<1> QED
  BY <1>1, <1>2, <1>3 DEF Range

LEMMA SeqAppended ==
  ASSUME NEW S, NEW s \in Seq(S), NEW e \in S
  PROVE  Append(s, e) \in Seq(S) /\ Range(Append(s, e)) = Range(s) \cup {e}
  BY DEF Range

LEMMA CardList ==
  ASSUME NEW present \in SUBSET Cards
  PROVE  SetToSeq(present) \in Seq(Cards)
<1>1. IsFiniteSet(present)
  BY MicsmcAssumption, FS_Subset
<1>2. /\ Cardinality(present) \in Nat
      /\ \E f \in [1..Cardinality(present) -> present] : IsInjective(f)
  BY <1>1, FS_CardinalityType DEF ExistsBijection, Bijection, Injection, IsInjective
<1>3. SetToSeq(present) \in [1..Cardinality(present) -> present]
  BY <1>2 DEF SetToSeq
<1> QED
  BY <1>2, <1>3

LEMMA OwnRange ==
  ASSUME NEW S, NEW s \in Seq(S)
  PROVE  s \in Seq(Range(s))
  BY DEF Range

DisplayName ==
  {"info", "temp", "freq", "mem", "cores", "lost", "online", "offline", "ecc", "turbo",
   "turbo_set", "led", "led_set", "pthrottle", "tthrottle", "pwrstatus", "pwrenable", "verify"}

LEMMA DisplayNames == DOMAIN Steps = DisplayName
  BY DEF Steps, Displayed, DisplayName

LEMMA Tuples ==
  ASSUME NEW a, NEW b, NEW c, NEW d, NEW e
  PROVE  /\ <<>> \in Seq({a}) /\ <<a>> \in Seq({a}) /\ <<a, b>> \in Seq({a, b})
         /\ <<a, b, c>> \in Seq({a, b, c})
         /\ <<a, b, c, d, e>> \in Seq({a, b, c, d, e})
  OBVIOUS

LEMMA StepLists == \A d \in DOMAIN Steps : Steps[d] \in Seq(AllSteps)
<1>1. ASSUME NEW d \in DisplayName PROVE \E S : Steps[d] \in Seq(S)
  <2>1. Steps[d] = Displayed[d].steps
    BY <1>1, DisplayNames DEF Steps
  <2>2. Throttle \in Seq({Update("THROTTLE_INFO")})
    BY MicsmcAssumption DEF Throttle
  <2>3. CASE d = "info"
    <3>1. Displayed[d] = perform_info_opt
      BY <2>3 DEF Displayed
    <3>2. \E S : perform_info_opt.steps \in Seq(S)
      BY Tuples DEF perform_info_opt, Shows
    <3> QED
      BY <2>1, <3>1, <3>2
  <2>4. CASE d = "temp"
    <3>1. Displayed[d] = perform_temp_opt
      BY <2>4 DEF Displayed
    <3>2. \E S : perform_temp_opt.steps \in Seq(S)
      BY Tuples DEF perform_temp_opt, Shows
    <3> QED
      BY <2>1, <3>1, <3>2
  <2>5. CASE d = "freq"
    <3>1. Displayed[d] = perform_freq_opt
      BY <2>5 DEF Displayed
    <3>2. \E S : perform_freq_opt.steps \in Seq(S)
      BY Tuples DEF perform_freq_opt, Shows
    <3> QED
      BY <2>1, <3>1, <3>2
  <2>6. CASE d = "mem"
    <3>1. Displayed[d] = perform_mem_opt
      BY <2>6 DEF Displayed
    <3>2. \E S : perform_mem_opt.steps \in Seq(S)
      BY Tuples DEF perform_mem_opt, Shows
    <3> QED
      BY <2>1, <3>1, <3>2
  <2>7. CASE d = "cores"
    <3>1. Displayed[d] = perform_cores_opt
      BY <2>7 DEF Displayed
    <3>2. \E S : perform_cores_opt.steps \in Seq(S)
      BY Tuples DEF perform_cores_opt, Shows
    <3> QED
      BY <2>1, <3>1, <3>2
  <2>8. CASE d = "lost"
    <3>1. Displayed[d] = perform_lost_opt
      BY <2>8 DEF Displayed
    <3>2. \E S : perform_lost_opt.steps \in Seq(S)
      BY Tuples DEF perform_lost_opt, Shows
    <3> QED
      BY <2>1, <3>1, <3>2
  <2>9. CASE d = "online"
    <3>1. Displayed[d] = perform_online_opt
      BY <2>9 DEF Displayed
    <3>2. \E S : perform_online_opt.steps \in Seq(S)
      BY Tuples DEF perform_online_opt, Shows
    <3> QED
      BY <2>1, <3>1, <3>2
  <2>10. CASE d = "offline"
    <3>1. Displayed[d] = perform_offline_opt
      BY <2>10 DEF Displayed
    <3>2. \E S : perform_offline_opt.steps \in Seq(S)
      BY Tuples DEF perform_offline_opt, Shows
    <3> QED
      BY <2>1, <3>1, <3>2
  <2>11. CASE d = "ecc"
    <3>1. Displayed[d] = perform_ecc_status
      BY <2>11 DEF Displayed
    <3>2. \E S : perform_ecc_status.steps \in Seq(S)
      BY Tuples DEF perform_ecc_status, Shows
    <3> QED
      BY <2>1, <3>1, <3>2
  <2>12. CASE d = "turbo"
    <3>1. Displayed[d] = perform_turbo_status
      BY <2>12 DEF Displayed
    <3>2. \E S : perform_turbo_status.steps \in Seq(S)
      BY Tuples DEF perform_turbo_status, Shows
    <3> QED
      BY <2>1, <3>1, <3>2
  <2>13. CASE d = "turbo_set"
    <3>1. Displayed[d] = perform_turbo_set
      BY <2>13 DEF Displayed
    <3>2. \E S : perform_turbo_set.steps \in Seq(S)
      BY Tuples DEF perform_turbo_set, Shows
    <3> QED
      BY <2>1, <3>1, <3>2
  <2>14. CASE d = "led"
    <3>1. Displayed[d] = perform_led_status
      BY <2>14 DEF Displayed
    <3>2. \E S : perform_led_status.steps \in Seq(S)
      BY Tuples DEF perform_led_status, Shows
    <3> QED
      BY <2>1, <3>1, <3>2
  <2>15. CASE d = "led_set"
    <3>1. Displayed[d] = perform_led_set
      BY <2>15 DEF Displayed
    <3>2. \E S : perform_led_set.steps \in Seq(S)
      BY Tuples DEF perform_led_set, Shows
    <3> QED
      BY <2>1, <3>1, <3>2
  <2>16. CASE d = "pthrottle"
    <3>1. Displayed[d] = perform_pthrottle_opt
      BY <2>16 DEF Displayed
    <3>2. \E S : perform_pthrottle_opt.steps \in Seq(S)
      BY <2>2 DEF perform_pthrottle_opt, Shows
    <3> QED
      BY <2>1, <3>1, <3>2
  <2>17. CASE d = "tthrottle"
    <3>1. Displayed[d] = perform_tthrottle_opt
      BY <2>17 DEF Displayed
    <3>2. \E S : perform_tthrottle_opt.steps \in Seq(S)
      BY <2>2 DEF perform_tthrottle_opt, Shows
    <3> QED
      BY <2>1, <3>1, <3>2
  <2>18. CASE d = "pwrstatus"
    <3>1. Displayed[d] = perform_pwrstatus_opt
      BY <2>18 DEF Displayed
    <3>2. \E S : perform_pwrstatus_opt.steps \in Seq(S)
      BY Tuples DEF perform_pwrstatus_opt, Shows
    <3> QED
      BY <2>1, <3>1, <3>2
  <2>19. CASE d = "pwrenable"
    <3>1. Displayed[d] = Shows(<<>>, {})
      BY <2>19 DEF Displayed
    <3> QED
      BY <2>1, <3>1, Tuples DEF Shows
  <2>20. CASE d = "verify"
    <3>1. Displayed[d] = Shows(<<>>, {})
      BY <2>20 DEF Displayed
    <3> QED
      BY <2>1, <3>1, Tuples DEF Shows
  <2> QED
    BY <2>3, <2>4, <2>5, <2>6, <2>7, <2>8, <2>9, <2>10, <2>11, <2>12, <2>13, <2>14, <2>15, <2>16,
       <2>17, <2>18, <2>19, <2>20 DEF DisplayName
<1>2. ASSUME NEW d \in DisplayName PROVE Range(Steps[d]) \subseteq AllSteps
  BY DisplayNames DEF AllSteps
<1>3. ASSUME NEW d \in DisplayName PROVE Steps[d] \in Seq(AllSteps)
  <2>1. Steps[d] \in Seq(Range(Steps[d]))
    BY <1>1, OwnRange
  <2> QED
    BY <2>1, <1>2
<1> QED
  BY <1>3, DisplayNames

LEMMA Least ==
  ASSUME NEW T \in SUBSET Nat, T # {}
  PROVE  \E x \in T : \A y \in T : x <= y
<1>1. PICK x \in T : \A y \in T : ~(<<y, x>> \in OpToRel(<, Nat))
  BY NatLessThanWellFounded, WFMin
<1>2. \A y \in T : ~(y < x)
  BY <1>1 DEF OpToRel
<1> QED
  BY <1>2

LEMMA LeadingBounds ==
  ASSUME NEW args \in Seq(AllWords)
  PROVE  Leading(args) \in 0..Len(args)
<1> DEFINE Ends == {n \in 0..Len(args) : n < Len(args) => ~FeatureWord(args[n + 1])}
<1>1. Len(args) \in Ends /\ Ends \in SUBSET Nat
  OBVIOUS
<1>2. PICK n \in Ends : \A m \in Ends : n <= m
  BY <1>1, Least
<1>3. \A i \in 1..n : FeatureWord(args[i])
  <2> SUFFICES ASSUME NEW i \in 1..n, ~FeatureWord(args[i]) PROVE FALSE
    OBVIOUS
  <2>1. i - 1 \in Ends
    BY <1>1
  <2>2. n <= i - 1
    BY <2>1, <1>2
  <2>3. n \in Nat
    BY <1>1
  <2> HIDE DEF Ends
  <2> QED
    BY <2>2, <2>3
<1> QED
  BY <1>2, <1>3 DEF Leading

LEMMA EnablesType == \A args : Enables(args) \subseteq Features
  BY DEF Enables

LEMMA FirstCard ==
  ASSUME LoopType, todo # <<>>
  PROVE  todo[1] \in Cards /\ Tail(todo) \in Seq(Cards) /\ todo[1] \in Range(todo)
         /\ Range(Tail(todo)) \subseteq Range(todo)
  BY SeqParts DEF LoopType

LEMMA NoElements ==
  ASSUME NEW S, NEW s \in Seq(S), s = <<>>
  PROVE  Range(s) = {}
  BY DEF Range

LEMMA EmptySeq ==
  ASSUME NEW S
  PROVE  <<>> \in Seq(S) /\ Len(<<>>) = 0
  OBVIOUS

LEMMA EmptyRange == Range(<<>>) = {}
  BY EmptySeq, NoElements

LEMMA AllType == All \in Seq(DOMAIN Steps) /\ All # <<>>
<1>1. {"info", "temp", "freq", "mem", "cores"} \subseteq DOMAIN Steps
  BY DisplayNames DEF DisplayName
<1> QED
  BY <1>1 DEF All

LEMMA UnsupportedType == Unsupported \in Seq(AllSteps)
<1>1. Range(Unsupported) \subseteq AllSteps
  BY DEF AllSteps
<1>2. Unsupported \in Seq({Get("PCI_CONFIG_INFO"), Get("PROC_INFO"), Refuse})
  BY DEF Unsupported
<1>3. Unsupported \in Seq(Range(Unsupported))
  BY <1>2, OwnRange
<1> QED
  BY <1>1, <1>3

LEMMA OptionArgs ==
  ASSUME LineType, ordered_args_ # <<>>
  PROVE  /\ Opt.args \in Seq(AllWords) /\ Opt \in Options
         /\ Tail(ordered_args_) \in Seq(Options)
         /\ Len(Tail(ordered_args_)) <= typed
<1>1. ordered_args_ \in Seq(Options) /\ Len(ordered_args_) <= typed /\ typed \in Nat
  BY MicsmcAssumption DEF LineType
<1>2. Opt \in Options /\ Tail(ordered_args_) \in Seq(Options)
  BY <1>1 DEF Opt
<1>3. Len(Tail(ordered_args_)) <= typed
  <2> HIDE DEF Options
  <2> QED
    BY <1>1
<1>4. Opt.args \in ArgLists
  BY <1>2 DEF Options
<1> QED
  BY <1>2, <1>3, <1>4, MicsmcAssumption

LEMMA OptionTail ==
  ASSUME LineType, ordered_args_ # <<>>, ordered_args_' = Tail(ordered_args_),
         UNCHANGED <<typed, timeout_>>
  PROVE  LineType'
  BY OptionArgs DEF LineType

LEMMA DeviceWordsType ==
  ASSUME LineType, ordered_args_ # <<>>
  PROVE  DeviceWords(Opt) \in Seq(AllWords)
<1>1. Opt.args \in Seq(AllWords)
  BY OptionArgs
<1>2. CASE Verb(Opt) # "none"
  <2>1. Opt.args # <<>> /\ Known[Opt.option] # "pwrenable"
    BY <1>2 DEF Verb
  <2>2. DeviceWords(Opt) = Tail(Opt.args)
    BY <1>2, <2>1 DEF DeviceWords
  <2> QED
    BY <1>1, <2>1, <2>2
<1>3. Leading(Opt.args) \in 0..Len(Opt.args)
  BY <1>1, LeadingBounds
<1>4. SubSeq(Opt.args, Leading(Opt.args) + 1, Len(Opt.args)) \in Seq(AllWords)
  BY <1>1, <1>3
<1>5. CASE Verb(Opt) = "none" /\ Known[Opt.option] = "pwrenable"
  BY <1>4, <1>5 DEF DeviceWords
<1>6. CASE Verb(Opt) = "none" /\ Known[Opt.option] # "pwrenable"
  BY <1>1, <1>6 DEF DeviceWords
<1> QED
  BY <1>2, <1>5, <1>6

LEMMA DisplaysType ==
  ASSUME ToPerform(Opt), Known[Opt.option] \in Commands
  PROVE  Displays(Opt) \in Seq(DOMAIN Steps) /\ Displays(Opt) # <<>>
         /\ (Known[Opt.option] = "all" => Head(Displays(Opt)) = "verify")
<1> DEFINE k == Known[Opt.option]
<1>1. CASE k = "all"
  <2>1. Displays(Opt) = <<"verify">> \o <<"info", "temp", "freq", "mem", "cores">>
    BY <1>1 DEF Displays, All
  <2> QED
    BY <2>1, DisplayNames DEF DisplayName
<1>2. CASE k # "all"
  <2>1. Displays(Opt) \in {<<"turbo_set">>, <<"led_set">>, <<k>>}
    BY <1>2 DEF Displays
  <2>2. {"turbo_set", "led_set", k} \subseteq DOMAIN Steps
    BY <1>2, DisplayNames DEF DisplayName, Commands
  <2>3. ASSUME NEW d \in DOMAIN Steps PROVE <<d>> \in Seq(DOMAIN Steps) /\ <<d>> # <<>>
    OBVIOUS
  <2> QED
    BY <1>2, <2>1, <2>2, <2>3
<1> QED
  BY <1>1, <1>2

-------------------------------------------------------------------------------
(* Where the program is: inside an option there is one to perform, inside   *)
(* its loops a display and, while a card is asked, a card.                   *)
OnCard == {"check", "steps", "conf", "write", "flush"}
Inside == OnCard \cup {"card"}

PlaceInv ==
  /\ place \in Inside \cup {"words"} =>
       ordered_args_ # <<>> /\ ToPerform(Opt) /\ Known[Opt.option] \in Commands
  /\ place \in Inside => subs # <<>>
  /\ place \in OnCard => card \in Cards

LEMMA TypeInit == Init => TypeOK /\ PlaceInv
<1> SUFFICES ASSUME Init PROVE TypeOK /\ PlaceInv
  OBVIOUS
<1>1. LineType
  <2>1. <<>> \in Seq(Options) /\ Len(<<>>) = 0
    <3> HIDE DEF Options
    <3> QED
      OBVIOUS
  <2>2. ordered_args_ = <<>> /\ typed = 0 /\ timeout_ = "default"
    BY DEF Init
  <2> QED
    BY <2>1, <2>2, MicsmcAssumption DEF LineType
<1>2. LoopType
  <2>1. ASSUME NEW S PROVE <<>> \in Seq(S)
    OBVIOUS
  <2> QED
    BY <2>1 DEF Init, LoopType
<1>3. ObjectType
  BY DEF Init, ObjectType
<1>4. FileType
  BY DEF Init, FileType, ConfType
<1>5. CodeType
  BY DEF Init, CodeType
<1> QED
  BY <1>1, <1>2, <1>3, <1>4, <1>5 DEF Init, TypeOK, PlaceInv, Inside, OnCard


LEMMA LineStep == LineType /\ PlaceInv /\ [Next]_vars => LineType'
<1> SUFFICES ASSUME LineType, PlaceInv, [Next]_vars PROVE LineType'
  OBVIOUS
<1>1. CASE \E o \in Spelled, args \in ArgLists : parse_args(o, args)
  <2> SUFFICES ASSUME NEW o \in Spelled, NEW args \in ArgLists, parse_args(o, args)
               PROVE  LineType'
    BY <1>1
  <2>1. typed' \in 0..MaxOptions /\ timeout_' = timeout_ /\ typed' = typed + 1
    BY MicsmcAssumption DEF parse_args, LineType
  <2>2. [option |-> o, args |-> args] \in Options
    BY DEF Options
  <2>3. \/ ordered_args_' = ordered_args_
        \/ ordered_args_' = Append(ordered_args_, [option |-> o, args |-> args])
    BY DEF parse_args
  <2>4. ordered_args_' \in Seq(Options) /\ Len(ordered_args_') <= typed'
    <3> HIDE DEF Options
    <3> QED
      BY <2>1, <2>2, <2>3, MicsmcAssumption DEF LineType
  <2> QED
    BY <2>1, <2>4 DEF LineType
<1>2. CASE process_cmd_line_args
  BY <1>2 DEF process_cmd_line_args, cmdline, LineType
<1>3. CASE perform_timeout_opt
  BY <1>3 DEF perform_timeout_opt, cmdline, LineType
<1>4. CASE AllPerformed
  BY <1>4 DEF AllPerformed, cmdline, LineType
<1>5. CASE \E status \in GuiStatuses : run_gui(status)
  BY <1>5 DEF run_gui, cmdline, LineType
<1>6. CASE PassOver
  BY <1>6, OptionTail DEF PassOver, cmdline, LineType, NextOption, Performing
<1>7. CASE perform_version_opt
  BY <1>7, OptionTail DEF perform_version_opt, cmdline, LineType, NextOption, Performing
<1>8. CASE perform_help_opt
  BY <1>8, OptionTail DEF perform_help_opt, cmdline, LineType, NextOption, Performing
<1>9. CASE ReadCards
  BY <1>9 DEF ReadCards, cmdline, LineType
<1>10. CASE get_device_num
  BY <1>10 DEF get_device_num, cmdline, LineType
<1>11. CASE get_device_nums
  BY <1>11, OptionTail DEF get_device_nums, cmdline, LineType, NextOption, Start, NotStarted,
     Performing, PlaceInv, Inside
<1>12. CASE \E present \in SUBSET Cards : get_avail_device_nums(SetToSeq(present))
  BY <1>12, OptionTail DEF get_avail_device_nums, cmdline, LineType, NextOption, Start,
     NotStarted, Performing, PlaceInv, Inside
<1>13. CASE \E ok, some \in BOOLEAN : perform_ecc_set(ok, some)
  BY <1>13 DEF perform_ecc_set, cmdline, LineType
<1>14. CASE \E opened \in BOOLEAN : get_device(opened)
  BY <1>14 DEF get_device, cmdline, LineType
<1>15. CASE \E opened \in BOOLEAN : open_conf(opened)
  BY <1>15 DEF open_conf, cmdline, LineType, Conf
<1>16. CASE \E status \in Statuses \cup {"error"} : validate_device_is_online(status)
  BY <1>16 DEF validate_device_is_online, cmdline, LineType, Loop
<1>17. CASE perform_all
  BY <1>17 DEF perform_all, cmdline, LineType
<1>18. CASE NextDisplay
  BY <1>18 DEF NextDisplay, cmdline, LineType
<1>19. CASE OptionDone
  BY <1>19, OptionTail DEF OptionDone, cmdline, LineType, NextOption, PlaceInv, Inside
<1>20. CASE Answered
  BY <1>20 DEF Answered, cmdline, LineType, Loop
<1>21. CASE Failed
  BY <1>21 DEF Failed, cmdline, LineType, Loop
<1>22. CASE Refused
  BY <1>22 DEF Refused, cmdline, LineType, Loop
<1>23. CASE Shown
  BY <1>23 DEF Shown, cmdline, LineType, Loop
<1>24. CASE compute_dev_utilization
  BY <1>24 DEF compute_dev_utilization, cmdline, LineType
<1>25. CASE \E lines \in {"all", "some", "none"} : read_conf(lines)
  BY <1>25 DEF read_conf, cmdline, LineType, Conf
<1>26. CASE \E whole \in BOOLEAN : write_conf(whole)
  BY <1>26 DEF write_conf, cmdline, LineType, Conf
<1>27. CASE Interrupted
  BY <1>27 DEF Interrupted, cmdline, LineType, Conf
<1>28. CASE Done
  BY <1>28 DEF Done, cmdline, LineType, vars
<1>29. CASE UNCHANGED vars
  BY <1>29 DEF vars, cmdline, LineType
<1> QED
  BY <1>1, <1>2, <1>3, <1>4, <1>5, <1>6, <1>7, <1>8, <1>9, <1>10, <1>11, <1>12, <1>13, <1>14,
     <1>15, <1>16, <1>17, <1>18, <1>19, <1>20, <1>21, <1>22, <1>23, <1>24, <1>25, <1>26, <1>27,
     <1>28, <1>29 DEF Next

LEMMA CodeStep == CodeType /\ [Next]_vars => CodeType'
<1> SUFFICES ASSUME CodeType, [Next]_vars PROVE CodeType'
  OBVIOUS
<1> USE DEF CodeType
<1>1. CASE \E o \in Spelled, args \in ArgLists : parse_args(o, args)
  BY <1>1 DEF parse_args
<1>2. CASE process_cmd_line_args
  BY <1>2 DEF process_cmd_line_args
<1>3. CASE perform_timeout_opt
  BY <1>3 DEF perform_timeout_opt
<1>4. CASE AllPerformed
  BY <1>4 DEF AllPerformed
<1>5. CASE \E status \in GuiStatuses : run_gui(status)
  BY <1>5 DEF run_gui
<1>6. CASE PassOver
  BY <1>6 DEF PassOver
<1>7. CASE perform_version_opt
  BY <1>7 DEF perform_version_opt
<1>8. CASE perform_help_opt
  BY <1>8 DEF perform_help_opt
<1>9. CASE ReadCards
  BY <1>9 DEF ReadCards
<1>10. CASE get_device_num
  BY <1>10 DEF get_device_num
<1>11. CASE get_device_nums
  BY <1>11 DEF get_device_nums, Start, NotStarted
<1>12. CASE \E present \in SUBSET Cards : get_avail_device_nums(SetToSeq(present))
  BY <1>12 DEF get_avail_device_nums, Start, NotStarted
<1>13. CASE \E ok, some \in BOOLEAN : perform_ecc_set(ok, some)
  BY <1>13 DEF perform_ecc_set
<1>14. CASE \E opened \in BOOLEAN : get_device(opened)
  BY <1>14 DEF get_device, CardFailed, CardDone, Leave
<1>15. CASE \E opened \in BOOLEAN : open_conf(opened)
  BY <1>15 DEF open_conf, CardFailed, CardDone, Leave
<1>16. CASE \E status \in Statuses \cup {"error"} : validate_device_is_online(status)
  BY <1>16 DEF validate_device_is_online, CardFailed, CardDone, Leave
<1>17. CASE perform_all
  BY <1>17 DEF perform_all
<1>18. CASE NextDisplay
  BY <1>18 DEF NextDisplay
<1>19. CASE OptionDone
  BY <1>19 DEF OptionDone
<1>20. CASE Answered
  BY <1>20 DEF Answered, CardFailed, CardDone, Leave
<1>21. CASE Failed
  BY <1>21 DEF Failed, CardFailed, CardDone, Leave
<1>22. CASE Refused
  BY <1>22 DEF Refused, CardFailed, CardDone, Leave
<1>23. CASE Shown
  BY <1>23 DEF Shown, CardFailed, CardDone, Leave
<1>24. CASE compute_dev_utilization
  BY <1>24 DEF compute_dev_utilization
<1>25. CASE \E lines \in {"all", "some", "none"} : read_conf(lines)
  BY <1>25 DEF read_conf
<1>26. CASE \E whole \in BOOLEAN : write_conf(whole)
  BY <1>26 DEF write_conf, CardFailed, CardDone, Leave
<1>27. CASE Interrupted
  BY <1>27 DEF Interrupted
<1>28. CASE Done
  BY <1>28 DEF Done, vars
<1>29. CASE UNCHANGED vars
  BY <1>29 DEF vars, cmdline, loop, objects, files
<1> QED
  BY <1>1, <1>2, <1>3, <1>4, <1>5, <1>6, <1>7, <1>8, <1>9, <1>10, <1>11, <1>12, <1>13, <1>14,
     <1>15, <1>16, <1>17, <1>18, <1>19, <1>20, <1>21, <1>22, <1>23, <1>24, <1>25, <1>26, <1>27,
     <1>28, <1>29 DEF Next

LEMMA FileStep == FileType /\ PlaceInv /\ [Next]_vars => FileType'
<1> SUFFICES ASSUME FileType, PlaceInv, [Next]_vars PROVE FileType'
  OBVIOUS
<1>1. CASE \E o \in Spelled, args \in ArgLists : parse_args(o, args)
  BY <1>1 DEF parse_args, files, FileType, Frame
<1>2. CASE process_cmd_line_args
  BY <1>2 DEF process_cmd_line_args, files, FileType, Frame
<1>3. CASE perform_timeout_opt
  BY <1>3 DEF perform_timeout_opt, files, FileType, Frame
<1>4. CASE AllPerformed
  BY <1>4 DEF AllPerformed, files, FileType, Frame
<1>5. CASE \E status \in GuiStatuses : run_gui(status)
  BY <1>5 DEF run_gui, files, FileType, Frame
<1>6. CASE PassOver
  BY <1>6 DEF PassOver, files, FileType, Frame
<1>7. CASE perform_version_opt
  BY <1>7 DEF perform_version_opt, files, FileType, Frame
<1>8. CASE perform_help_opt
  BY <1>8 DEF perform_help_opt, files, FileType, Frame
<1>9. CASE ReadCards
  BY <1>9 DEF ReadCards, files, FileType
<1>10. CASE get_device_num
  BY <1>10 DEF get_device_num, files, FileType
<1>11. CASE get_device_nums
  BY <1>11, EnablesType DEF get_device_nums, files, FileType, Start, NotStarted, Frame
<1>12. CASE \E present \in SUBSET Cards : get_avail_device_nums(SetToSeq(present))
  BY <1>12, EnablesType DEF get_avail_device_nums, files, FileType, Start, NotStarted, Frame
<1>13. CASE \E ok, some \in BOOLEAN : perform_ecc_set(ok, some)
  BY <1>13 DEF perform_ecc_set, files, FileType
<1>14. CASE \E opened \in BOOLEAN : get_device(opened)
  BY <1>14 DEF get_device, files, FileType, CardFailed, CardDone, Leave
<1>15. CASE \E opened \in BOOLEAN : open_conf(opened)
  <2>1. card \in Cards /\ [lines |-> "none", pm |-> {}] \in ConfType
    BY <1>15 DEF open_conf, PlaceInv, OnCard, ConfType, FileType
  <2>2. conf' \in [Cards -> ConfType]
    BY <1>15, <2>1 DEF open_conf, FileType
  <2>3. content' \in {"all", "some", "none"}
    BY <1>15 DEF open_conf, FileType, CardDone, CardFailed, Leave
  <2>4. enabled' \subseteq Features /\ changed' \subseteq Cards /\ fault' \subseteq Cards
    BY <1>15, <2>1 DEF open_conf, FileType, Conf
  <2> QED
    BY <2>2, <2>3, <2>4 DEF FileType
<1>16. CASE \E status \in Statuses \cup {"error"} : validate_device_is_online(status)
  BY <1>16 DEF validate_device_is_online, files, FileType, CardFailed, CardDone, Leave
<1>17. CASE perform_all
  BY <1>17 DEF perform_all, files, FileType
<1>18. CASE NextDisplay
  BY <1>18 DEF NextDisplay, files, FileType
<1>19. CASE OptionDone
  BY <1>19 DEF OptionDone, files, FileType, PlaceInv
<1>20. CASE Answered
  BY <1>20 DEF Answered, files, FileType
<1>21. CASE Failed
  BY <1>21 DEF Failed, files, FileType, CardFailed, CardDone, Leave
<1>22. CASE Refused
  BY <1>22 DEF Refused, files, FileType, CardFailed, CardDone, Leave
<1>23. CASE Shown
  BY <1>23 DEF Shown, files, FileType, CardFailed, CardDone, Leave
<1>24. CASE compute_dev_utilization
  BY <1>24 DEF compute_dev_utilization, files, FileType
<1>25. CASE \E lines \in {"all", "some", "none"} : read_conf(lines)
  BY <1>25 DEF read_conf, Cut, files, FileType, Conf, PlaceInv, OnCard
<1>26. CASE \E whole \in BOOLEAN : write_conf(whole)
  <2>1. card \in Cards /\ [lines |-> content, pm |-> enabled] \in ConfType
    BY <1>26 DEF write_conf, PlaceInv, OnCard, ConfType, FileType
  <2>2. conf' \in [Cards -> ConfType]
    BY <1>26, <2>1 DEF write_conf, FileType
  <2>3. content' \in {"all", "some", "none"}
    BY <1>26 DEF write_conf, FileType, Leave
  <2>4. enabled' \subseteq Features /\ changed' \subseteq Cards /\ fault' \subseteq Cards
    BY <1>26, <2>1 DEF write_conf, Cut, FileType, Conf
  <2> QED
    BY <2>2, <2>3, <2>4 DEF FileType
<1>27. CASE Interrupted
  BY <1>27 DEF Interrupted, files, FileType, Conf
<1>28. CASE Done
  BY <1>28 DEF Done, files, FileType, vars
<1>29. CASE UNCHANGED vars
  BY <1>29 DEF vars, files, FileType
<1> QED
  BY <1>1, <1>2, <1>3, <1>4, <1>5, <1>6, <1>7, <1>8, <1>9, <1>10, <1>11, <1>12, <1>13, <1>14,
     <1>15, <1>16, <1>17, <1>18, <1>19, <1>20, <1>21, <1>22, <1>23, <1>24, <1>25, <1>26, <1>27,
     <1>28, <1>29 DEF Next

LEMMA ObjectStep == ObjectType /\ LoopType /\ PlaceInv /\ [Next]_vars => ObjectType'
<1> SUFFICES ASSUME ObjectType, LoopType, PlaceInv, [Next]_vars PROVE ObjectType'
  OBVIOUS
<1>1. CASE \E o \in Spelled, args \in ArgLists : parse_args(o, args)
  BY <1>1 DEF parse_args, objects, ObjectType, Frame
<1>2. CASE process_cmd_line_args
  BY <1>2 DEF process_cmd_line_args, objects, ObjectType, Frame
<1>3. CASE perform_timeout_opt
  BY <1>3 DEF perform_timeout_opt, objects, ObjectType, Frame
<1>4. CASE AllPerformed
  BY <1>4 DEF AllPerformed, objects, ObjectType, Frame
<1>5. CASE \E status \in GuiStatuses : run_gui(status)
  BY <1>5 DEF run_gui, objects, ObjectType, Frame
<1>6. CASE PassOver
  BY <1>6 DEF PassOver, objects, ObjectType, Frame
<1>7. CASE perform_version_opt
  BY <1>7 DEF perform_version_opt, objects, ObjectType, Frame
<1>8. CASE perform_help_opt
  BY <1>8 DEF perform_help_opt, objects, ObjectType, Frame
<1>9. CASE ReadCards
  BY <1>9 DEF ReadCards, objects, ObjectType
<1>10. CASE get_device_num
  BY <1>10 DEF get_device_num, objects, ObjectType
<1>11. CASE get_device_nums
  BY <1>11 DEF get_device_nums, objects, ObjectType, Start, NotStarted, Frame
<1>12. CASE \E present \in SUBSET Cards : get_avail_device_nums(SetToSeq(present))
  BY <1>12 DEF get_avail_device_nums, objects, ObjectType, Start, NotStarted, Frame
<1>13. CASE \E ok, some \in BOOLEAN : perform_ecc_set(ok, some)
  BY <1>13 DEF perform_ecc_set, objects, ObjectType
<1>14. CASE \E opened \in BOOLEAN : get_device(opened)
  BY <1>14, FirstCard DEF get_device, objects, ObjectType, CardFailed, CardDone, Leave
<1>15. CASE \E opened \in BOOLEAN : open_conf(opened)
  BY <1>15 DEF open_conf, objects, ObjectType, Conf, CardFailed, CardDone, Leave
<1>16. CASE \E status \in Statuses \cup {"error"} : validate_device_is_online(status)
  BY <1>16 DEF validate_device_is_online, objects, ObjectType, PlaceInv, OnCard, CardFailed,
     CardDone, Leave
<1>17. CASE perform_all
  BY <1>17 DEF perform_all, objects, ObjectType
<1>18. CASE NextDisplay
  BY <1>18 DEF NextDisplay, objects, ObjectType
<1>19. CASE OptionDone
  BY <1>19 DEF OptionDone, objects, ObjectType
<1>20. CASE Answered
  <2>1. card \in Cards
    BY <1>20 DEF Answered, PlaceInv, OnCard
  <2>2. obj' \in [Cards -> [Kept -> {"none", "blank", "read"}]]
    BY <1>20, <2>1 DEF Answered, KeepObject, ObjectType
  <2>3. sample1' \in {"none", "blank", "read"}
    BY <1>20, <2>1, <2>2 DEF Answered, Kept, ObjectType
  <2> QED
    BY <1>20, <2>2, <2>3 DEF Answered, ObjectType
<1>21. CASE Failed
  BY <1>21 DEF Failed, objects, ObjectType, KeepObject, PlaceInv, OnCard, CardFailed, CardDone,
     Leave
<1>22. CASE Refused
  BY <1>22 DEF Refused, objects, ObjectType, CardFailed, CardDone, Leave
<1>23. CASE Shown
  BY <1>23 DEF Shown, objects, ObjectType, CardFailed, CardDone, Leave
<1>24. CASE compute_dev_utilization
  BY <1>24 DEF compute_dev_utilization, objects, ObjectType
<1>25. CASE \E lines \in {"all", "some", "none"} : read_conf(lines)
  BY <1>25 DEF read_conf, objects, ObjectType, Conf, CardFailed, CardDone, Leave
<1>26. CASE \E whole \in BOOLEAN : write_conf(whole)
  BY <1>26 DEF write_conf, objects, ObjectType, Conf, CardFailed, CardDone, Leave
<1>27. CASE Interrupted
  BY <1>27 DEF Interrupted, objects, ObjectType, Conf, CardFailed, CardDone, Leave
<1>28. CASE Done
  BY <1>28 DEF Done, objects, ObjectType, vars
<1>29. CASE UNCHANGED vars
  BY <1>29 DEF vars, objects, ObjectType
<1> QED
  BY <1>1, <1>2, <1>3, <1>4, <1>5, <1>6, <1>7, <1>8, <1>9, <1>10, <1>11, <1>12, <1>13, <1>14,
     <1>15, <1>16, <1>17, <1>18, <1>19, <1>20, <1>21, <1>22, <1>23, <1>24, <1>25, <1>26, <1>27,
     <1>28, <1>29 DEF Next

LEMMA FlagStep == advised \in BOOLEAN /\ missed \subseteq Reasons /\ [Next]_vars
  => (advised \in BOOLEAN /\ missed \subseteq Reasons)'
<1> SUFFICES ASSUME advised \in BOOLEAN, missed \subseteq Reasons, [Next]_vars
             PROVE (advised \in BOOLEAN /\ missed \subseteq Reasons)'
  OBVIOUS
<1> USE DEF Reasons
<1>1. CASE \E o \in Spelled, args \in ArgLists : parse_args(o, args)
  BY <1>1 DEF parse_args, files, Frame
<1>2. CASE process_cmd_line_args
  BY <1>2 DEF process_cmd_line_args, files, Frame
<1>3. CASE perform_timeout_opt
  BY <1>3 DEF perform_timeout_opt, files, Frame
<1>4. CASE AllPerformed
  BY <1>4 DEF AllPerformed, files, Frame
<1>5. CASE \E status \in GuiStatuses : run_gui(status)
  BY <1>5 DEF run_gui, files, Frame
<1>6. CASE PassOver
  BY <1>6 DEF PassOver, files, Frame
<1>7. CASE perform_version_opt
  BY <1>7 DEF perform_version_opt, files, Frame
<1>8. CASE perform_help_opt
  BY <1>8 DEF perform_help_opt, files, Frame
<1>9. CASE ReadCards
  BY <1>9 DEF ReadCards, files
<1>10. CASE get_device_num
  BY <1>10 DEF get_device_num, files
<1>11. CASE get_device_nums
  BY <1>11 DEF get_device_nums, files, Start, NotStarted, Frame
<1>12. CASE \E present \in SUBSET Cards : get_avail_device_nums(SetToSeq(present))
  BY <1>12 DEF get_avail_device_nums, files, Start, NotStarted, Frame
<1>13. CASE \E ok, some \in BOOLEAN : perform_ecc_set(ok, some)
  BY <1>13 DEF perform_ecc_set, files
<1>14. CASE \E opened \in BOOLEAN : get_device(opened)
  BY <1>14 DEF get_device, files, CardFailed, CardDone, Leave
<1>15. CASE \E opened \in BOOLEAN : open_conf(opened)
  BY <1>15 DEF open_conf, files, Conf, CardFailed, CardDone, Leave
<1>16. CASE \E status \in Statuses \cup {"error"} : validate_device_is_online(status)
  BY <1>16 DEF validate_device_is_online, files, CardFailed, CardDone, Leave
<1>17. CASE perform_all
  BY <1>17 DEF perform_all, files
<1>18. CASE NextDisplay
  BY <1>18 DEF NextDisplay, files
<1>19. CASE OptionDone
  BY <1>19 DEF OptionDone, files
<1>20. CASE Answered
  BY <1>20 DEF Answered, files
<1>21. CASE Failed
  BY <1>21 DEF Failed, files, CardFailed, CardDone, Leave
<1>22. CASE Refused
  BY <1>22 DEF Refused, files, CardFailed, CardDone, Leave
<1>23. CASE Shown
  BY <1>23 DEF Shown, files, CardFailed, CardDone, Leave
<1>24. CASE compute_dev_utilization
  BY <1>24 DEF compute_dev_utilization, files
<1>25. CASE \E lines \in {"all", "some", "none"} : read_conf(lines)
  BY <1>25 DEF read_conf, files, Conf, Cut, CardFailed, CardDone, Leave
<1>26. CASE \E whole \in BOOLEAN : write_conf(whole)
  BY <1>26 DEF write_conf, files, Conf, Cut, CardFailed, CardDone, Leave
<1>27. CASE Interrupted
  BY <1>27 DEF Interrupted, files, Conf, CardFailed, CardDone, Leave
<1>28. CASE Done
  BY <1>28 DEF Done, files, vars
<1>29. CASE UNCHANGED vars
  BY <1>29 DEF vars, files
<1> QED
  BY <1>1, <1>2, <1>3, <1>4, <1>5, <1>6, <1>7, <1>8, <1>9, <1>10, <1>11, <1>12, <1>13, <1>14,
     <1>15, <1>16, <1>17, <1>18, <1>19, <1>20, <1>21, <1>22, <1>23, <1>24, <1>25, <1>26, <1>27,
     <1>28, <1>29 DEF Next

LEMMA LoopStep == LineType /\ LoopType /\ PlaceInv /\ [Next]_vars => LoopType'
<1> SUFFICES ASSUME LineType, LoopType, PlaceInv, [Next]_vars PROVE LoopType'
  OBVIOUS
<1>1. CASE \E o \in Spelled, args \in ArgLists : parse_args(o, args)
  BY <1>1 DEF parse_args, loop, LoopType, Frame
<1>2. CASE process_cmd_line_args
  BY <1>2 DEF process_cmd_line_args, loop, LoopType, Frame
<1>3. CASE perform_timeout_opt
  BY <1>3 DEF perform_timeout_opt, loop, LoopType, Frame
<1>4. CASE AllPerformed
  BY <1>4 DEF AllPerformed, loop, LoopType, Frame
<1>5. CASE \E status \in GuiStatuses : run_gui(status)
  BY <1>5 DEF run_gui, loop, LoopType, Frame
<1>6. CASE PassOver
  BY <1>6 DEF PassOver, loop, LoopType, Frame
<1>7. CASE perform_version_opt
  BY <1>7 DEF perform_version_opt, loop, LoopType, Frame
<1>8. CASE perform_help_opt
  BY <1>8 DEF perform_help_opt, loop, LoopType, Frame
<1>9. CASE ReadCards
  <2>1. DeviceWords(Opt) \in Seq(AllWords)
    BY <1>9, DeviceWordsType DEF ReadCards, Performing
  <2>2. words' \in Seq(AllWords)
    BY <1>9, <2>1 DEF ReadCards, WithoutDevice
  <2> QED
    BY <1>9, <2>2 DEF ReadCards, LoopType
<1>10. CASE get_device_num
  <2>1. words' \in Seq(AllWords)
    BY <1>10, SeqParts DEF get_device_num, LoopType
  <2>3. device_nums \in Seq(Cards)
    BY DEF LoopType
  <2>4. \/ device_nums' = device_nums
        \/ Head(words) \in Cards /\ device_nums' = Append(device_nums, Head(words))
    BY <1>10 DEF get_device_num, IsCard
  <2>2. device_nums' \in Seq(Cards)
    BY <2>3, <2>4, SeqAppended
  <2> QED
    BY <1>10, <2>1, <2>2 DEF get_device_num, LoopType
<1>11. CASE get_device_nums
  <2>1. ToPerform(Opt) /\ Known[Opt.option] \in Commands
    BY <1>11 DEF get_device_nums, PlaceInv, Performing
  <2>2. Displays(Opt) \in Seq(DOMAIN Steps)
    BY <2>1, DisplaysType
  <2> QED
    BY <1>11, <2>2, CardList DEF get_device_nums, LoopType, Start, NotStarted, Frame, loop
<1>12. CASE \E present \in SUBSET Cards : get_avail_device_nums(SetToSeq(present))
  <2>1. ToPerform(Opt) /\ Known[Opt.option] \in Commands
    BY <1>12 DEF get_avail_device_nums, PlaceInv, Performing
  <2>2. Displays(Opt) \in Seq(DOMAIN Steps)
    BY <2>1, DisplaysType
  <2> QED
    BY <1>12, <2>2, CardList DEF get_avail_device_nums, LoopType, Start, NotStarted, Frame, loop
<1>13. CASE \E ok, some \in BOOLEAN : perform_ecc_set(ok, some)
  BY <1>13, EmptySeq DEF perform_ecc_set, loop, LoopType
<1>14. CASE \E opened \in BOOLEAN : get_device(opened)
  <2>1. todo[1] \in Cards /\ Tail(todo) \in Seq(Cards)
    BY <1>14, FirstCard DEF get_device
  <2>2. Steps[Display] \in Seq(AllSteps)
    BY <1>14, StepLists, SeqParts DEF get_device, LoopType, Display, PlaceInv, Inside
  <2> QED
    BY <1>14, <2>1, <2>2, EmptySeq DEF get_device, LoopType, CardFailed, Leave
<1>15. CASE \E opened \in BOOLEAN : open_conf(opened)
  BY <1>15, EmptySeq DEF open_conf, loop, LoopType, Conf, CardFailed, CardDone, Leave
<1>16. CASE \E status \in Statuses \cup {"error"} : validate_device_is_online(status)
  <2>2. card \in Cards /\ avail_dev_nums \in Seq(Cards)
    BY <1>16 DEF validate_device_is_online, LoopType, PlaceInv, OnCard
  <2>3. avail_dev_nums' \in {avail_dev_nums, Append(avail_dev_nums, card)}
    BY <1>16 DEF validate_device_is_online
  <2>1. avail_dev_nums' \in Seq(Cards)
    BY <2>2, <2>3, SeqAppended
  <2> QED
    BY <1>16, <2>1, EmptySeq DEF validate_device_is_online, LoopType, Loop, CardFailed, CardDone,
       Leave
<1>17. CASE perform_all
  BY <1>17, EmptySeq, AllType DEF perform_all, loop, LoopType
<1>18. CASE NextDisplay
  BY <1>18, SeqParts DEF NextDisplay, loop, LoopType
<1>19. CASE OptionDone
  BY <1>19, EmptySeq DEF OptionDone, loop, LoopType
<1>20. CASE Answered
  BY <1>20, SeqParts, UnsupportedType DEF Answered, loop, LoopType, Loop
<1>21. CASE Failed
  BY <1>21, EmptySeq DEF Failed, loop, LoopType, Loop, CardFailed, CardDone, Leave
<1>22. CASE Refused
  BY <1>22, EmptySeq DEF Refused, loop, LoopType, Loop, CardFailed, CardDone, Leave
<1>23. CASE Shown
  BY <1>23, EmptySeq DEF Shown, loop, LoopType, Loop, CardFailed, CardDone, Leave
<1>24. CASE compute_dev_utilization
  BY <1>24 DEF compute_dev_utilization, loop, LoopType
<1>25. CASE \E lines \in {"all", "some", "none"} : read_conf(lines)
  BY <1>25, EmptySeq DEF read_conf, loop, LoopType, Conf, CardFailed, CardDone, Leave
<1>26. CASE \E whole \in BOOLEAN : write_conf(whole)
  BY <1>26, EmptySeq DEF write_conf, loop, LoopType, Conf, CardFailed, CardDone, Leave
<1>27. CASE Interrupted
  BY <1>27, EmptySeq DEF Interrupted, loop, LoopType, Conf, CardFailed, CardDone, Leave
<1>28. CASE Done
  BY <1>28 DEF Done, loop, LoopType, vars
<1>29. CASE UNCHANGED vars
  BY <1>29 DEF vars, loop, LoopType
<1> QED
  BY <1>1, <1>2, <1>3, <1>4, <1>5, <1>6, <1>7, <1>8, <1>9, <1>10, <1>11, <1>12, <1>13, <1>14,
     <1>15, <1>16, <1>17, <1>18, <1>19, <1>20, <1>21, <1>22, <1>23, <1>24, <1>25, <1>26, <1>27,
     <1>28, <1>29 DEF Next

LEMMA PlaceStep == LineType /\ LoopType /\ PlaceInv /\ [Next]_vars => PlaceInv'
<1> SUFFICES ASSUME LineType, LoopType, PlaceInv, [Next]_vars PROVE PlaceInv'
  OBVIOUS
<1>1. CASE \E o \in Spelled, args \in ArgLists : parse_args(o, args)
  BY <1>1 DEF parse_args, PlaceInv, Inside, OnCard, Frame, loop, cmdline
<1>2. CASE process_cmd_line_args
  BY <1>2 DEF process_cmd_line_args, PlaceInv, Inside, OnCard, Frame, loop, cmdline
<1>3. CASE perform_timeout_opt
  BY <1>3 DEF perform_timeout_opt, PlaceInv, Inside, OnCard, Frame, loop, cmdline
<1>4. CASE AllPerformed
  BY <1>4 DEF AllPerformed, PlaceInv, Inside, OnCard, Frame, loop, cmdline
<1>5. CASE \E status \in GuiStatuses : run_gui(status)
  BY <1>5 DEF run_gui, PlaceInv, Inside, OnCard, Frame, loop, cmdline
<1>6. CASE PassOver
  BY <1>6 DEF PassOver, PlaceInv, Inside, OnCard, Performing, NextOption, Frame, loop
<1>7. CASE perform_version_opt
  BY <1>7 DEF perform_version_opt, PlaceInv, Inside, OnCard, Performing, NextOption, Frame, loop
<1>8. CASE perform_help_opt
  BY <1>8 DEF perform_help_opt, PlaceInv, Inside, OnCard, Performing, NextOption, Frame, loop
<1>9. CASE ReadCards
  BY <1>9 DEF ReadCards, PlaceInv, Inside, OnCard, Performing, Opt, cmdline
<1>10. CASE get_device_num
  BY <1>10 DEF get_device_num, PlaceInv, Inside, OnCard, Opt, cmdline
<1>11. CASE get_device_nums
  <2>1. ToPerform(Opt) /\ Known[Opt.option] \in Commands /\ ordered_args_ # <<>>
    BY <1>11 DEF get_device_nums, PlaceInv, Performing
  <2>2. Displays(Opt) # <<>>
    BY <2>1, DisplaysType
  <2> QED
    BY <1>11, <2>1, <2>2 DEF get_device_nums, PlaceInv, Start, NotStarted, Inside, OnCard,
       cmdline, Opt
<1>12. CASE \E present \in SUBSET Cards : get_avail_device_nums(SetToSeq(present))
  <2>1. ToPerform(Opt) /\ Known[Opt.option] \in Commands /\ ordered_args_ # <<>>
    BY <1>12 DEF get_avail_device_nums, PlaceInv, Performing
  <2>2. Displays(Opt) # <<>>
    BY <2>1, DisplaysType
  <2> QED
    BY <1>12, <2>1, <2>2 DEF get_avail_device_nums, PlaceInv, Start, NotStarted, Inside, OnCard,
       cmdline, Opt
<1>13. CASE \E ok, some \in BOOLEAN : perform_ecc_set(ok, some)
  BY <1>13 DEF perform_ecc_set, PlaceInv, Inside, OnCard, Opt, cmdline
<1>14. CASE \E opened \in BOOLEAN : get_device(opened)
  BY <1>14, FirstCard DEF get_device, PlaceInv, Inside, OnCard, Opt, cmdline, CardFailed,
     CardDone, Leave
<1>15. CASE \E opened \in BOOLEAN : open_conf(opened)
  BY <1>15 DEF open_conf, PlaceInv, Inside, OnCard, Opt, cmdline, Conf, CardFailed, CardDone,
     Leave
<1>16. CASE \E status \in Statuses \cup {"error"} : validate_device_is_online(status)
  BY <1>16 DEF validate_device_is_online, PlaceInv, Inside, OnCard, Opt, cmdline, Loop,
     CardFailed, CardDone, Leave
<1>17. CASE perform_all
  BY <1>17, AllType DEF perform_all, PlaceInv, Inside, OnCard, Opt, cmdline
<1>18. CASE NextDisplay
  BY <1>18 DEF NextDisplay, PlaceInv, Inside, OnCard, Opt, cmdline
<1>19. CASE OptionDone
  BY <1>19 DEF OptionDone, PlaceInv, Inside, OnCard
<1>20. CASE Answered
  BY <1>20 DEF Answered, PlaceInv, Inside, OnCard, Opt, cmdline, Loop, CardFailed, CardDone, Leave
<1>21. CASE Failed
  BY <1>21 DEF Failed, PlaceInv, Inside, OnCard, Opt, cmdline, Loop, CardFailed, CardDone, Leave
<1>22. CASE Refused
  BY <1>22 DEF Refused, PlaceInv, Inside, OnCard, Opt, cmdline, Loop, CardFailed, CardDone, Leave
<1>23. CASE Shown
  BY <1>23 DEF Shown, PlaceInv, Inside, OnCard, Opt, cmdline, Loop, CardFailed, CardDone, Leave
<1>24. CASE compute_dev_utilization
  BY <1>24 DEF compute_dev_utilization, PlaceInv, Inside, OnCard
<1>25. CASE \E lines \in {"all", "some", "none"} : read_conf(lines)
  BY <1>25 DEF read_conf, PlaceInv, Inside, OnCard, Opt, cmdline, Conf, CardFailed, CardDone,
     Leave
<1>26. CASE \E whole \in BOOLEAN : write_conf(whole)
  BY <1>26 DEF write_conf, PlaceInv, Inside, OnCard, Opt, cmdline, Conf, CardFailed, CardDone,
     Leave
<1>27. CASE Interrupted
  BY <1>27 DEF Interrupted, PlaceInv, Inside, OnCard, Opt, cmdline, Conf, CardFailed, CardDone,
     Leave
<1>28. CASE Done
  BY <1>28 DEF Done, PlaceInv, Inside, OnCard, vars, loop, cmdline
<1>29. CASE UNCHANGED vars
  BY <1>29 DEF vars, loop, cmdline, PlaceInv, Opt
<1> QED
  BY <1>1, <1>2, <1>3, <1>4, <1>5, <1>6, <1>7, <1>8, <1>9, <1>10, <1>11, <1>12, <1>13, <1>14,
     <1>15, <1>16, <1>17, <1>18, <1>19, <1>20, <1>21, <1>22, <1>23, <1>24, <1>25, <1>26, <1>27,
     <1>28, <1>29 DEF Next

LEMMA TypeInvariant == Spec => [](TypeOK /\ PlaceInv)
<1>1. TypeOK /\ PlaceInv /\ [Next]_vars => (TypeOK /\ PlaceInv)'
  BY LineStep, CodeStep, FileStep, ObjectStep, FlagStep, LoopStep, PlaceStep DEF TypeOK
<1> QED
  BY <1>1, TypeInit, PTL DEF Spec

(* Every variable keeps its type. *)
THEOREM TypeCorrect == Spec => []TypeOK
  BY TypeInvariant, PTL

-------------------------------------------------------------------------------
(* What --all relies on: the cards its first pass found online. *)
OnlineInv ==
  /\ Range(avail_dev_nums) \subseteq found
  /\ place \in Inside /\ Known[Opt.option] = "all" /\ Display # "verify" =>
       Range(device_nums) \subseteq found /\ Range(todo) \subseteq found
  /\ place = "steps" /\ Display \notin NotChecked => card \in found

LEMMA OnlineStep == TypeOK /\ PlaceInv /\ OnlineInv /\ [Next]_vars => OnlineInv'
<1> SUFFICES ASSUME TypeOK, PlaceInv, OnlineInv, [Next]_vars PROVE OnlineInv'
  OBVIOUS
<1>1. CASE \E o \in Spelled, args \in ArgLists : parse_args(o, args)
  BY <1>1 DEF parse_args, OnlineInv, Inside, OnCard, Frame, loop, cmdline, Display, Opt
<1>2. CASE process_cmd_line_args
  BY <1>2 DEF process_cmd_line_args, OnlineInv, Inside, OnCard, Frame, loop, cmdline, Display, Opt
<1>3. CASE perform_timeout_opt
  BY <1>3 DEF perform_timeout_opt, OnlineInv, Inside, OnCard, Frame, loop, cmdline, Display, Opt
<1>4. CASE AllPerformed
  BY <1>4 DEF AllPerformed, OnlineInv, Inside, OnCard, Frame, loop, cmdline, Display, Opt
<1>5. CASE \E status \in GuiStatuses : run_gui(status)
  BY <1>5 DEF run_gui, OnlineInv, Inside, OnCard, Frame, loop, cmdline, Display, Opt
<1>6. CASE PassOver
  BY <1>6 DEF PassOver, OnlineInv, Inside, OnCard, Performing, NextOption, Frame, loop
<1>7. CASE perform_version_opt
  BY <1>7 DEF perform_version_opt, OnlineInv, Inside, OnCard, Performing, NextOption, Frame, loop
<1>8. CASE perform_help_opt
  BY <1>8 DEF perform_help_opt, OnlineInv, Inside, OnCard, Performing, NextOption, Frame, loop
<1>9. CASE ReadCards
  BY <1>9 DEF ReadCards, OnlineInv, Inside, OnCard, Performing, Opt, cmdline
<1>10. CASE get_device_num
  BY <1>10 DEF get_device_num, OnlineInv, Inside, OnCard, Opt, cmdline
<1>11. CASE get_device_nums
  <2>1. ToPerform(Opt) /\ Known[Opt.option] \in Commands /\ ordered_args_ # <<>>
    BY <1>11 DEF get_device_nums, PlaceInv, Performing
  <2>2. Known[Opt.option] = "all" => Head(Displays(Opt)) = "verify"
    BY <2>1, DisplaysType
  <2> QED
    BY <1>11, <2>1, <2>2 DEF get_device_nums, OnlineInv, Start, NotStarted, Frame, loop, Inside,
       OnCard, cmdline, Opt, Display
<1>12. CASE \E present \in SUBSET Cards : get_avail_device_nums(SetToSeq(present))
  <2>1. ToPerform(Opt) /\ Known[Opt.option] \in Commands /\ ordered_args_ # <<>>
    BY <1>12 DEF get_avail_device_nums, PlaceInv, Performing
  <2>2. Known[Opt.option] = "all" => Head(Displays(Opt)) = "verify"
    BY <2>1, DisplaysType
  <2> QED
    BY <1>12, <2>1, <2>2 DEF get_avail_device_nums, OnlineInv, Start, NotStarted, Frame, loop,
       Inside, OnCard, cmdline, Opt, Display
<1>13. CASE \E ok, some \in BOOLEAN : perform_ecc_set(ok, some)
  BY <1>13, EmptyRange DEF perform_ecc_set, OnlineInv, Inside, OnCard, Opt, cmdline, Display
<1>14. CASE \E opened \in BOOLEAN : get_device(opened)
  <2>1. todo[1] \in Range(todo) /\ Range(Tail(todo)) \subseteq Range(todo)
    BY <1>14, FirstCard DEF get_device, TypeOK
  <2> QED
    BY <1>14, <2>1 DEF get_device, OnlineInv, Inside, OnCard, Verified, Opt, Display, cmdline,
       CardFailed, Leave
<1>15. CASE \E opened \in BOOLEAN : open_conf(opened)
  BY <1>15 DEF open_conf, OnlineInv, Inside, OnCard, Opt, cmdline, Display, Conf, CardFailed,
     CardDone, Leave
<1>16. CASE \E status \in Statuses \cup {"error"} : validate_device_is_online(status)
  <2>1. Range(Append(avail_dev_nums, card)) = Range(avail_dev_nums) \cup {card}
    BY <1>16, SeqAppended DEF validate_device_is_online, TypeOK, LoopType, PlaceInv, OnCard
  <2> QED
    BY <1>16, <2>1 DEF validate_device_is_online, OnlineInv, Inside, OnCard, Opt, Display,
       cmdline, Loop, CardFailed, CardDone, Leave
<1>17. CASE perform_all
  BY <1>17, EmptyRange DEF perform_all, OnlineInv, Inside, OnCard, Opt, cmdline
<1>18. CASE NextDisplay
  BY <1>18 DEF NextDisplay, OnlineInv, Inside, OnCard, Opt, cmdline
<1>19. CASE OptionDone
  BY <1>19, EmptyRange DEF OptionDone, OnlineInv, Inside, OnCard
<1>20. CASE Answered
  BY <1>20 DEF Answered, OnlineInv, Inside, OnCard, Opt, cmdline, Display, Loop, objects, files,
     CardFailed, CardDone, Leave
<1>21. CASE Failed
  BY <1>21 DEF Failed, OnlineInv, Inside, OnCard, Opt, cmdline, Display, Loop, objects, files,
     CardFailed, CardDone, Leave
<1>22. CASE Refused
  BY <1>22 DEF Refused, OnlineInv, Inside, OnCard, Opt, cmdline, Display, Loop, objects, files,
     CardFailed, CardDone, Leave
<1>23. CASE Shown
  BY <1>23 DEF Shown, OnlineInv, Inside, OnCard, Opt, cmdline, Display, Loop, objects, files,
     CardFailed, CardDone, Leave
<1>24. CASE compute_dev_utilization
  BY <1>24 DEF compute_dev_utilization, OnlineInv, Inside, OnCard, loop
<1>25. CASE \E lines \in {"all", "some", "none"} : read_conf(lines)
  BY <1>25 DEF read_conf, OnlineInv, Inside, OnCard, Opt, cmdline, Display, Conf, CardFailed,
     CardDone, Leave
<1>26. CASE \E whole \in BOOLEAN : write_conf(whole)
  BY <1>26 DEF write_conf, OnlineInv, Inside, OnCard, Opt, cmdline, Display, Conf, CardFailed,
     CardDone, Leave
<1>27. CASE Interrupted
  BY <1>27 DEF Interrupted, OnlineInv, Inside, OnCard, Opt, cmdline, Display, Conf, CardFailed,
     CardDone, Leave
<1>28. CASE Done
  BY <1>28 DEF Done, OnlineInv, Inside, OnCard, vars, loop, cmdline, Opt, Display
<1>29. CASE UNCHANGED vars
  BY <1>29 DEF vars, loop, cmdline, OnlineInv, Opt, Display
<1> QED
  BY <1>1, <1>2, <1>3, <1>4, <1>5, <1>6, <1>7, <1>8, <1>9, <1>10, <1>11, <1>12, <1>13, <1>14,
     <1>15, <1>16, <1>17, <1>18, <1>19, <1>20, <1>21, <1>22, <1>23, <1>24, <1>25, <1>26, <1>27,
     <1>28, <1>29 DEF Next

-------------------------------------------------------------------------------
(* A blank object, and a first sample taken from one, come of a failure. *)
SampleInv ==
  /\ \A c \in Cards : obj[c]["CORE_UTIL_INFO"] = "blank" => c \in unread
  /\ sample1 = "blank" => card \in unread
  /\ place \notin {"steps", "dead"} => sample1 = "none"

LEMMA SampleStep == TypeOK /\ PlaceInv /\ SampleInv /\ [Next]_vars => SampleInv'
<1> SUFFICES ASSUME TypeOK, PlaceInv, SampleInv, [Next]_vars PROVE SampleInv'
  OBVIOUS
<1>1. CASE \E o \in Spelled, args \in ArgLists : parse_args(o, args)
  BY <1>1 DEF parse_args, SampleInv, objects, Frame, loop, Performing
<1>2. CASE process_cmd_line_args
  BY <1>2 DEF process_cmd_line_args, SampleInv, objects, Frame, loop, Performing
<1>3. CASE perform_timeout_opt
  BY <1>3 DEF perform_timeout_opt, SampleInv, objects, Frame, loop, Performing
<1>4. CASE AllPerformed
  BY <1>4 DEF AllPerformed, SampleInv, objects, Frame, loop, Performing
<1>5. CASE \E status \in GuiStatuses : run_gui(status)
  BY <1>5 DEF run_gui, SampleInv, objects, Frame, loop, Performing
<1>6. CASE PassOver
  BY <1>6 DEF PassOver, SampleInv, objects, Frame, loop, Performing
<1>7. CASE perform_version_opt
  BY <1>7 DEF perform_version_opt, SampleInv, objects, Frame, loop, Performing
<1>8. CASE perform_help_opt
  BY <1>8 DEF perform_help_opt, SampleInv, objects, Frame, loop, Performing
<1>9. CASE ReadCards
  BY <1>9 DEF ReadCards, SampleInv, objects, Performing
<1>10. CASE get_device_num
  BY <1>10 DEF get_device_num, SampleInv, objects
<1>11. CASE get_device_nums
  BY <1>11 DEF get_device_nums, SampleInv, objects, Start, NotStarted, Frame, loop, Performing
<1>12. CASE \E present \in SUBSET Cards : get_avail_device_nums(SetToSeq(present))
  BY <1>12 DEF get_avail_device_nums, SampleInv, objects, Start, NotStarted, Frame, loop,
     Performing
<1>13. CASE \E ok, some \in BOOLEAN : perform_ecc_set(ok, some)
  BY <1>13 DEF perform_ecc_set, SampleInv, objects
<1>14. CASE \E opened \in BOOLEAN : get_device(opened)
  BY <1>14 DEF get_device, SampleInv, objects, CardFailed, CardDone, Leave
<1>15. CASE \E opened \in BOOLEAN : open_conf(opened)
  BY <1>15 DEF open_conf, SampleInv, objects, Conf, CardFailed, CardDone, Leave
<1>16. CASE \E status \in Statuses \cup {"error"} : validate_device_is_online(status)
  BY <1>16 DEF validate_device_is_online, SampleInv, objects, Loop, CardFailed, CardDone, Leave
<1>17. CASE perform_all
  BY <1>17 DEF perform_all, SampleInv, objects
<1>18. CASE NextDisplay
  BY <1>18 DEF NextDisplay, SampleInv, objects
<1>19. CASE OptionDone
  BY <1>19 DEF OptionDone, SampleInv, objects
<1>20. CASE Answered
  <2>1. card \in Cards /\ obj \in [Cards -> [Kept -> {"none", "blank", "read"}]]
    BY <1>20 DEF Answered, PlaceInv, OnCard, TypeOK, ObjectType
  <2>2. card' = card /\ unread' = unread /\ place' = place /\ place = "steps"
    BY <1>20 DEF Answered
  <2>3. \A c \in Cards : obj'[c]["CORE_UTIL_INFO"] = "blank" => c \in unread
    BY <1>20, <2>1 DEF Answered, KeepObject, SampleInv, Kept
  <2>4. sample1' \in {sample1, obj'[card]["CORE_UTIL_INFO"]}
    BY <1>20 DEF Answered
  <2> QED
    BY <2>1, <2>2, <2>3, <2>4 DEF SampleInv
<1>21. CASE Failed
  <2>1. card \in Cards /\ obj \in [Cards -> [Kept -> {"none", "blank", "read"}]]
    BY <1>21 DEF Failed, PlaceInv, OnCard, TypeOK, ObjectType
  <2>2. sample1' = "none" /\ place' = "card" /\ unread \subseteq unread'
    BY <1>21 DEF Failed, CardFailed, Leave
  <2>3. \A c \in Cards : obj'[c]["CORE_UTIL_INFO"] = "blank" => c \in unread'
    BY <1>21, <2>1 DEF Failed, KeepObject, SampleInv, Kept
  <2> QED
    BY <2>2, <2>3 DEF SampleInv
<1>22. CASE Refused
  BY <1>22 DEF Refused, SampleInv, objects, Loop, CardFailed, CardDone, Leave
<1>23. CASE Shown
  BY <1>23 DEF Shown, SampleInv, objects, Loop, CardFailed, CardDone, Leave
<1>24. CASE compute_dev_utilization
  BY <1>24 DEF compute_dev_utilization, SampleInv, objects, loop
<1>25. CASE \E lines \in {"all", "some", "none"} : read_conf(lines)
  BY <1>25 DEF read_conf, SampleInv, objects, Conf, CardFailed, CardDone, Leave
<1>26. CASE \E whole \in BOOLEAN : write_conf(whole)
  BY <1>26 DEF write_conf, SampleInv, objects, Conf, CardFailed, CardDone, Leave
<1>27. CASE Interrupted
  BY <1>27 DEF Interrupted, SampleInv, objects, Conf, CardFailed, CardDone, Leave
<1>28. CASE Done
  BY <1>28 DEF Done, SampleInv, objects, vars, loop
<1>29. CASE UNCHANGED vars
  BY <1>29 DEF vars, loop, objects, SampleInv
<1> QED
  BY <1>1, <1>2, <1>3, <1>4, <1>5, <1>6, <1>7, <1>8, <1>9, <1>10, <1>11, <1>12, <1>13, <1>14,
     <1>15, <1>16, <1>17, <1>18, <1>19, <1>20, <1>21, <1>22, <1>23, <1>24, <1>25, <1>26, <1>27,
     <1>28, <1>29 DEF Next

-------------------------------------------------------------------------------
(* What was read of a configuration file is all of it, or a fault is noted.  *)
ConfInv ==
  /\ ConfKept
  /\ place \in {"write", "flush"} => content = "all" \/ card \in fault

LEMMA ConfStep == TypeOK /\ PlaceInv /\ ConfInv /\ [Next]_vars => ConfInv'
<1> SUFFICES ASSUME TypeOK, PlaceInv, ConfInv, [Next]_vars PROVE ConfInv'
  OBVIOUS
<1>1. CASE \E o \in Spelled, args \in ArgLists : parse_args(o, args)
  BY <1>1 DEF parse_args, ConfInv, ConfKept, files, Frame, loop
<1>2. CASE process_cmd_line_args
  BY <1>2 DEF process_cmd_line_args, ConfInv, ConfKept, files, Frame, loop
<1>3. CASE perform_timeout_opt
  BY <1>3 DEF perform_timeout_opt, ConfInv, ConfKept, files, Frame, loop
<1>4. CASE AllPerformed
  BY <1>4 DEF AllPerformed, ConfInv, ConfKept, files, Frame, loop
<1>5. CASE \E status \in GuiStatuses : run_gui(status)
  BY <1>5 DEF run_gui, ConfInv, ConfKept, files, Frame, loop
<1>6. CASE PassOver
  BY <1>6 DEF PassOver, ConfInv, ConfKept, files, Frame, loop
<1>7. CASE perform_version_opt
  BY <1>7 DEF perform_version_opt, ConfInv, ConfKept, files, Frame, loop
<1>8. CASE perform_help_opt
  BY <1>8 DEF perform_help_opt, ConfInv, ConfKept, files, Frame, loop
<1>9. CASE ReadCards
  BY <1>9 DEF ReadCards, ConfInv, ConfKept, files, Performing
<1>10. CASE get_device_num
  BY <1>10 DEF get_device_num, ConfInv, ConfKept, files
<1>11. CASE get_device_nums
  BY <1>11 DEF get_device_nums, ConfInv, ConfKept, files, Start, NotStarted, Frame, loop,
     Performing
<1>12. CASE \E present \in SUBSET Cards : get_avail_device_nums(SetToSeq(present))
  BY <1>12 DEF get_avail_device_nums, ConfInv, ConfKept, files, Start, NotStarted, Frame, loop,
     Performing
<1>13. CASE \E ok, some \in BOOLEAN : perform_ecc_set(ok, some)
  BY <1>13 DEF perform_ecc_set, ConfInv, ConfKept, files
<1>14. CASE \E opened \in BOOLEAN : get_device(opened)
  BY <1>14 DEF get_device, ConfInv, ConfKept, files, CardFailed, CardDone, Leave
<1>15. CASE \E opened \in BOOLEAN : open_conf(opened)
  <2>1. card \in Cards /\ conf \in [Cards -> ConfType]
    BY <1>15 DEF open_conf, PlaceInv, OnCard, TypeOK, FileType
  <2> QED
    BY <1>15, <2>1 DEF open_conf, ConfInv, ConfKept, Conf, CardFailed, CardDone, Leave
<1>16. CASE \E status \in Statuses \cup {"error"} : validate_device_is_online(status)
  BY <1>16 DEF validate_device_is_online, ConfInv, ConfKept, files, Loop, CardFailed, CardDone,
     Leave
<1>17. CASE perform_all
  BY <1>17 DEF perform_all, ConfInv, ConfKept, files
<1>18. CASE NextDisplay
  BY <1>18 DEF NextDisplay, ConfInv, ConfKept, files
<1>19. CASE OptionDone
  BY <1>19 DEF OptionDone, ConfInv, ConfKept, files
<1>20. CASE Answered
  BY <1>20 DEF Answered, ConfInv, ConfKept, files
<1>21. CASE Failed
  BY <1>21 DEF Failed, ConfInv, ConfKept, files, Loop, CardFailed, CardDone, Leave
<1>22. CASE Refused
  BY <1>22 DEF Refused, ConfInv, ConfKept, files, Loop, CardFailed, CardDone, Leave
<1>23. CASE Shown
  BY <1>23 DEF Shown, ConfInv, ConfKept, files, Loop, CardFailed, CardDone, Leave
<1>24. CASE compute_dev_utilization
  BY <1>24 DEF compute_dev_utilization, ConfInv, ConfKept, files, loop
<1>25. CASE \E lines \in {"all", "some", "none"} : read_conf(lines)
  BY <1>25 DEF read_conf, Cut, ConfInv, ConfKept, files, Conf, PlaceInv, OnCard
<1>26. CASE \E whole \in BOOLEAN : write_conf(whole)
  <2>1. card \in Cards /\ conf \in [Cards -> ConfType]
    BY <1>26 DEF write_conf, PlaceInv, OnCard, TypeOK, FileType
  <2> QED
    BY <1>26, <2>1 DEF write_conf, Cut, ConfInv, ConfKept, Conf, CardFailed, CardDone, Leave
<1>27. CASE Interrupted
  BY <1>27 DEF Interrupted, ConfInv, ConfKept, files, Conf
<1>28. CASE Done
  BY <1>28 DEF Done, ConfInv, ConfKept, files, vars, loop
<1>29. CASE UNCHANGED vars
  BY <1>29 DEF vars, loop, files, ConfInv, ConfKept
<1> QED
  BY <1>1, <1>2, <1>3, <1>4, <1>5, <1>6, <1>7, <1>8, <1>9, <1>10, <1>11, <1>12, <1>13, <1>14,
     <1>15, <1>16, <1>17, <1>18, <1>19, <1>20, <1>21, <1>22, <1>23, <1>24, <1>25, <1>26, <1>27,
     <1>28, <1>29 DEF Next

-------------------------------------------------------------------------------
(* A changed file is told of, or its option is not over.                     *)
AdviceInv ==
  /\ (\E c \in Cards : conf[c].pm # {"as before"}) =>
       advised = TRUE \/ changed # {} \/ place \in {"flush", "dead"}
  /\ changed # {} => place \in Inside \cup {"dead"}

LEMMA AdviceStep == TypeOK /\ PlaceInv /\ AdviceInv /\ [Next]_vars => AdviceInv'
<1> SUFFICES ASSUME TypeOK, PlaceInv, AdviceInv, [Next]_vars PROVE AdviceInv'
  OBVIOUS
<1>1. CASE \E o \in Spelled, args \in ArgLists : parse_args(o, args)
  BY <1>1 DEF parse_args, AdviceInv, Inside, OnCard, files, Frame
<1>2. CASE process_cmd_line_args
  BY <1>2 DEF process_cmd_line_args, AdviceInv, Inside, OnCard, files, Frame
<1>3. CASE perform_timeout_opt
  BY <1>3 DEF perform_timeout_opt, AdviceInv, Inside, OnCard, files, Frame
<1>4. CASE AllPerformed
  BY <1>4 DEF AllPerformed, AdviceInv, Inside, OnCard, files, Frame
<1>5. CASE \E status \in GuiStatuses : run_gui(status)
  BY <1>5 DEF run_gui, AdviceInv, Inside, OnCard, files, Frame
<1>6. CASE PassOver
  BY <1>6 DEF PassOver, AdviceInv, Inside, OnCard, files, Frame
<1>7. CASE perform_version_opt
  BY <1>7 DEF perform_version_opt, AdviceInv, Inside, OnCard, files, Frame
<1>8. CASE perform_help_opt
  BY <1>8 DEF perform_help_opt, AdviceInv, Inside, OnCard, files, Frame
<1>9. CASE ReadCards
  BY <1>9 DEF ReadCards, AdviceInv, Inside, OnCard, files, Performing
<1>10. CASE get_device_num
  BY <1>10 DEF get_device_num, AdviceInv, Inside, OnCard, files
<1>11. CASE get_device_nums
  BY <1>11 DEF get_device_nums, AdviceInv, Inside, OnCard, files, Start, NotStarted, Frame,
     Performing
<1>12. CASE \E present \in SUBSET Cards : get_avail_device_nums(SetToSeq(present))
  BY <1>12 DEF get_avail_device_nums, AdviceInv, Inside, OnCard, files, Start, NotStarted, Frame,
     Performing
<1>13. CASE \E ok, some \in BOOLEAN : perform_ecc_set(ok, some)
  BY <1>13 DEF perform_ecc_set, AdviceInv, Inside, OnCard, files
<1>14. CASE \E opened \in BOOLEAN : get_device(opened)
  BY <1>14 DEF get_device, AdviceInv, Inside, OnCard, files, CardFailed, CardDone, Leave
<1>15. CASE \E opened \in BOOLEAN : open_conf(opened)
  <2>1. card \in Cards /\ conf \in [Cards -> ConfType]
    BY <1>15 DEF open_conf, PlaceInv, OnCard, TypeOK, FileType
  <2> QED
    BY <1>15, <2>1 DEF open_conf, AdviceInv, Inside, OnCard, Conf, CardFailed, CardDone, Leave
<1>16. CASE \E status \in Statuses \cup {"error"} : validate_device_is_online(status)
  BY <1>16 DEF validate_device_is_online, AdviceInv, Inside, OnCard, files, Loop, CardFailed,
     CardDone, Leave
<1>17. CASE perform_all
  BY <1>17 DEF perform_all, AdviceInv, Inside, OnCard, files
<1>18. CASE NextDisplay
  BY <1>18 DEF NextDisplay, AdviceInv, Inside, OnCard, files
<1>19. CASE OptionDone
  BY <1>19 DEF OptionDone, AdviceInv, Inside, OnCard, files, TypeOK
<1>20. CASE Answered
  BY <1>20 DEF Answered, AdviceInv, Inside, OnCard, files
<1>21. CASE Failed
  BY <1>21 DEF Failed, AdviceInv, Inside, OnCard, files, Loop, CardFailed, CardDone, Leave
<1>22. CASE Refused
  BY <1>22 DEF Refused, AdviceInv, Inside, OnCard, files, Loop, CardFailed, CardDone, Leave
<1>23. CASE Shown
  BY <1>23 DEF Shown, AdviceInv, Inside, OnCard, files, Loop, CardFailed, CardDone, Leave
<1>24. CASE compute_dev_utilization
  BY <1>24 DEF compute_dev_utilization, AdviceInv, Inside, OnCard, files
<1>25. CASE \E lines \in {"all", "some", "none"} : read_conf(lines)
  BY <1>25 DEF read_conf, AdviceInv, Inside, OnCard, files, Conf
<1>26. CASE \E whole \in BOOLEAN : write_conf(whole)
  <2>1. card \in Cards /\ conf \in [Cards -> ConfType]
    BY <1>26 DEF write_conf, PlaceInv, OnCard, TypeOK, FileType
  <2> QED
    BY <1>26, <2>1 DEF write_conf, AdviceInv, Inside, OnCard, Conf, CardFailed, CardDone, Leave
<1>27. CASE Interrupted
  BY <1>27 DEF Interrupted, AdviceInv, Inside, OnCard, files, Conf
<1>28. CASE Done
  BY <1>28 DEF Done, AdviceInv, Inside, OnCard, files, vars
<1>29. CASE UNCHANGED vars
  BY <1>29 DEF vars, files, AdviceInv
<1> QED
  BY <1>1, <1>2, <1>3, <1>4, <1>5, <1>6, <1>7, <1>8, <1>9, <1>10, <1>11, <1>12, <1>13, <1>14,
     <1>15, <1>16, <1>17, <1>18, <1>19, <1>20, <1>21, <1>22, <1>23, <1>24, <1>25, <1>26, <1>27,
     <1>28, <1>29 DEF Next

-------------------------------------------------------------------------------
(* The exit code knows of everything that was missed; before the options    *)
(* are performed, missed is that one of them is in error.                    *)
ExitInv ==
  /\ place = "parse" => typed = 0 \/ ordered_args_ # <<>>
  /\ place = "parse" => "error" \notin missed
  /\ place # "exit" \/ typed > 0 => (exit_code_ = 0 <=> "error" \notin missed)
  /\ place = "timeout" =>
       ((\E opt \in Range(ordered_args_) : ~Valid(opt)) <=> "error" \in missed)

LEMMA TimeoutKnown == "--timeout" \in DOMAIN Known /\ Known["--timeout"] = "timeout"
  BY DEF Known, Spellings

(* Either the code and the error are as they were, or an error is told.      *)
Noted ==
  \/ exit_code_' = exit_code_ /\ ("error" \in missed' <=> "error" \in missed)
  \/ exit_code_' = 1 /\ "error" \in missed'

LEMMA CardNoted ==
  CardFailed \/ CardDone \/ UNCHANGED <<exit_code_, missed>> => Noted
  BY DEF CardFailed, CardDone, Noted

LEMMA CardPlace ==
  CardFailed \/ CardDone => place' = "card"
  BY DEF CardFailed, CardDone, Leave

LEMMA ExitKept ==
  ASSUME ExitInv, Noted, typed' = typed,
         place \notin {"parse", "timeout", "exit"}, place' \notin {"parse", "timeout"}
  PROVE  ExitInv'
  BY DEF ExitInv, Noted

LEMMA ExitInit == Init => ExitInv
  BY DEF Init, ExitInv

LEMMA ExitStep == TypeOK /\ ExitInv /\ [Next]_vars => ExitInv'
<1> SUFFICES ASSUME TypeOK, ExitInv, [Next]_vars PROVE ExitInv'
  OBVIOUS
<1>1. CASE \E o \in Spelled, args \in ArgLists : parse_args(o, args)
  <2> SUFFICES ASSUME NEW o \in Spelled, NEW args \in ArgLists, parse_args(o, args)
               PROVE  ExitInv'
    BY <1>1
  <2>1. ordered_args_' # <<>>
    <3>1. ordered_args_ \in Seq(Options)
      BY DEF TypeOK, LineType
    <3>2. CASE \E opt \in Range(ordered_args_) : opt.option = o
      BY <3>2, EmptyRange DEF parse_args
    <3>3. CASE ~(\E opt \in Range(ordered_args_) : opt.option = o)
      BY <3>1, <3>3 DEF parse_args
    <3> QED
      BY <3>2, <3>3
  <2>2. place = "parse" /\ UNCHANGED <<place, exit_code_>> /\ ("error" \in missed' <=> "error" \in missed)
    BY DEF parse_args
  <2> QED
    BY <2>1, <2>2 DEF ExitInv
<1>2. CASE process_cmd_line_args
  BY <1>2 DEF process_cmd_line_args, ExitInv, cmdline
<1>3. CASE perform_timeout_opt
  <2>1. place = "timeout" /\ place' = "options" /\ missed' = missed
    BY <1>3 DEF perform_timeout_opt
  <2>2. exit_code_' = exit_code_ \/ (exit_code_' = 1 /\ "error" \in missed)
    <3> DEFINE timed == {opt \in Range(ordered_args_) : opt.option = "--timeout"}
               number == \E opt \in timed : opt.args # <<>> /\ opt.args[1] = "number"
    <3>1. exit_code_' = IF timed = {} \/ number THEN exit_code_ ELSE 1
      BY <1>3 DEF perform_timeout_opt
    <3>2. ASSUME timed # {}, ~number PROVE "error" \in missed
      <4>1. PICK opt \in timed : TRUE
        BY <3>2
      <4>2. ASSUME opt.args = << "number" >> PROVE FALSE
        <5>1. opt.args # <<>> /\ opt.args[1] = "number"
          BY <4>2
        <5> QED
          BY <5>1, <4>1, <3>2
      <4>3. ~Valid(opt)
        BY <4>1, <4>2, TimeoutKnown DEF Valid
      <4> QED
        BY <4>1, <4>3, <2>1 DEF ExitInv
    <3> QED
      BY <3>1, <3>2
  <2> QED
    BY <2>1, <2>2 DEF ExitInv
<1>4. CASE AllPerformed
  BY <1>4 DEF AllPerformed, ExitInv, cmdline
<1>5. CASE \E status \in GuiStatuses : run_gui(status)
  <2>1. place = "parse" /\ ordered_args_ = <<>> /\ typed' = typed /\ place' = "exit"
    BY <1>5 DEF run_gui, cmdline
  <2>2. typed = 0
    BY <2>1 DEF ExitInv
  <2> QED
    BY <2>1, <2>2 DEF ExitInv
<1>6. CASE PassOver
  BY <1>6 DEF PassOver, ExitInv, Performing
<1>7. CASE perform_version_opt
  BY <1>7 DEF perform_version_opt, ExitInv, Performing
<1>8. CASE perform_help_opt
  <2>1. Noted
    BY <1>8 DEF perform_help_opt, Noted
  <2>2. typed' = typed /\ place = "options" /\ place' = "options"
    BY <1>8 DEF perform_help_opt, Performing
  <2> QED
    BY <2>1, <2>2, ExitKept
<1>9. CASE ReadCards
  BY <1>9 DEF ReadCards, ExitInv, Performing
<1>10. CASE get_device_num
  BY <1>10 DEF get_device_num, ExitInv, cmdline
<1>11. CASE get_device_nums
  BY <1>11 DEF get_device_nums, ExitInv, Start, NotStarted, Performing, cmdline
<1>12. CASE \E present \in SUBSET Cards : get_avail_device_nums(SetToSeq(present))
  BY <1>12 DEF get_avail_device_nums, ExitInv, Start, NotStarted, Performing, cmdline
<1>13. CASE \E ok, some \in BOOLEAN : perform_ecc_set(ok, some)
  <2>1. Noted
    BY <1>13 DEF perform_ecc_set, Noted
  <2>2. PICK ok \in BOOLEAN, some \in BOOLEAN : perform_ecc_set(ok, some)
    BY <1>13
  <2>3. place = "card" /\ place' = place /\ UNCHANGED cmdline
    BY <2>2 DEF perform_ecc_set
  <2>4. typed' = typed
    BY <2>3 DEF cmdline
  <2> QED
    BY <2>1, <2>3, <2>4, ExitKept
<1>14. CASE \E opened \in BOOLEAN : get_device(opened)
  <2>1. Noted /\ place' \notin {"parse", "timeout"}
    BY <1>14, CardNoted, CardPlace DEF get_device, TypeOK
  <2>2. typed' = typed /\ place \notin {"parse", "timeout", "exit"}
    BY <1>14 DEF get_device, cmdline
  <2> QED
    BY <2>1, <2>2, ExitKept
<1>15. CASE \E opened \in BOOLEAN : open_conf(opened)
  <2>1. Noted /\ place' \notin {"parse", "timeout"}
    BY <1>15, CardNoted, CardPlace DEF open_conf, TypeOK
  <2>2. typed' = typed /\ place \notin {"parse", "timeout", "exit"}
    BY <1>15 DEF open_conf, cmdline, Conf
  <2> QED
    BY <2>1, <2>2, ExitKept
<1>16. CASE \E status \in Statuses \cup {"error"} : validate_device_is_online(status)
  <2>1. Noted /\ place' \notin {"parse", "timeout"}
    BY <1>16, CardNoted, CardPlace DEF validate_device_is_online, TypeOK
  <2>2. typed' = typed /\ place \notin {"parse", "timeout", "exit"}
    BY <1>16 DEF validate_device_is_online, cmdline, Loop
  <2> QED
    BY <2>1, <2>2, ExitKept
<1>17. CASE perform_all
  BY <1>17 DEF perform_all, ExitInv, cmdline
<1>18. CASE NextDisplay
  BY <1>18 DEF NextDisplay, ExitInv, cmdline
<1>19. CASE OptionDone
  BY <1>19 DEF OptionDone, ExitInv, cmdline
<1>20. CASE Answered
  BY <1>20 DEF Answered, ExitInv, cmdline, Loop
<1>21. CASE Failed
  <2>1. Noted /\ place' \notin {"parse", "timeout"}
    BY <1>21, CardNoted, CardPlace DEF Failed, TypeOK
  <2>2. typed' = typed /\ place \notin {"parse", "timeout", "exit"}
    BY <1>21 DEF Failed, cmdline, Loop
  <2> QED
    BY <2>1, <2>2, ExitKept
<1>22. CASE Refused
  <2>1. Noted /\ place' \notin {"parse", "timeout"}
    BY <1>22, CardNoted, CardPlace DEF Refused, TypeOK
  <2>2. typed' = typed /\ place \notin {"parse", "timeout", "exit"}
    BY <1>22 DEF Refused, cmdline, Loop
  <2> QED
    BY <2>1, <2>2, ExitKept
<1>23. CASE Shown
  <2>1. Noted /\ place' \notin {"parse", "timeout"}
    BY <1>23, CardNoted, CardPlace DEF Shown, TypeOK
  <2>2. typed' = typed /\ place \notin {"parse", "timeout", "exit"}
    BY <1>23 DEF Shown, cmdline, Loop
  <2> QED
    BY <2>1, <2>2, ExitKept
<1>24. CASE compute_dev_utilization
  BY <1>24 DEF compute_dev_utilization, ExitInv, cmdline
<1>25. CASE \E lines \in {"all", "some", "none"} : read_conf(lines)
  <2>1. Noted /\ place' = "write" /\ place = "conf"
    BY <1>25 DEF read_conf, Cut, Noted
  <2>2. typed' = typed
    BY <1>25 DEF read_conf, Conf, cmdline
  <2> QED
    BY <2>1, <2>2, ExitKept
<1>26. CASE \E whole \in BOOLEAN : write_conf(whole)
  <2>1. Noted /\ place' = "card" /\ place = "flush"
    BY <1>26 DEF write_conf, Cut, Noted, Leave
  <2>2. typed' = typed
    BY <1>26 DEF write_conf, Conf, cmdline
  <2> QED
    BY <2>1, <2>2, ExitKept
<1>27. CASE Interrupted
  BY <1>27 DEF Interrupted, ExitInv, Conf, cmdline, TypeOK, CardFailed, CardDone, Leave
<1>28. CASE Done
  BY <1>28 DEF Done, ExitInv, vars, cmdline
<1>29. CASE UNCHANGED vars
  BY <1>29 DEF vars, cmdline, ExitInv
<1> QED
  BY <1>1, <1>2, <1>3, <1>4, <1>5, <1>6, <1>7, <1>8, <1>9, <1>10, <1>11, <1>12, <1>13, <1>14,
     <1>15, <1>16, <1>17, <1>18, <1>19, <1>20, <1>21, <1>22, <1>23, <1>24, <1>25, <1>26, <1>27,
     <1>28, <1>29 DEF Next

-------------------------------------------------------------------------------
(* A feature among the words that name the cards ends in an error, so that   *)
(* without one the features at the front of the words are all there are.     *)
Slip == \E w \in refused : FeatureWord(w)

FeatInv ==
  /\ FeaturesAsAsked
  /\ place \in {"parse", "timeout", "options", "exit"} => refused = {}
  /\ refused # {} => exit_code_ = 1
  /\ place = "words" =>
       Slip \/ \A w \in Range(DeviceWords(Opt)) : FeatureWord(w) => w \in Range(words)
  /\ place \in Inside => enabled = Enables(Opt.args) \/ Slip
  /\ place = "flush" => conf[card] = [lines |-> "none", pm |-> {}]

LEMMA FrontAndBack ==
  ASSUME LineType, ordered_args_ # <<>>,
         \A w \in Range(DeviceWords(Opt)) : ~FeatureWord(w)
  PROVE  Enables(SubSeq(Opt.args, 1, Leading(Opt.args))) = Enables(Opt.args)
<1> DEFINE args == Opt.args
           n == Leading(args)
           front == SubSeq(args, 1, n)
<1>1. args \in Seq(AllWords) /\ n \in 0..Len(args)
  BY OptionArgs, LeadingBounds
<1>2. Range(front) \subseteq Range(args)
  <2> HIDE DEF args, n
  <2> QED
    BY <1>1 DEF Range
<1>3. \A w \in Range(args) : FeatureWord(w) => w \in Range(front)
  <2>1. CASE Verb(Opt) # "none"
    <3>1. args # <<>> /\ args[1] \in Verbs /\ Known[Opt.option] # "pwrenable"
      BY <2>1 DEF Verb
    <3>2. DeviceWords(Opt) = Tail(args)
      BY <2>1, <3>1 DEF DeviceWords
    <3>3. \A w \in Range(args) : w = Head(args) \/ w \in Range(Tail(args))
      BY <1>1, <3>1, SeqParts
    <3>4. Head(args) = args[1]
      BY <1>1, <3>1, SeqParts
    <3>5. ~FeatureWord(args[1])
      BY <3>1 DEF FeatureWord, Features, Verbs
    <3> QED
      BY <3>2, <3>3, <3>4, <3>5
  <2>2. CASE Verb(Opt) = "none" /\ Known[Opt.option] # "pwrenable"
    <3>1. DeviceWords(Opt) = args
      BY <2>2 DEF DeviceWords
    <3> QED
      BY <3>1
  <2>3. CASE Verb(Opt) = "none" /\ Known[Opt.option] = "pwrenable"
    <3>1. DeviceWords(Opt) = SubSeq(args, n + 1, Len(args))
      BY <2>3 DEF DeviceWords
    <3>2. \A w \in Range(args) : w \in Range(front) \/ w \in Range(SubSeq(args, n + 1, Len(args)))
      <4> HIDE DEF args, n
      <4>1. ASSUME NEW j \in 1..Len(args), j > n
            PROVE  args[j] \in Range(SubSeq(args, n + 1, Len(args)))
        <5>1. j - n \in DOMAIN SubSeq(args, n + 1, Len(args))
              /\ SubSeq(args, n + 1, Len(args))[j - n] = args[j]
          BY <1>1, <4>1
        <5> QED
          BY <5>1 DEF Range
      <4>2. ASSUME NEW j \in 1..Len(args), j <= n PROVE args[j] \in Range(front)
        <5>1. j \in DOMAIN front /\ front[j] = args[j]
          BY <1>1, <4>2
        <5> QED
          BY <5>1 DEF Range
      <4>3. \A j \in 1..Len(args) : j <= n \/ j > n
        BY <1>1
      <4>4. \A w \in Range(args) : \E j \in 1..Len(args) : w = args[j]
        BY <1>1 DEF Range
      <4> QED
        BY <4>1, <4>2, <4>3, <4>4
    <3> QED
      BY <3>1, <3>2
  <2> QED
    BY <2>1, <2>2, <2>3
<1>4. "all" \in Range(front) <=> "all" \in Range(args)
  BY <1>2, <1>3 DEF FeatureWord
<1>5. Range(front) \cap Features = Range(args) \cap Features
  BY <1>2, <1>3 DEF FeatureWord
<1> HIDE DEF args, front
<1> QED
  BY <1>4, <1>5 DEF Enables, args, front, n

Away == {"parse", "timeout", "options", "exit"}

(* Between the options, and while the words of one are read. *)
LEMMA FeatAway ==
  ASSUME changed' = {}, place' \in Away, refused' = {}
  PROVE  FeatInv'
  BY DEF FeatInv, FeaturesAsAsked, Inside, OnCard, Away

LEMMA FeatBetween ==
  ASSUME AdviceInv, FeatInv, place \in Away, place' \in Away, UNCHANGED <<changed, refused>>
  PROVE  FeatInv'
<1>1. changed' = {} /\ refused' = {}
  BY DEF AdviceInv, FeatInv, Inside, OnCard, Away
<1> QED
  BY <1>1, FeatAway

(* The steps of a card that leave its file alone. *)
LEMMA FeatInside ==
  ASSUME FeatInv, place \in Inside, place' \in (Inside \ {"flush"}) \cup {"dead"},
         place = "flush" => place' = "dead" /\ card' = card,
         UNCHANGED <<ordered_args_, enabled, refused, changed, conf>>, fault \subseteq fault',
         exit_code_' \in {exit_code_, 1}
  PROVE  FeatInv'
<1>1. Opt' = Opt /\ (Slip' <=> Slip)
  BY DEF Opt, Slip
<1>2. refused' # {} => exit_code_' = 1
  BY DEF FeatInv
<1>3. ASSUME NEW c \in changed', ~(conf'[c].pm = Enables(Opt.args)),
             ~(exit_code_' = 1 /\ \E w \in refused' : FeatureWord(w)),
             ~(c \in fault' /\ conf'[c] = [lines |-> "none", pm |-> {}])
      PROVE  card' = c /\ place' \in {"flush", "dead"}
  <2>1. card = c /\ place \in {"flush", "dead"}
    BY <1>2, <1>3 DEF FeatInv, FeaturesAsAsked
  <2> QED  BY <2>1 DEF Inside, OnCard
<1>4. FeaturesAsAsked'
  BY <1>1, <1>3 DEF FeaturesAsAsked
<1> QED
  BY <1>1, <1>2, <1>4 DEF FeatInv, Inside, OnCard

LEMMA FeatInit == Init => FeatInv
  BY DEF Init, FeatInv, FeaturesAsAsked, Inside, OnCard

LEMMA FeatStep == TypeOK /\ PlaceInv /\ AdviceInv /\ FeatInv /\ [Next]_vars => FeatInv'
<1> SUFFICES ASSUME TypeOK, PlaceInv, AdviceInv, FeatInv, [Next]_vars PROVE FeatInv'
  OBVIOUS
<1>1. CASE \E o \in Spelled, args \in ArgLists : parse_args(o, args)
  <2>1. place \in Away /\ place' \in Away /\ UNCHANGED <<changed, refused>>
    BY <1>1 DEF parse_args, Frame, files, loop, Away
  <2> QED
    BY <2>1, FeatBetween
<1>2. CASE process_cmd_line_args
  <2>1. place \in Away /\ place' \in Away /\ UNCHANGED <<changed, refused>>
    BY <1>2 DEF process_cmd_line_args, Frame, files, loop, Away
  <2> QED
    BY <2>1, FeatBetween
<1>3. CASE perform_timeout_opt
  <2>1. place \in Away /\ place' \in Away /\ UNCHANGED <<changed, refused>>
    BY <1>3 DEF perform_timeout_opt, Frame, files, loop, Away
  <2> QED
    BY <2>1, FeatBetween
<1>4. CASE AllPerformed
  <2>1. place \in Away /\ place' \in Away /\ UNCHANGED <<changed, refused>>
    BY <1>4 DEF AllPerformed, Frame, files, loop, Away
  <2> QED
    BY <2>1, FeatBetween
<1>5. CASE \E status \in GuiStatuses : run_gui(status)
  <2>1. place \in Away /\ place' \in Away /\ UNCHANGED <<changed, refused>>
    BY <1>5 DEF run_gui, Frame, files, loop, Away
  <2> QED
    BY <2>1, FeatBetween
<1>6. CASE PassOver
  <2>1. place \in Away /\ place' \in Away /\ UNCHANGED <<changed, refused>>
    BY <1>6 DEF PassOver, Frame, files, loop, Away
  <2> QED
    BY <2>1, FeatBetween
<1>7. CASE perform_version_opt
  <2>1. place \in Away /\ place' \in Away /\ UNCHANGED <<changed, refused>>
    BY <1>7 DEF perform_version_opt, Performing, Frame, files, loop, Away
  <2> QED
    BY <2>1, FeatBetween
<1>8. CASE perform_help_opt
  <2>1. place \in Away /\ place' \in Away /\ UNCHANGED <<changed, refused>>
    BY <1>8 DEF perform_help_opt, Performing, Frame, files, loop, Away
  <2> QED
    BY <2>1, FeatBetween
<1>9. CASE ReadCards
  <2>1. DeviceWords(Opt) \in Seq(AllWords) /\ DeviceWords(Opt) # <<>>
    BY <1>9, DeviceWordsType DEF ReadCards, Performing, TypeOK
  <2>2. \A w \in Range(DeviceWords(Opt)) :
          w = DeviceWords(Opt)[1] \/ w \in Range(Tail(DeviceWords(Opt)))
    BY <2>1, SeqParts
  <2>3. ~FeatureWord("device")
    BY DEF FeatureWord, Features
  <2>4. \A w \in Range(DeviceWords(Opt)) : FeatureWord(w) => w \in Range(words')
    BY <1>9, <2>2, <2>3 DEF ReadCards, WithoutDevice
  <2>5. /\ Opt' = Opt /\ place = "options" /\ place' = "words" /\ changed' = changed
        /\ refused' = refused
    BY <1>9 DEF ReadCards, Performing, cmdline, files, Opt
  <2>6. DeviceWords(Opt)' = DeviceWords(Opt)
    BY <2>5 DEF DeviceWords, Verb
  <2>7. changed' = {}
    BY <2>5 DEF AdviceInv, Inside, OnCard
  <2>8. refused' = {}
    BY <2>5 DEF FeatInv
  <2> QED
    BY <2>4, <2>5, <2>6, <2>7, <2>8 DEF FeatInv, FeaturesAsAsked, Inside, OnCard
<1>10. CASE get_device_num
  <2>1. place = "words" /\ words # <<>> /\ words' = Tail(words) /\ place' = place
    BY <1>10 DEF get_device_num
  <2>2. \/ exit_code_' = 1 /\ refused' = refused \cup {Head(words)}
        \/ exit_code_' = exit_code_ /\ refused' = refused /\ Head(words) \in Cards
    BY <1>10 DEF get_device_num, IsCard
  <2>3. \A w \in Range(words) : w = Head(words) \/ w \in Range(Tail(words))
    BY <2>1, SeqParts DEF TypeOK, LoopType
  <2>4. \A c \in Cards : ~FeatureWord(c)
    BY MicsmcAssumption DEF FeatureWord
  <2>5. Opt' = Opt /\ changed' = changed
    BY <1>10 DEF get_device_num, cmdline, files, Opt
  <2>6. DeviceWords(Opt)' = DeviceWords(Opt)
    BY <2>5 DEF DeviceWords, Verb
  <2>7. changed' = {}
    BY <2>1, <2>5 DEF AdviceInv, Inside, OnCard
  <2>8. Slip' \/ \A w \in Range(DeviceWords(Opt)) : FeatureWord(w) => w \in Range(words')
    <3>1. Slip => Slip'
      BY <2>2 DEF Slip
    <3>2. CASE FeatureWord(Head(words))
      <4>1. Head(words) \in refused'
        BY <2>2, <2>4, <3>2
      <4> QED  BY <3>2, <4>1 DEF Slip
    <3>3. CASE ~FeatureWord(Head(words))
      BY <2>1, <2>3, <3>1, <3>3 DEF FeatInv
    <3> QED  BY <3>2, <3>3
  <2>9. refused' # {} => exit_code_' = 1
    BY <2>2 DEF FeatInv
  <2> QED
    BY <2>1, <2>6, <2>7, <2>8, <2>9 DEF FeatInv, FeaturesAsAsked, Inside, OnCard
<1>11. CASE get_device_nums
  <2>1. place = "words" /\ ordered_args_ # <<>> /\ LineType /\ changed' = changed
    BY <1>11 DEF get_device_nums, Performing, PlaceInv, TypeOK, Start, NotStarted, Frame, files
  <2>2. changed' = {}
    BY <2>1 DEF AdviceInv, Inside, OnCard
  <2>3. CASE place' = "options"
    <3>1. refused' = {}
      BY <1>11, <2>3 DEF get_device_nums, Start, NotStarted
    <3> QED  BY <2>2, <2>3, <3>1, FeatAway DEF Away
  <2>4. CASE place' # "options"
    <3>1. /\ place' = "card" /\ exit_code_' = exit_code_ /\ Opt' = Opt
          /\ refused' = refused
          /\ enabled' = Enables(SubSeq(Opt.args, 1, Leading(Opt.args)))
      BY <1>11, <2>4 DEF get_device_nums, Start, NotStarted, cmdline, Opt
    <3>2. Slip \/ \A w \in Range(DeviceWords(Opt)) : ~FeatureWord(w)
      BY <1>11, <2>1, EmptyRange DEF get_device_nums, FeatInv
    <3>3. Slip' \/ enabled' = Enables(Opt.args)
      BY <2>1, <3>1, <3>2, FrontAndBack DEF Slip
    <3> QED
      BY <2>1, <2>2, <3>1, <3>3 DEF FeatInv, FeaturesAsAsked, Inside, OnCard
  <2> QED
    BY <2>3, <2>4
<1>12. CASE \E present \in SUBSET Cards : get_avail_device_nums(SetToSeq(present))
  <2>1. place = "options" /\ ordered_args_ # <<>> /\ LineType /\ changed' = changed
    BY <1>12 DEF get_avail_device_nums, Performing, PlaceInv, TypeOK, Start, NotStarted, Frame,
       files
  <2>2. changed' = {}
    BY <2>1 DEF AdviceInv, Inside, OnCard
  <2>3. CASE place' = "options"
    <3>1. refused' = {}
      BY <1>12, <2>3 DEF get_avail_device_nums, Start, NotStarted
    <3> QED  BY <2>2, <2>3, <3>1, FeatAway DEF Away
  <2>4. CASE place' # "options"
    <3>1. /\ place' = "card" /\ exit_code_' = exit_code_ /\ Opt' = Opt
          /\ refused' = refused
          /\ enabled' = Enables(SubSeq(Opt.args, 1, Leading(Opt.args)))
      BY <1>12, <2>4 DEF get_avail_device_nums, Start, NotStarted, cmdline, Opt
    <3>2. Slip \/ \A w \in Range(DeviceWords(Opt)) : ~FeatureWord(w)
      BY <1>12, <2>1, EmptyRange DEF get_avail_device_nums, FeatInv
    <3>3. Slip' \/ enabled' = Enables(Opt.args)
      BY <2>1, <3>1, <3>2, FrontAndBack DEF Slip
    <3> QED
      BY <2>1, <2>2, <3>1, <3>3 DEF FeatInv, FeaturesAsAsked, Inside, OnCard
  <2> QED
    BY <2>3, <2>4
<1>13. CASE \E ok, some \in BOOLEAN : perform_ecc_set(ok, some)
  <2>1. /\ place \in Inside \ {"flush"} /\ place' \in (Inside \ {"flush"}) \cup {"dead"}
        /\ UNCHANGED <<ordered_args_, enabled, refused, changed, conf>> /\ fault' = fault
        /\ exit_code_' \in {exit_code_, 1}
    BY <1>13 DEF perform_ecc_set, Inside, OnCard, cmdline
  <2> QED
    BY <2>1, FeatInside
<1>14. CASE \E opened \in BOOLEAN : get_device(opened)
  <2>1. /\ place \in Inside \ {"flush"} /\ place' \in (Inside \ {"flush"}) \cup {"dead"}
        /\ UNCHANGED <<ordered_args_, enabled, refused, changed, conf>> /\ fault' = fault
        /\ exit_code_' \in {exit_code_, 1}
    BY <1>14 DEF get_device, CardFailed, Leave, Inside, OnCard, cmdline
  <2> QED
    BY <2>1, FeatInside
<1>15. CASE \E opened \in BOOLEAN : open_conf(opened)
  <2>1. card \in Cards /\ conf \in [Cards -> ConfType]
    BY <1>15 DEF open_conf, PlaceInv, OnCard, TypeOK, FileType
  <2>2. /\ place = "write" /\ UNCHANGED <<ordered_args_, enabled, refused, changed>>
        /\ fault' = fault /\ Opt' = Opt
    BY <1>15 DEF open_conf, Conf, cmdline, Opt
  <2>3. CASE place' = "flush"
    <3>1. /\ card' = card /\ exit_code_' = exit_code_
          /\ conf' = [conf EXCEPT ![card] = [lines |-> "none", pm |-> {}]]
      BY <1>15, <2>3 DEF open_conf, CardFailed, Leave
    <3>2. /\ changed \subseteq Cards /\ conf'[card] = [lines |-> "none", pm |-> {}]
          /\ \A c \in Cards : c # card => conf'[c] = conf[c]
      BY <2>1, <3>1 DEF TypeOK, FileType
    <3>3. /\ enabled' = Enables(Opt.args) \/ Slip'
          /\ refused' # {} => exit_code_' = 1
      BY <2>2, <3>1 DEF FeatInv, Slip, Inside, OnCard
    <3>4. FeaturesAsAsked'
      <4>1. ASSUME NEW c \in changed, c # card
            PROVE  \/ conf'[c].pm = Enables(Opt.args)
                   \/ exit_code_ = 1 /\ \E w \in refused : FeatureWord(w)
                   \/ c \in fault /\ conf'[c] = [lines |-> "none", pm |-> {}]
        <5>1. conf'[c] = conf[c]
          BY <3>2, <4>1
        <5> QED  BY <4>1, <5>1 DEF FeatInv, FeaturesAsAsked
      <4> QED  BY <2>2, <2>3, <3>1, <4>1 DEF FeaturesAsAsked
    <3> QED
      BY <2>2, <2>3, <3>1, <3>2, <3>3, <3>4 DEF FeatInv, Inside, OnCard
  <2>4. CASE place' # "flush"
    <3>1. exit_code_' = 1 /\ place' = "card" /\ conf' = conf
      BY <1>15, <2>4 DEF open_conf, CardFailed, Leave
    <3> QED
      BY <2>2, <3>1, FeatInside DEF Inside, OnCard
  <2> QED
    BY <2>3, <2>4
<1>16. CASE \E status \in Statuses \cup {"error"} : validate_device_is_online(status)
  <2>1. /\ place \in Inside \ {"flush"} /\ place' \in (Inside \ {"flush"}) \cup {"dead"}
        /\ UNCHANGED <<ordered_args_, enabled, refused, changed, conf>> /\ fault' = fault
        /\ exit_code_' \in {exit_code_, 1}
    BY <1>16 DEF validate_device_is_online, Loop, CardFailed, CardDone, Leave, Inside, OnCard, cmdline
  <2> QED
    BY <2>1, FeatInside
<1>17. CASE perform_all
  <2>1. /\ place \in Inside \ {"flush"} /\ place' \in (Inside \ {"flush"}) \cup {"dead"}
        /\ UNCHANGED <<ordered_args_, enabled, refused, changed, conf>> /\ fault' = fault
        /\ exit_code_' \in {exit_code_, 1}
    BY <1>17 DEF perform_all, files, Inside, OnCard, cmdline
  <2> QED
    BY <2>1, FeatInside
<1>18. CASE NextDisplay
  <2>1. /\ place \in Inside \ {"flush"} /\ place' \in (Inside \ {"flush"}) \cup {"dead"}
        /\ UNCHANGED <<ordered_args_, enabled, refused, changed, conf>> /\ fault' = fault
        /\ exit_code_' \in {exit_code_, 1}
    BY <1>18 DEF NextDisplay, files, Inside, OnCard, cmdline
  <2> QED
    BY <2>1, FeatInside
<1>19. CASE OptionDone
  <2>1. changed' = {} /\ refused' = {} /\ place' = "options"
    BY <1>19 DEF OptionDone
  <2> QED
    BY <2>1, FeatAway DEF Away
<1>20. CASE Answered
  <2>1. /\ place \in Inside \ {"flush"} /\ place' \in (Inside \ {"flush"}) \cup {"dead"}
        /\ UNCHANGED <<ordered_args_, enabled, refused, changed, conf>> /\ fault' = fault
        /\ exit_code_' \in {exit_code_, 1}
    BY <1>20 DEF Answered, Loop, files, Inside, OnCard, cmdline
  <2> QED
    BY <2>1, FeatInside
<1>21. CASE Failed
  <2>1. /\ place \in Inside \ {"flush"} /\ place' \in (Inside \ {"flush"}) \cup {"dead"}
        /\ UNCHANGED <<ordered_args_, enabled, refused, changed, conf>> /\ fault' = fault
        /\ exit_code_' \in {exit_code_, 1}
    BY <1>21 DEF Failed, Loop, CardFailed, Leave, Inside, OnCard, cmdline
  <2> QED
    BY <2>1, FeatInside
<1>22. CASE Refused
  <2>1. /\ place \in Inside \ {"flush"} /\ place' \in (Inside \ {"flush"}) \cup {"dead"}
        /\ UNCHANGED <<ordered_args_, enabled, refused, changed, conf>> /\ fault' = fault
        /\ exit_code_' \in {exit_code_, 1}
    BY <1>22 DEF Refused, Loop, CardFailed, Leave, Inside, OnCard, cmdline
  <2> QED
    BY <2>1, FeatInside
<1>23. CASE Shown
  <2>1. /\ place \in Inside \ {"flush"} /\ place' \in (Inside \ {"flush"}) \cup {"dead"}
        /\ UNCHANGED <<ordered_args_, enabled, refused, changed, conf>> /\ fault' = fault
        /\ exit_code_' \in {exit_code_, 1}
    BY <1>23 DEF Shown, Loop, CardDone, Leave, Inside, OnCard, cmdline
  <2> QED
    BY <2>1, FeatInside
<1>24. CASE compute_dev_utilization
  <2>1. /\ place \in Inside \ {"flush"} /\ place' \in (Inside \ {"flush"}) \cup {"dead"}
        /\ UNCHANGED <<ordered_args_, enabled, refused, changed, conf>> /\ fault' = fault
        /\ exit_code_' \in {exit_code_, 1}
    BY <1>24 DEF compute_dev_utilization, loop, files, Inside, OnCard, cmdline
  <2> QED
    BY <2>1, FeatInside
<1>25. CASE \E lines \in {"all", "some", "none"} : read_conf(lines)
  <2>1. /\ place = "conf" /\ place' = "write" /\ fault \subseteq fault'
        /\ UNCHANGED <<ordered_args_, enabled, refused, changed, conf, exit_code_>>
    BY <1>25 DEF read_conf, Cut, Conf, cmdline
  <2> QED
    BY <2>1, FeatInside DEF Inside, OnCard
<1>26. CASE \E whole \in BOOLEAN : write_conf(whole)
  <2>1. card \in Cards /\ conf \in [Cards -> ConfType]
    BY <1>26 DEF write_conf, PlaceInv, OnCard, TypeOK, FileType
  <2>2. /\ place = "flush" /\ place' = "card" /\ enabled' = enabled /\ Opt' = Opt
        /\ changed' = changed \cup {card} /\ exit_code_' = exit_code_ /\ refused' = refused
    BY <1>26 DEF write_conf, Leave, Conf, cmdline, Opt
  <2>3. \/ conf' = [conf EXCEPT ![card] = [lines |-> content, pm |-> enabled]] /\ fault' = fault
        \/ conf' = conf /\ fault' = fault \cup {card}
    BY <1>26 DEF write_conf, Cut
  <2>4. \A c \in Cards : c # card => conf'[c] = conf[c]
    BY <2>1, <2>3
  <2>5. \/ conf'[card].pm = enabled
        \/ card \in fault' /\ conf'[card] = [lines |-> "none", pm |-> {}]
    BY <2>1, <2>2, <2>3 DEF FeatInv
  <2>6. fault \subseteq fault' /\ changed \subseteq Cards
    BY <2>3 DEF TypeOK, FileType
  <2>7. /\ enabled = Enables(Opt.args) \/ (exit_code_ = 1 /\ \E w \in refused : FeatureWord(w))
        /\ Slip' <=> Slip
    BY <2>2 DEF FeatInv, Slip, Inside, OnCard
  <2>8. FeaturesAsAsked'
    <3>1. ASSUME NEW c \in changed, c # card
          PROVE  \/ conf'[c].pm = Enables(Opt.args)
                 \/ exit_code_ = 1 /\ \E w \in refused : FeatureWord(w)
                 \/ c \in fault' /\ conf'[c] = [lines |-> "none", pm |-> {}]
      <4>1. conf'[c] = conf[c]
        BY <2>4, <2>6, <3>1
      <4> QED  BY <2>6, <3>1, <4>1 DEF FeatInv, FeaturesAsAsked
    <3>2. \/ conf'[card].pm = Enables(Opt.args)
          \/ exit_code_ = 1 /\ \E w \in refused : FeatureWord(w)
          \/ card \in fault' /\ conf'[card] = [lines |-> "none", pm |-> {}]
      BY <2>5, <2>7
    <3> QED  BY <2>2, <3>1, <3>2 DEF FeaturesAsAsked
  <2> QED
    BY <2>2, <2>7, <2>8 DEF FeatInv, Inside, OnCard
<1>27. CASE Interrupted
  <2>1. /\ place = "flush" /\ place' = "dead" /\ card' = card /\ fault' = fault
        /\ UNCHANGED <<ordered_args_, enabled, refused, changed, conf, exit_code_>>
    BY <1>27 DEF Interrupted, Conf, cmdline
  <2> QED
    BY <2>1, FeatInside DEF Inside, OnCard
<1>28. CASE Done \/ UNCHANGED vars
  <2>1. UNCHANGED vars
    BY <1>28 DEF Done
  <2> QED
    BY <2>1 DEF vars, cmdline, loop, files, FeatInv, FeaturesAsAsked, Slip, Opt, DeviceWords, Verb
<1> QED
  BY <1>1, <1>2, <1>3, <1>4, <1>5, <1>6, <1>7, <1>8, <1>9, <1>10, <1>11, <1>12, <1>13, <1>14,
     <1>15, <1>16, <1>17, <1>18, <1>19, <1>20, <1>21, <1>22, <1>23, <1>24, <1>25, <1>26, <1>27,
     <1>28 DEF Next

-------------------------------------------------------------------------------
LEMMA InvInit == Init => OnlineInv /\ SampleInv /\ ConfInv /\ AdviceInv
<1> SUFFICES ASSUME Init PROVE OnlineInv /\ SampleInv /\ ConfInv /\ AdviceInv
  OBVIOUS
<1>1. OnlineInv
  BY EmptyRange DEF Init, OnlineInv, Inside, OnCard
<1>2. SampleInv
  BY DEF Init, SampleInv, Kept
<1>3. ConfInv
  BY DEF Init, ConfInv, ConfKept
<1>4. AdviceInv
  BY DEF Init, AdviceInv
<1> QED
  BY <1>1, <1>2, <1>3, <1>4

(* The exit code of the options is 0 exactly when nothing was missed but     *)
(* what it never tells of: repeated options and files not written whole.     *)
THEOREM ExitCorrect == Spec => []ExitHonest
<1>1. TypeOK /\ ExitInv => ExitHonest
  BY DEF TypeOK, Reasons, ExitInv, ExitHonest
<1> QED
  BY <1>1, TypeInvariant, ExitInit, ExitStep, PTL DEF Spec

(* What --all asks of a card comes after it was found online by --all.       *)
THEOREM OnlineCorrect == Spec => []OnlineFirst
<1>1. OnlineInv => OnlineFirst
  BY DEF OnlineInv, OnlineFirst
<1> QED
  BY <1>1, TypeInvariant, InvInit, OnlineStep, PTL DEF Spec

(* A sample that was never read comes of an earlier failure of the card.     *)
THEOREM SampleCorrect == Spec => []SampleExplained
<1>1. SampleInv => SampleExplained
  BY DEF SampleInv, SampleExplained
<1> QED
  BY <1>1, TypeInvariant, InvInit, SampleStep, PTL DEF Spec

(* A configuration file loses lines by a fault or in the window alone.       *)
THEOREM ConfCorrect == Spec => []ConfKept
<1>1. ConfInv => ConfKept
  BY DEF ConfInv
<1> QED
  BY <1>1, TypeInvariant, InvInit, ConfStep, PTL DEF Spec

(* No file is changed without the restart being advised at the end.          *)
THEOREM RestartCorrect == Spec => []RestartAdvised
<1>1. AdviceInv => RestartAdvised
  BY DEF AdviceInv, RestartAdvised, Inside, OnCard
<1> QED
  BY <1>1, TypeInvariant, InvInit, AdviceStep, PTL DEF Spec

(* The features in a changed file are those of the command line, unless one  *)
(* of them was refused as a card, with an error, or the write was cut short. *)
THEOREM FeaturesCorrect == Spec => []FeaturesAsAsked
<1>1. FeatInv => FeaturesAsAsked
  BY DEF FeatInv
<1>2. Spec => []AdviceInv
  BY TypeInvariant, InvInit, AdviceStep, PTL DEF Spec
<1> QED
  BY <1>1, <1>2, TypeInvariant, FeatInit, FeatStep, PTL DEF Spec
===============================================================================
