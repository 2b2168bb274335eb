# Verification of the MIC management tools

TLA+ models, TLC runs and TLAPS proofs for the Intel Xeon Phi ("MIC")
management tools: the library `libmicmgmt` (`miclib/`), the flash tools
`micflash` and `mpssflash`, the control panel `micsmc`, `mpssinfo` and
`micinfo`, the debug script and the Python binding. Paths below are relative to
the repository's sources.

## 1. Inventory

| Component | Code | State it keeps | Operations | What makes it correct |
|---|---|---|---|---|
| Flash session ("flash1") | `apps/mpssflash/flash1.c`, `helper.c` | exit code, signal disposition, flash descriptor, last status read, deadline | update, version, read, device, check: enter maintenance mode, verify the image, start/poll/finish a flash operation, reset | exit code tells the truth; the card is given back; nothing unverified is written; library rules kept; it ends |
| Choice of an image | `micflash.c`, `mpssflash.c`: `start_cmd()`, `get_update_image()`, `find_image()`, `check_image()` | path and file looked at, pipes open, a slot per card | run the `check` command on one file after the other in a process of its own, start a session with the first that fits | each card gets the file named or the last one that fits it; no card is left out for no reason; no card gets two sessions, unless it is named twice |
| Flash supervisor | `apps/mpssflash/micflash.c` | a slot per card: pid, pipes, state, percentage, status, exit status | parse the output lines of the sessions, show progress, reap, combine exit codes | no failed card is reported as a success; every child is reaped; it ends |
| Plain wrapper | `apps/mpssflash/mpssflash.c` | pids | wait for the sessions, without pipes | same |
| Flash library calls | `miclib/src/host_platform.cpp`, `miclib.cpp` | file descriptor of an operation, sysfs attribute `flash_update` | start / status / done, mode changes | part of the flash session's model |
| SCIF/RAS connection | `miclib/src/host_platform.cpp` | `_scif_ep`, `_scif_inited`, mutex | request, availability probe, reconnect | one request at a time, replies matched to requests, every call returns |
| Device list | `miclib/src/miclib.cpp` `mic_get_devices` | - | scan `/sys/class/mic` twice | memory handed out is valid, freed once |
| Property getters | `miclib/src/miclib.cpp`, `knc_device.cpp`, `host_platform.cpp` | a structure per kind of property | fill a structure by requests over sysfs and SCIF, free it when one fails | a value that is given out was read |
| mpssinfo, micinfo | `apps/mpssinfo/main.c`, `mic.c` | option counts, the list of cards, the pointers of a section | list, versions, sections of a card | what is shown was answered; nothing freed is used; exit code |
| ECC command of micsmc | `apps/micsmc/micsmc_cli.cpp` | a work area per card, a counter, mutex and condition variable | a thread per card plus a status thread | every card's result is reported, no lost wakeup, status thread ends |
| Options of micsmc | `apps/micsmc/*` | options in order, open devices with their cached structures, configuration files | parse, perform each option over its cards, rewrite `/etc/mpss/<card>.conf` | exit code; only cards that are online are asked; files keep their other lines; restart advised |
| Image and version arithmetic | `apps/mpssflash/helper.c` | none | parse image headers, compare versions | pure functions |
| micdebug.sh, Python binding, examples, documents, build files | `apps/mpssdebug`, `miclib_py`, `examples`, `doc`, makefiles | - | - | - |

How they interact: `micflash` and `mpssflash` choose an image for every card,
running the `check` command of `flash1.c` in a child for every file they look
at, and fork a session per card. `micflash` talks to a session only through two
pipes and its exit status, `mpssflash` only through its exit status. The
session calls the library, and the library talks to the card through sysfs
attributes, an ioctl on the host driver (flash) and a SCIF connection (RAS).
`micsmc` uses the library from several threads at once (`--ecc`) or in the order
of its options, keeping the structures of a card from one option to the next;
`mpssinfo` reads structure after structure and frees them.

What is hard here:

- **asynchronous operations behind polling loops**: a flash or ECC operation
  runs in the host driver; the tools only see a status and a percentage, read
  at intervals, next to a timeout (`poll_flash_op()`, `wait_for_flash_op()`);
- **custody of a card**: every exit path, error and signal has to give the
  card back from maintenance mode, or keep it when the options say so;
- **partial failure**: one card, one child, one thread, one request or one part
  of an image fails while the others go on, and the exit status has to tell;
- **threads**: a counter, a mutex and a condition variable in `micsmc`; one
  SCIF end point shared by all threads of a process, reset after errors;
- **processes**: the front ends see their children only through lines on
  pipes, bounded buffers and wait statuses; a child may turn into a second
  front end; descriptors run out;
- **kept state**: a path that is cut for the cards that follow, structures of a
  card that outlive the option that read them, a configuration file that is
  truncated before it is written again, pointers the library has freed.

## 2. Plan

Modules are written so that they can be proved about: parameters are CONSTANTS
with a named assumption, one action per handler or step, no RECURSIVE operators.

| # | Module | Models | State |
|---|---|---|---|
| 1 | `FlashSession` | what a session promises its parent (abstract) | done |
| 2 | `Flash1`, `MCFlash1`, `Flash1_proofs` | the flash session, the library calls below it, the card and the driver | done |
| 3 | `EccOps`, `MCEccOps`, `EccOps_proofs` | `micsmc --ecc enable/disable` | done |
| 4 | `ScifConn`, `MCScifConn`, `ScifConn_proofs` | requests and probes of several threads over one end point | done |
| 5 | `Supervisor`, `MCSupervisor`, `Supervisor_proofs` | `micflash`: slots, pipes, line parser, reaping, exit code; `mpssflash`: the same children without pipes; one `FlashSession` per card (composition) | done |
| 6 | `ImageChoice`, `MCImageChoice`, `ImageChoice_proofs` | the choice of an image per card by `check` commands, and the start of the sessions | done |
| 7 | `MicLib` | which requests fill which structure of the library, which getter reads which of them | done |
| 8 | `MicInfo`, `MCMicInfo`, `MicInfo_proofs` | `mpssinfo` and `micinfo` with the device list, over `MicLib` | done |
| 9 | `MicDevice`, `Micsmc`, `MCMicsmc`, `Micsmc_proofs` | the options of `micsmc` over its device class, over `MicLib` | done |
| 10 | proofs about `MicInfo` | `PointersKept`, `ShownAnswered`, `ProcessorOwn`, `ExitHonest` for any cards and options | done |
| 11 | more theorems of `Flash1`, `Supervisor`, `ScifConn`, `EccOps` | `OpsUndisturbed`; that `Flash1` implements `FlashSession` step by step; `DoneReports`; the bound of an inbox; that nobody waits for ever for one another (`NobodyStuck`) | done |
| 12 | `Version`, `FlashImage` | `extract_version()`, `compare_version()`, `get_flash_block_start_size()` as functions, against reference definitions; 32-bit widths | open |
| 13 | the safety part of termination | for each loop a measure that no step raises: passes of the polling loops, lines still to come in `Supervisor`, areas not yet over in `EccOps`; no two tools of `ImageChoice` wait for each other | open |

The abstract specification is `FlashSession`: `Flash1` implements it and
`Supervisor` is composed of it, so that what is shown of the supervisors holds
of the sessions they really run. `ImageChoice` ends where `Supervisor` goes on:
with the sessions that were started. `MicLib` is shared by the two programs that
display properties, so that both are checked against one account of what the
library asks for.

## 3. The modules and the code

### FlashSession

The child process as its parent knows it: `phase` is the last operation
announced on stdout in line mode, `err` says whether an `ERROR` line was
printed, `code` is the exit code (or "still running", or "killed"). `Later`
gives the announcements that may follow one another, as the parser
`set_state()` of `micflash.c` expects them.

### Flash1

One variable per local variable or shared object of a session: `pc` (where
`flash1_start()` and the functions it calls are), `ret` (the exit code to be),
`sig` (signals ignored while a card is in custody), the locals of
`poll_flash_op()` (`cont`, `pret`, `flash_image`, `seen`, `late`), `desc` (the
flash descriptor), `phase`/`err` (stdout), and, of the world, `card` (the
`state` and `mode` attributes), `op`/`pct` (the operation in the driver), `mem`
(what the card's flash and SMC memories hold) and `enabled` (the sysfs attribute
that allows updates). `why`, `misuse` and `held` are history: how the last poll
ended, whether a `*_done()` call broke the library's rules, who answers for the
card's mode.

| Code | Actions |
|---|---|
| `flash1_start()`, option and file errors | `Start` |
| `set_maint_mode()`, `poll_maint_mode()` | `SkipMaint`, `EnterMaint`, `PollMaint` |
| `flash_version()`, `flash_read()`, `flash_device()`, `read_flash_device_maint_mode()` | `ReadStart`, `ReadFailed`, `ReadDone`, `ShowVersion`, `SaveImage`, `Cleanup`, `ShowVendor` |
| `poll_flash_op()` | `PollBegin`, `SwitchToSmc`, `Judge`, `PollRead`, `Tick` |
| `verify_image()` | `Verify`, `CompareVersions` |
| `flash_update()` with the library's start/done | `UpdateStart`, `UpdateFailed`, `UpdateDone` |
| `exit_maint_mode()`, `poll_ready_state()` | `Reset`, `PollReady`, `WaitReady`, `PostCodeUnread` |
| end of the process, signals | `Finish`, `ExitProcess`, `Interrupt` |
| card and driver (external) | `CardStep`, `DriverAccepts`, `DriverProgress`, `DriverNextPart`, `DriverEnds` |

The driver is free: it may refuse a command, fail at any moment, stay in
progress for ever, report 100 percent while in progress, or return a status the
library does not know. It accepts a flash command only for a card in
maintenance mode, and writes the flash part of a combined image before its SMC
part; both are read off how the code uses it and are marked external.

`OpsUndisturbed` gathers what the session owes an operation: it is started on a
card in maintenance mode; while it runs the card is reset, and its descriptor
released, only when polling gave up; a descriptor that no longer exists is used
only by a reading that fails. `Custody` is about all three ends of the process
(`exited`, `killed` by a signal, `aborted` by a failed assertion). The last one
does strand a card: the assertions of `verify_image()` on an id section
(helper.c:740) and on the version that was read (helper.c:782) fail after the
card was taken (`image.odd`). The property says that this is the one way, and
that nothing has been written then and writes are not enabled.

### ImageChoice

A command line is a record `job`: the tool, whether a directory or a file was
named (no name stands for the default directory), what the files of the
directory are (a flash image for some cards, an SMC image, something else), the
list of cards, which may name one twice (`get_devices_list()` keeps both), and
how many descriptors the process may open (`spare`). `at`, `slot`, `file` say
where the tool is, on which slot and file; `cut` that `dirname()` has cut the
path; `res` what the last check returned, and `blind` (history) that it did not
run; `session` the sessions started, per slot; `fds` the descriptors in use.
`faults` (history) says where something failed. Because a check of `mpssflash`
that cannot open `/dev/null` returns into the program, there may be two tools:
every variable is indexed by `"tool"` and `"clone"`, and `running` says which
one acts.

| Code | Actions |
|---|---|
| `get_update_image()` | `Look` |
| `check_image()`, `popen2()` or `run_cmd()`; `flash_check()` and `verify_image()` in the child | `CheckEnds`, `CheckNotStarted` (pipes, `fork()`, `fdopen()`), `CheckNotForked` (`mpssflash` does not notice), `CheckNotQuiet`, `CloneExits` |
| what the verdict leads to, `find_image()` | `JudgeNamed`, `Judge` |
| `start_cmd()` | `Start`, `StartUnseen` and `UnseenEnds` (`fdopen()` fails after the fork), `StartFails`, `AllTried` |
| `common_flash_cmd()` of `mpssflash.c` | `Wait`, `WaitDone` |
| a session (external to this module) | `SessionEnds` |

`NoneLeftOut` names all there is that can leave out a card with an image. A
failure in its own turn excuses no other card. The want of descriptors excuses
one only where `spare` is less than what the cards up to it cost at most
(`Enough`: two for each check, two for each session, two more while one is
started), a bound on the leak of `check_image()`. And `Misled` is the cut path
of finding 5: `mpssflash` was given a file by name, for a card after the first
searches the directory instead, and finds nothing there that says which cards
it is for. `NeverTwice` is about cards, not slots: a card that is named once has
one session at a time; one that is named twice may have one for each place.



### Supervisor

A command line is a record `job`: the tool, the command as far as the front
ends tell commands apart, the display, whether the SMC boot-loader is updated
first (`-smcbootloader`), `-noreboot`, and the number of cards. `place` and `at`
say where `common_flash_cmd()` is and which slot it works on. Per card there is
a process (`proc`, `status`), its session `Session(i) == INSTANCE FlashSession`
over `phase[i]`, `err[i]`, `code[i]`, and the pipe to the parent; per slot of
`procinfo` there are the fields `state`, `bad` (the `*_status` fields that are
negative), `exit_status` and `msg`. `begun` and `failed` are history: what the
session announced and where it printed an error.

| Code | Actions |
|---|---|
| `process_common_opts()`, `start_cmd()`, `popen2()` | `Refuse`, `StartSlot`, `StartDone` |
| `flash1_start()` in the child, `flash2_start()`, `run_cmd()` | `Announce`, `Complain`, `End`, `BootCheck`, `BootNext` |
| the scan of the slots, `set_state()`, `show_done()`, `set_error_status()` | `ReadLine`, `PassOver`, `Reap`, `ScanDone` |
| `show_progress()`: `default_update()` and `rotating_bar()`, `ascii_update()`, `poll_std_out_err()` | `Show`, `ShowTooSoon`, `ShowVerbose`, `PollRead`, `PollFile` |
| the exit code and the advice of `common_flash_cmd()` | `CombineSlot`, `CombineDone` |
| `common_flash_cmd()` of `mpssflash.c` | `Wait`, `WaitDone` |

With a boot-loader update the forked process runs two sessions in a row in
processes of its own; they write to the same pipe and only the outer process is
reaped by the tool. A child that wrote more than its pipe holds waits until
`set_state()` has read a line. The lines that `do_update_status()` parses
(percentages, POST codes) change nothing but what is displayed and are left out.

### EccOps

`main`, `pc[a]` and `status` are the program counters of the main thread, of
the operation thread of work area `a`, and of the status thread (either the one
that counts, or with `--verbose` the one that polls). `step`, `type` are the
fields of a work area; `op_complete`, `op_threads_done`,
`at_least_one_success` and `mtx` those of the master work area; `shown` counts
progress lines. A thread that cannot be created is finished by main
(`helping`). `card` and `ecc` are the cards and the driver's ECC operation.
`entered` and `left` record which areas took and gave back their card. A wait
on the condition variable releases the mutex and may wake up spuriously
(`SpuriousWakeup`). Two areas may share a card, since a device can be named
twice on the command line. `trusted` and `changed` record which areas took 100
percent of an operation still in progress for its end, and which reset their
card after it had completed: `wait_for_flash_op()` looks at the percentage
alone, so `ExitHonest` and `NoResetUnderEcc` have to tell the two apart. The
first says that with exit code 0 every area is one or the other (and that a card
left behind in maintenance mode belongs to an area that was reported as an
error), the second that a card is reset under an operation that has not
completed only by the very area that read 100 percent.

### ScifConn

`_mutex`, `_scif_ep`, `_scif_inited` of a device handle, the set `open` of
end points the process has open (file descriptors, the smallest free one is
given out next, so a closed one is soon reused), and for each end point
`inbox`, the replies it still holds, each named by the thread whose request it
answers. Every SCIF call may fail at any time; the reset after a failure is
split into its test, its close and its clearing of `_scif_inited`, because it
runs after the mutex has been released (`ResetTest`, `ResetClose`,
`ResetClear`). Any thread may call `is_ras_avail()` at any time (`Probe` to
`ProbeTest`), which unlocks the mutex a second time when the card is absent.
`got[t]` says whose reply the last request of `t` returned; `late[t]` (history)
whether another thread still had a reset to do when `t` took the mutex; `stolen`
(history) that a second unlock has released the mutex of another thread. The
safety properties say what holds as long as that has not happened.

### MicLib

No state: for each structure of the library the requests that fill it, in
their order, with what they are made over (SCIF, a sysfs file, or a sysfs file
whose number is read through the stringstream that `get_processor_info()`
shares between its files) and under which condition; and for each getter the
request its value comes from. `MicInfo` and `Micsmc` make the requests one by
one.

### MicInfo

The locals of `main()` and of the `show_*()` functions: the option counts, the
list, the card, what is `held` by the pointers of a section ("live", "gone"
when the library has freed what they still point to), the lines left, the text
in the shared buffer `str`, the exit code.

| Code | Actions |
|---|---|
| `process_args()` for `micinfo`, the `getopt_long()` loop for `mpssinfo` | `Flag`, `DeviceOption`, `DeviceAll`, `GroupOption`, `BadOption`, `ArgumentMissed` |
| the checks and the choice of the command | `OptionsRefused`, `Contradictory`, `dispatch` |
| `mic_get_devices()`, both scans, `mic_free_devices()` | `mic_get_devices`, `Rescan`, `NoDevices` |
| the loop over the cards | `mic_open_device`, `AllShown`, `mic_close_device` |
| a section: its structures, then its lines, then what it frees | `StartSection`, `NextStructure`, `ShowLine`, `EndSection` |
| the requests that fill a structure | `NotAsked`, `Answered`, `HexAnswered`, `NoDriver`, `RequestFailed` |

A line is a field and the condition it is shown under; what it shows is the
field's own value, "N/A", or what was left in `str`. Some getters return success
without writing the buffer (`Silent`; mic.c:315-338 and :449): `ShownAnswered`
allows on their lines the text of an earlier line of the section, which was
answered too, and on the flash version, the first line, and the serial number,
whose buffer is its own, whatever the buffer held; on every other line only the
field's own answer, or "N/A" where the program does not ask or the card has
none.

### MicDevice and Micsmc

`MicDevice` gives for each feature class of `micsmc` the structure it keeps and
the values it hands out, and checks (an ASSUME that TLC evaluates) that every
value comes from a request of that structure. `Micsmc` has the command line
(`ordered_args_`), the loops (`subs` are the displays of an option that remain,
`todo` its cards, `steps` the requests), the objects of each card that stay from
one option to the next (`obj`), and the configuration files (`conf`).

| Code | Actions |
|---|---|
| `cmd_line_args`, `process_cmd_line_args()` | `parse_args`, `process_cmd_line_args`, `perform_timeout_opt` |
| `run()`, no options: the graphical program | `run_gui`, `AllPerformed`, `PassOver` |
| `perform_version_opt()`, `perform_help_opt()` | the actions of these names |
| the cards of an option | `ReadCards`, `get_device_num`, `get_device_nums`, `get_avail_device_nums` |
| the loop over the cards, `get_device()`, `validate_device_is_online()` | `get_device`, `validate_device_is_online`, `NextDisplay`, `OptionDone` |
| `perform_all()`: first which cards are online, then five displays | `perform_all` |
| each display: `mic_info_obj::update()` and `get_data()`, single requests | `Answered`, `Failed`, `Refused`, `Shown`, `compute_dev_utilization`, over the table `Displayed` |
| `set_mic_pm_config()`: read, truncate, write | `open_conf`, `read_conf`, `write_conf` (with `Cut`, a fault that it does not look for), `Interrupted` |
| `--ecc enable/disable` | `perform_ecc_set` (one step here, all its threads in `EccOps`) |

`missed` (history) collects why something asked for was not done: an error was
reported, an option spelled like an earlier one was dropped with other words
(`parse_args()`, a warning only), or a configuration file was not read or not
written whole. `ExitHonest` says that the exit code tells of the first and of
nothing else: a file that a short write left empty is reported as changed, with
exit code 0. `FeaturesAsAsked` allows such a file, with no line in it at all, and
otherwise features that differ from those of the command line only when one of
these was refused as a card's name (`refused`), which is an error.

## 4. Runs

| Run | Bounds | What it shows |
|---|---|---|
| `flash1_safety` | every combination of command, options and image that the code tells apart; percentages 0..2 | honest exit codes, verified images only, custody of the card at every end of the process but an assertion before anything is written, operations undisturbed unless polling gave up, refinement of `FlashSession`; the session ends whatever card and driver do |
| `flash1_zero` (violation) | as above | exit status 0 after a timeout on a stale 100 percent |
| `ecc_pair` | two areas on one card, both display modes | counting, wakeups, exit code; a reset under an ECC operation that has not completed only by the area that read 100 percent; the command ends and the polling status thread stays to the end |
| `ecc_stranded` (violation) | two areas | a card left in maintenance mode |
| `scif_threads` | two threads that request and probe, three end points | requests are serialized, a request that finds no reset pending gets its own reply, both as long as no second unlock has taken the mutex away; every request and every probe returns |
| `scif_crossed` (violation) | two threads, two end points | a reply of another request |
| `supervisor_watch` | both tools; whole sessions on one card, short ones on two; pipes of one line; an error line per phase on one card, one per session on two | what is shown, advised and returned is what the sessions did; every child is reaped; the tools end |
| `supervisor_killed` (violation) | one update | a session that was killed counts as a success |
| `micinfo_show` | two cards, a first list of length 1, four options | no display reads or frees what the library has freed; what is shown was answered in this section, but on the lines of getters that may leave the buffer unwritten; the exit code counts the cards that failed |
| `micsmc_options` | two cards, two options, 17 spellings, 12 lists of words, two throttle samples | exit code and what it does not tell of, online check, where blank samples come from, configuration files, advice to restart |
| `image_choice` | both tools, two cards or one named twice, two files of four kinds, named or searched for; 10 or 14 descriptors | the right image for each card; no card left out but for failures in its own turn, too few descriptors or the cut path; no card that is named once in two running sessions |
| `image_file` (violation) | `mpssflash`, one file named, two cards | a later card gets another file |

Why the bounds are enough. A session talks to one card, so `Flash1` has no
number to bound but the percentage: the code compares it with 100 and with the
value read before, which 0, 1 and 2 (= 100) tell apart. In `EccOps` areas only
meet in the counters, the mutex and their card, and two areas on one card meet
in all of them. In `ScifConn` the mutex and the reset involve a thread that
failed and one that runs in its wake; a thread may return at once as a third,
and three end points let two be leaked while one is in use. In `Supervisor`
children never meet: a parent that reads one while the other blocks on its pipe
is the worst two can do, and a pipe of one line (`PipeSize`) blocks at once.
`Codes` has one exit code of each kind the tool tells apart (success, failure,
failure after the flash was written), `MaxErrors` bounds the phases that print
errors; `N` bounds the cards, `Jobs` names the command lines. In `MicInfo` a
list that is too short for two cards makes the second scan necessary, and four
options are enough to repeat one, contradict it and follow it with an error
(`MaxWords`). In `Micsmc` two options are the fewest in which one sees what the
other left behind (the objects of a card, the exit code), `--all` is five
displays by itself, and the lists of words hold a card, two, one twice, an
unknown word before a card, features before, between and after cards. In
`ImageChoice` two cards let the second find what the first left (a cut path,
leaked descriptors, sessions that ended); 14 descriptors are just enough for two
cards whose images are searched for, 10 for two with a named file, and run out
in the middle of the second card's search (`MaxFds` bounds both). The theorems
of section 6 lift most of it to all values.

`CHECK_DEADLOCK FALSE` is set where the modelled process ends without a step of
its own (`Flash1`, `EccOps`, `Supervisor`, `ImageChoice`); threads of `ScifConn`
never end, and `MicInfo` and `Micsmc` have a step `Done` at their ends only, so
that their runs do check deadlock.

Fairness. `Flash1`: the process is scheduled and `time(NULL)` advances; nothing
is assumed of card or driver, so the timeouts carry the proof. `EccOps`: threads
are scheduled; a mutex that is free again and again is got (strong fairness of
the lock steps), which POSIX mutexes on Linux provide in practice and the
library relies on; no spurious wakeup is assumed, and the cards owe nothing
because both waits of an operation thread have timeouts. `ScifConn`: threads
are scheduled, SCIF calls return (blocking calls return with an error when the
peer is gone), locks as before. `Supervisor`: parent and children are scheduled
(`WF`), a session ends, which `Termination` of `Flash1` shows, and `-v` refreshes
the display when four seconds have passed since the last time, so a parent that
asks again and again is not refused for ever (`SF` of `ShowVerbose`). `MicInfo`,
`Micsmc` and `ImageChoice` are loops over finite lists and claim no liveness.

## 5. Findings

1. `flash1_zero`: `poll_flash_op()` leaves its loop on the timeout without
   judging the last status, and returns success when the percentage reads 100.
2. `ecc_stranded`: an error after `enter_maintenance_mode()` ends the thread
   without leaving maintenance mode.
3. `scif_crossed`: the mutex is released before a failed connection is reset,
   and replies are not matched to requests.
4. `supervisor_killed`: `set_state()` takes `WEXITSTATUS` of a child that a
   signal killed, which is 0, and `micflash` exits with 0; `mpssflash` ignores
   such a child.
5. `image_file`: `dirname()` cuts the command-line argument of `mpssflash`, so
   that every card after the first is given what a search of the directory finds
   instead of the file that was named, or nothing if it finds none.

Noticed on the way, without a run of their own.

Flash session and library: after a timeout a session calls
`mic_flash_update_done()`/`mic_flash_read_done()` while the operation is in
progress; `flash_read()` calls `mic_flash_read_done()` on the descriptor that a
failed `mic_flash_read_start()` has already deleted (`OpsUndisturbed` says these
are the only cases); two assertions of `verify_image()` (helper.c:740, 782) end
the process with the card in maintenance mode (`Custody`); the polling loops
test `mic_in_maint_mode() < 0`, which never happens; `compare_version()` returns
the difference of two `uint32_t` as an `int` (helper.c:576).

SCIF: `is_ras_avail()` unlocks the mutex twice when the card is absent
(host_platform.cpp:815; `stolen`); `scif_open_conn()` overwrites `_scif_ep` after
`ECONNRESET` and leaves the old end point open (:571); the loop that receives a
payload in parts stores each part at its beginning (:675).

Front ends of the flash tools: `rotating_bar()` asks `nanosleep()` for
5,000,000,000 ns in a second, which is invalid, so `-vv` never sleeps;
`show_all_errors()` stops after the first card that printed errors; with
`-getversion` of a file `set_state()` may reap the child that `poll_std_out_err()`
then waits for, and an uninitialised status becomes the exit code (`Snatched`);
a child that is killed in a phase has that phase reported as done
(`DoneReports` says so); a card without a session makes the exit code of
`micflash` 1 whatever code an earlier card had, while `mpssflash` exits with 0
when one card found no image or no session and another succeeded; with `-v`
stderr of a child is drained only at its end (micflash.c:971); `check_image()`
of `micflash` never closes the pipe ends it has read; a fork that fails in
`mpssflash` is not noticed, and `waitpid(-1)` takes the status of another card's
session; a check that cannot open `/dev/null` returns into the tool's code;
`image_path` points into an array of a function that has returned
(micflash.c:1444), and the boot-loader is looked for there instead of in
`/usr/share/mpss/flash` (doc/micflash.1.txt:131-134); `strncpy()` in
`get_update_image()` of `micflash` may leave no terminator; a device named twice
in `-device` gets two sessions at once; `get_devices_list()` of `mpssflash` passes
the address of a single character to `strsep()`; any file of 0x284 bytes or more
without the magic numbers counts as an SMC image, which is accepted when it is
named.

micsmc: the counting status thread prints no progress at all if every operation
was signalled before it first took the mutex (`AllOrNothing` says it is all or
nothing); `mic_set_ecc_mode()` is called without waiting for the card to arrive
in maintenance mode (micsmc_cli.cpp:1719); `wait_for_flash_op()` judges an
operation by its percentage alone, so one that the driver still reports in
progress at 100 percent is released and its card reset, and the exit code may be
0 (`trusted`); `get_status()` reads a work area without the mutex its writers
hold (:2220) and `get_device()` inserts into a `std::map` from every operation
thread (:1585), which the C++ standard leaves undefined; a sample of the core
utilization that was never read stays in the object, all zero, and is used by a
later display (mic_device_features.h:207, micsmc_helper.cpp:297-301;
`SampleExplained`); `status_cmd_validator` and `pwrenable_validator` are never
installed; `--timeout` is used although it is in error; an option that is
repeated is dropped with a warning whatever its words, and the exit code does
not tell (micsmc_cli.cpp:130-133; a device named twice in one option is kept
twice: it gets two ECC threads, and its file is rewritten twice); a
configuration file that could not be read is rewritten with the one line of the
power management (`ConfKept`), and one whose writing was cut short is reported
as changed (linux_platform.cpp:143-149; `missed`); without options `micsmc`
returns what `system()` does, 256 times the exit code of the graphical program,
of which the caller sees 0; help and version do not end the program although the
help says so.

mpssinfo: the exit code of the list (`doc/mpssinfo.1.txt:87-88`: "List all ...
coprocessors detected") is that of its last card, whichever cards before it
could not be asked; the list never frees its PCI structures; a device list whose
length changes between the two scans is freed twice (miclib.cpp:100); `--device
all` resets the count of the option, so that options that exclude each other
pass (main.c:542); `indexptr` is left from an earlier long option (main.c:494);
lines of getters that write nothing show the text of another field, or an
unwritten buffer (mic.c:315-338, 449; `ShownAnswered`); "help" swallows the word
after it; a device number that does not fit an `int` is truncated.

## 6. Proofs

All theorems hold for every value of the constants, under the assumption named
in the module (`FlashAssumption`, `EccAssumption`, `ScifAssumption`,
`SupervisorAssumption`, `MicInfoAssumption`, `MicsmcAssumption`,
`ImageAssumption`), and for every behaviour of the external parts that the
models allow. The sets of areas, threads, cards and files are arbitrary finite
ones.

- `Flash1_proofs`: `TypeCorrect` (type correctness, by frames: each action
  touches the session, the poll, the card or the flags), `CustodyCorrect` (with
  `UnwrittenInv`: before an image is verified nothing has been written),
  `UpdateCorrect` (`SuccessIsHonest`) and `VerifiedCorrect` (`OnlyVerified`).
  The properties speak of the exit only; the invariant `UpdateInv` has to know
  what each place of the program implies: `PlaceInv` and `CommandInv` (which
  command can be where), `VerifiedInv` (an accepted image was checked),
  `DriverInv` (what the driver is doing given what memory holds), `SeenInv` (a
  status that was read as completed stays true), `VerdictInv` and `UpdatedInv`
  (what the result of `poll_flash_op()` is worth). `OpsCorrect`
  (`OpsUndisturbed`) and `ChildCorrect` (`ChildSpec`) are about steps. The first
  rests on `ModeInv` (between the card's entry to maintenance mode and its reset
  the card is in that mode and no signal ends the session), `GivenUpInv` (an
  operation that runs on after the polling was given up on) and `DanglingInv` (a
  failed start is never forgotten). The second shows that the initial states are
  those of `FlashSession` and that every action either announces, complains or
  ends as a session may, or changes nothing a parent can see; `AnnouncedInv`
  says what was announced last at each place, `ExplainedInv` that the exit code
  and the `ERROR` lines explain each other. With it, what is proved of
  `Supervisor` holds of the sessions it runs.
- `EccOps_proofs`: `TypeCorrect`, `CountCorrect`, `WakeupCorrect`,
  `DisplayCorrect` (`AllOrNothing`, which no run checks), `ExitCorrect`,
  `ResetCorrect`. The counters are exact because the place of each thread
  determines its `step_` (`StepInv`), the mutex excludes (`MutexInv`), and the
  counted set grows by one element with each increment (`CountStep`, with the
  cardinality lemmas). `HolderInv` says that a card can be reset only by an area
  that saw its operation complete or at 100 percent, also when two areas share
  the card. `WaitCorrect` (`NobodyStuck`) adds `HelpInv`: if no thread can go
  on, the mutex is free, every area is over and counted, and the status thread
  waits, against `NoLostWakeup`.
- `ScifConn_proofs`: `TypeCorrect`, `Serialized` (`MutualExclusion`),
  `OwnReplies` (`CleanUnlessLate`) and `WaitCorrect` (`NobodyStuck`), for any
  finite number of threads that request and probe. The invariant of the second
  and the third is one implication: as long as no second unlock has taken the
  mutex away, `OwnerInv` (who is where owns the mutex), `SettledInv` and
  `LateInv` hold. The key is `SettledInv`: whoever resets last clears
  `_scif_inited`, and only a new end point sets it again, so once no reset is
  pending a connection marked as usable is open and empty, whatever the order of
  the resets. That an end point never holds more replies than there are threads
  is `BoundInv`, also when the mutex was taken away: each reply is owed to one
  thread that has sent and not yet received or closed, and threads that may
  still send count as well. `WaitCorrect` rests on `LockInv` alone: the owner of
  the mutex is always on the way to unlocking it.
- `Supervisor_proofs`: `TypeCorrect`, `ReapedCorrect`, `ExitCorrect`,
  `OutcomeCorrect`, `AdviceCorrect`, `DoneCorrect`, `WaitCorrect`, for any
  number of cards, any command lines and any pipe size. The properties speak of
  the end, where the exit code and the outcomes stand for what children did long
  before: `ProcInv` ties each process to its session and its wait status
  (through the two rounds of a boot-loader update), `PlaceInv` says which places
  go with which tool and which slots have children, `ReadInv` that a slot is in
  `EXIT_STATE` exactly when its child was reaped, with an empty pipe and the
  right `exit_status`, `GoneInv` that the combining starts only when no child is
  left, `ToldInv` what `-v` has told of each slot, `CodeInv` and `EndInv` what
  `ret` and `n_done` are worth after the first `at - 1` slots, and `WaitInv` the
  same for `mpssflash`. `DoneCorrect` (`DoneReports`) relates a display to
  announcements it may see much later: `DoneInv` says what the lines in the pipe
  will do to a slot once they are read (`LinesInv`: they lead to the operation
  announced last; `ErrorsInv`: a failed operation is charged already or by an
  `ERROR` line that follows its own; `ShownInv`: what is shown as done was
  begun, left and not charged; `OrderInv`: no operation is announced twice).
  `WaitCorrect` (`NobodyStuck`) adds `RunInv` (a process with one session ends
  with it) and shows that the parent, or the child it is looking at, can go on.
- `ImageChoice_proofs`: `TypeCorrect`, `ChosenCorrect`, `LeftCorrect`,
  `OnceCorrect`, for any number of cards, files and descriptors. `WorkInv`,
  `CloneInv` and `CodeInv` say what there is where the tool, or the copy it
  became, is. A card that is named once never has two running sessions because
  sessions are started in the order of the slots (`TurnInv`), the copy works
  only on slots behind the one the tool waits at (`AheadInv`), and it has waited
  for its sessions when it exits (`EndedInv`; it may also take the status of one
  that ended, never of one that runs). The choice is right because the search
  has passed over a good file only if its check failed (`SearchInv`), a verdict
  that was really given is true of the file (`VerdictInv`), and the path is cut
  only behind the first slot (`CutInv`, `NamedInv`); `StartInv` carries it to
  the sessions (`SessionsInv`), since nothing that the choice rests on is ever
  taken back (`GrowsStep`). `LeftInv` accounts for every slot that the tool has
  left, and `FdsInv` for every descriptor: those of the cards before are at most
  `Cost` each (`Base`), those of this card what its place says (`Own`).
- `MicInfo_proofs`: `TypeCorrect`, `PointersCorrect`, `ShownCorrect`,
  `ProcessorCorrect`, `ExitCorrect`, for any cards, command lines and lengths of
  the device list. Lemmas about the tables of `MicLib` come first (`FillFacts`,
  `GetterFacts`, `SectionFacts`, `LineFacts`): each getter reads a request of
  its structure, each line a field of a structure its section has fetched. Then
  one invariant per question: `OptionInv` (counts and words), `CardInv` and
  `Honest` (the exit code and the cards that failed), `StreamInv` (whether the
  stream of `get_processor_info()` is jammed, and by what), `SectionInv` (what
  the pointers hold), `FetchInv` (the requests that remain are the end of a
  structure's list, and all before them were answered, or not due), `LinesInv`
  (a line left to show is backed by an answer; the shared buffer was written in
  this section) and `KeptInv` (the list and its leaks). `ShownAnswered` is the
  hard one: what a request waits for must have been settled before it and stay
  so (`AnswerKeeps`), and what the buffer holds must be known line by line for
  the getters that leave it as it was.
- `Micsmc_proofs`: `TypeCorrect`, `ExitCorrect`, `OnlineCorrect`,
  `SampleCorrect`, `ConfCorrect`, `RestartCorrect`, `FeaturesCorrect`, for any
  cards, any words and any number of options. Each property has an invariant of
  its own over the types and `PlaceInv` (what there is where the program is):
  `ExitInv` (the exit code knows of every error, or an option in error is still
  to come), `OnlineInv` (the cards that the first pass of `--all` found),
  `SampleInv` (a blank object comes of a failure), `ConfInv` (what was read of a
  file is all of it, or a fault is noted), `AdviceInv` (a changed file is told
  of, or its option is not over) and `FeatInv` (a feature among the words that
  name the cards is refused).

Only model-checked: liveness (`Termination` of `Flash1`, `EccOps` and
`Supervisor`, `Returns` of `ScifConn`), since it rests on fairness, which the
provers cannot handle. Every other property of a run that passes is a theorem.
`AllOrNothing` and the three `NobodyStuck` are theorems that no run states:
`NobodyStuck` is the part of liveness that can be proved, that the threads or
processes are never all waiting. Its operators (`MainMoves`, `Moves`,
`ParentMoves`, ...) say without `ENABLED`, which is out of the provers' reach,
when a thread has a step.

## 7. Not modelled

The bytes of images and the arithmetic on versions (`helper.c`): what the code
finds out about an image is a property of it in `Flash1` and `ImageChoice`. The
bytes of payloads and messages. The conversion of register contents in the
getters: `MicLib` knows whether a value was answered, not what it is. The
parsing of names in `/sys/class/mic`. The search for the boot-loader image of
`-smcbootloader` (`check_smc_bootloader_image()`), which each session makes for
itself: to `Supervisor` it is one more way for a session to fail. The destructor
of a device handle. Of `micflash` the stderr pipes (a child prints far less
there than a pipe holds), the interrupt handlers and the layout of the displays;
of both flash front ends the help. More than one check that turns into a second
run of `mpssflash`: the copy's checks end or fail.

Not at all: the debug script (it collects log files), the Python binding
(wrappers without state of their own), examples, documents and build files. The
torn reads and unlocked insertions that the C++ standard leaves undefined
(section 5) corrupt what a model of the control flow does not represent.
