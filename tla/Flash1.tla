-------------------------------- MODULE Flash1 --------------------------------
(***************************************************************************)
(* One flash session (apps/mpssflash/flash1.c with the polling loops of    *)
(* helper.c), together with the card it works on as the library           *)
(* (miclib/src/host_platform.cpp, knc_device.cpp) and the host driver show *)
(* it: the card's state, the driver's asynchronous flash operation and the *)
(* sysfs attribute that enables flash writes.                              *)
(***************************************************************************)
EXTENDS Integers

CONSTANTS Jobs,   \* the command lines explored: a subset of Job
          Full    \* the percentage that means "complete" (100)

Images == [kind : {"flash", "both", "smc", "bad"},  \* what the file holds
           fits : BOOLEAN,                          \* PCI ids match the card
           older : BOOLEAN,                         \* older than the card's
           odd : {"nothing", "section", "version"}] \* what an assertion trips over

Job == [cmd : {"update", "version", "read", "device"},
        test_mode : BOOLEAN, maint_mode : BOOLEAN, no_reset : BOOLEAN,
        smc_bootloader : BOOLEAN, oldimage : BOOLEAN, image : Images]

ASSUME FlashAssumption == Jobs \subseteq Job /\ Full \in Nat \ {0}

CMD_LINE_ERR   == 1
CARD_NUM_ERR   == 2
MEM_ERR        == 3
FILE_ERR       == 4
NODEV_ERR      == 5
MODE_ERR       == 6
DEVOPEN_ERR    == 7
OTHER_ERR      == 8
IMAGE_MISMATCH == 9
FLASH_UPDATED  == 10

VARIABLES
  job,          \* the command line and the file, fixed for the session
  pc,           \* where the session is
  ret,          \* the local variable "ret": the exit code to be
  sig,          \* disposition of SIGINT, SIGTERM, ...
  cont,         \* the operation poll_flash_op() is polling for
  pret,         \* "ret" of poll_flash_op()
  flash_image,  \* "flash_update" of poll_flash_op()
  seen,         \* the status last read from the driver
  late,         \* the timeout of the current polling loop has elapsed
  why,          \* how the last poll_flash_op() ended (history)
  desc,         \* the flash descriptor: "null", "open" or "dangling"
  misuse,       \* a *_done() call broke the library's rules (history)
  phase, err,   \* what was announced on stdout; an ERROR line was printed
  card,         \* the card's state attribute
  held,         \* who answers for the card's maintenance mode (history):
                \* "no" (never asked), "taken" by this session, "returned",
                \* or "refused" (the reset was reported as failed)
  op, pct,      \* the driver's flash operation and its percentage
  mem,          \* the card's flash and SMC firmware
  enabled       \* sysfs attribute "flash_update"

out  == <<phase, err>>
loc  == <<cont, pret, flash_image, seen, late, why, desc, misuse>>
dev  == <<op, pct, mem, enabled>>
vars == <<job, pc, ret, sig, loc, out, card, held, dev>>

FlashStatus == {"IDLE", "INVALID", "IN_PROGRESS", "COMPLETED", "FAILED",
                "AUTH_FAILED", "SMC_IN_PROGRESS", "SMC_COMPLETED",
                "SMC_FAILED", "SMC_AUTH_FAILED"}
SmcStatus   == {"SMC_IN_PROGRESS", "SMC_COMPLETED", "SMC_FAILED",
                "SMC_AUTH_FAILED"}
DriverOps   == (FlashStatus \ {"INVALID"}) \cup {"CMD_INVALID", "UNKNOWN"}
Busy        == {"CMD_INVALID", "IN_PROGRESS", "SMC_IN_PROGRESS"}

(* Mutants of flash_get_status: a code of the driver without a case of its  *)
(* own is passed on as it is; a refused command is taken for a failure.      *)
flash_get_status_Unmapped == [status |-> op, percent |-> pct]
flash_get_status_Refused ==
  [status  |-> IF op \in {"CMD_INVALID", "UNKNOWN"} THEN "INVALID" ELSE op,
   percent |-> pct]

(* host_platform::flash_get_status(): a driver that refused the command is *)
(* reported as "in progress"; only running and completed operations carry   *)
(* a percentage.                                                            *)
flash_get_status ==
  [status  |-> CASE op = "CMD_INVALID" -> "IN_PROGRESS"
                 [] op = "UNKNOWN"     -> "INVALID"
                 [] OTHER              -> op,
   percent |-> CASE op \in {"IN_PROGRESS", "SMC_IN_PROGRESS"} -> pct
                 [] op \in {"COMPLETED", "SMC_COMPLETED"}     -> Full
                 [] OTHER                                     -> 0]

Init ==
  /\ job \in Jobs
  /\ pc = "start" /\ ret = 0 /\ sig = "default"
  /\ cont = "none" /\ pret = -1 /\ flash_image = FALSE
  /\ seen = [status |-> "IDLE", percent |-> 0]
  /\ late = FALSE /\ why = "none" /\ desc = "null" /\ misuse = "none"
  /\ phase = "quiet" /\ err = FALSE
  /\ card \in {"ready", "maint", "online"} /\ held = "no"
  /\ op = "IDLE" /\ pct = 0
  /\ mem = [flash |-> "old", smc |-> "old"]
  /\ enabled = FALSE

(* Mutant of Fail: the failure is not reported. *)
Fail_Silent(code, p) == pc' = p /\ ret' = code /\ UNCHANGED err

(* Going on, and giving up with an exit code and a line on stdout. *)
Goto(p)       == pc' = p /\ UNCHANGED <<ret, err>>
Fail(code, p) == pc' = p /\ ret' = code /\ err' = TRUE

(* knc_device::in_maint_mode(): the state attribute reads "online" and the  *)
(* mode attribute "flash".                                                   *)
InMaintMode == card = "maint"

-------------------------------------------------------------------------------
(* Opening: options, image file, card number, device.                       *)

EarlyErrors ==
  {CMD_LINE_ERR, CARD_NUM_ERR, NODEV_ERR, DEVOPEN_ERR}
    \cup (IF job.cmd \in {"update", "read"} THEN {FILE_ERR} ELSE {})
    \cup (IF job.cmd = "update" THEN {MEM_ERR} ELSE {})

(* An option that getopt_long() refuses ends the session without a line of  *)
(* its own on stdout.                                                        *)
Start ==
  /\ pc = "start"
  /\ \/ \E c \in EarlyErrors : Fail(c, "finish") /\ UNCHANGED sig
     \/ pc' = "finish" /\ ret' = CMD_LINE_ERR /\ UNCHANGED <<err, sig>>
     \/ Goto("set_maint") /\ sig' = "ignored"
  /\ UNCHANGED <<job, loc, phase, card, held, dev>>

(* Where the command's own work begins, once the card is in maintenance mode. *)
Body == CASE job.cmd = "update" -> "verify"
          [] job.cmd = "device" -> "vendor"
          [] OTHER              -> "read_start"

(* set_maint_mode(): with --test or --maintmode a card already in           *)
(* maintenance mode is used as it is ...                                    *)
SkipMaint ==
  /\ pc = "set_maint"
  /\ job.test_mode \/ job.maint_mode
  /\ InMaintMode
  /\ Goto(Body)
  /\ held' = "taken"
  /\ UNCHANGED <<job, sig, loc, phase, card, dev>>

(* ... otherwise (or when its state cannot be read) it is asked to switch.  *)
EnterMaint ==
  /\ pc = "set_maint"
  /\ \/ /\ card = "ready"
        /\ card' = "booting"
        /\ held' = "taken"
        /\ late' = FALSE
        /\ Goto("poll_maint")
     \/ Fail(MODE_ERR, "finish") /\ UNCHANGED <<card, held, late>>
  /\ UNCHANGED <<job, sig, cont, pret, flash_image, seen, why, desc, misuse,
                 phase, dev>>

(* poll_maint_mode(): the state is read until it says so or time is up.  A  *)
(* failing read leaves "done" unchanged and the loop running.               *)
PollMaint ==
  /\ pc = "poll_maint"
  /\ \/ InMaintMode /\ Goto(Body)
     \/ late /\ Fail(MODE_ERR, "abandon")
  /\ UNCHANGED <<job, sig, loc, phase, card, held, dev>>

-------------------------------------------------------------------------------
(* Reading the flash: mic_flash_read_start(), poll_flash_op(),              *)
(* mic_flash_read_done().                                                    *)

(* A failure between here and the reset: the code each command returns.     *)
ReadError == CASE job.cmd = "update"  -> {OTHER_ERR, MEM_ERR}
               [] job.cmd = "version" -> {6}
               [] OTHER               -> {5, MEM_ERR}

(* flash_read() still owns a descriptor to release on its way out.          *)
Bail == IF job.cmd = "read" THEN "cleanup" ELSE "reset"

(* When the library cannot start the operation it deletes the descriptor    *)
(* but leaves the caller's pointer set.                                      *)
ReadStart ==
  /\ pc = "read_start"
  /\ cont' = CASE job.cmd = "update"  -> "verify"
               [] job.cmd = "version" -> "version"
               [] OTHER               -> "read"
  /\ \/ /\ Goto("poll_begin")
        /\ desc' = "open"
        /\ op' \in {"CMD_INVALID", "IN_PROGRESS"} /\ pct' = 0
     \/ /\ \E c \in ReadError : Fail(c, Bail)
        /\ desc' \in (IF job.cmd = "read" /\ ret' # MEM_ERR
                     THEN {"null", "dangling"} ELSE {"null"})
        /\ UNCHANGED <<op, pct>>
  /\ UNCHANGED <<job, sig, pret, flash_image, seen, late, why, misuse, phase,
                 card, held, mem, enabled>>

(* What releasing the descriptor does besides closing it: the library asks  *)
(* not to call it before the operation has ended, nor on another pointer.    *)
Release ==
  /\ desc' = "null"
  /\ misuse' = CASE desc = "dangling" -> "dangling"
                 [] desc = "open" /\ op \in Busy /\ misuse = "none" -> "busy"
                 [] OTHER -> misuse

(* After a failed poll the operation is released and its result ignored.    *)
ReadFailed ==
  /\ pc = "poll_failed" /\ cont # "update"
  /\ \E c \in ReadError \ {MEM_ERR} : ret' = c
  /\ pc' = Bail
  /\ IF job.cmd = "read" THEN UNCHANGED <<desc, misuse>> ELSE Release
  /\ UNCHANGED <<job, sig, cont, pret, flash_image, seen, late, why, out, card,
                 held, dev>>

ReadDone ==
  /\ pc = "poll_done" /\ cont # "update"
  /\ Release
  /\ \/ Goto(CASE cont = "verify"  -> "use_verify"
               [] cont = "version" -> "use_version"
               [] OTHER            -> "use_read")
     \/ \E c \in ReadError \ {MEM_ERR} : Fail(c, Bail)
  /\ UNCHANGED <<job, sig, cont, pret, flash_image, seen, late, why, phase,
                 card, held, dev>>

(* flash_version(): print the version found in the flash.                   *)
ShowVersion ==
  /\ pc = "use_version"
  /\ \/ Goto("reset") /\ phase' = "result"
     \/ Fail(4, "reset") /\ UNCHANGED phase
  /\ UNCHANGED <<job, sig, loc, card, held, dev>>

(* flash_read(): convert the contents and write them to the output file.    *)
SaveImage ==
  /\ pc = "use_read"
  /\ \/ Goto("cleanup")
     \/ \E c \in {4, MEM_ERR, OTHER_ERR} : Fail(c, "cleanup")
  /\ UNCHANGED <<job, sig, loc, phase, card, held, dev>>

Cleanup ==
  /\ pc = "cleanup"
  /\ Goto("reset")
  /\ IF desc # "null" THEN Release ELSE UNCHANGED <<desc, misuse>>
  /\ UNCHANGED <<job, sig, cont, pret, flash_image, seen, late, why, phase,
                 card, held, dev>>

(* flash_device(): the vendor of the flash part, read in one call.          *)
ShowVendor ==
  /\ pc = "vendor"
  /\ \/ Goto("reset") /\ phase' = "result"
     \/ Fail(5, "reset") /\ UNCHANGED phase
  /\ UNCHANGED <<job, sig, loc, card, held, dev>>

-------------------------------------------------------------------------------
(* poll_flash_op(): reads the driver's status until the operation ends.     *)

PollBegin ==
  /\ pc = "poll_begin"
  /\ late' = FALSE
  /\ pret' = -1
  /\ \/ /\ seen' = flash_get_status
        /\ Goto("poll_judge")
        /\ phase' = IF cont # "update" THEN "read"
                    ELSE IF flash_image THEN "update" ELSE "smc"
        /\ UNCHANGED why
     \/ /\ pc' = "poll_failed" /\ err' = TRUE /\ why' = "unread"
        /\ UNCHANGED <<ret, seen, phase>>
  /\ UNCHANGED <<job, sig, cont, flash_image, desc, misuse, card, held, dev>>

FlashUpdate == cont = "update" /\ flash_image

(* The SMC part of a combined image has begun: the flash part is complete.  *)
SwitchToSmc ==
  /\ pc = "poll_judge"
  /\ FlashUpdate /\ seen.status \in SmcStatus
  /\ pret' = FLASH_UPDATED
  /\ flash_image' = FALSE
  /\ phase' = "smc"
  /\ late' = FALSE
  /\ UNCHANGED <<job, pc, ret, err, sig, cont, seen, why, desc, misuse, card,
                 held, dev>>

(* The statuses that end the polling with success.  Mutant: nothing running  *)
(* counts as complete.                                                       *)
Complete_Idle == {"COMPLETED", "SMC_COMPLETED", "IDLE"}
Complete == {"COMPLETED", "SMC_COMPLETED"}

Judge ==
  /\ pc = "poll_judge"
  /\ ~(FlashUpdate /\ seen.status \in SmcStatus)
  /\ CASE seen.status \in {"IN_PROGRESS", "SMC_IN_PROGRESS"} ->
            Goto("poll_read") /\ UNCHANGED why
       [] seen.status \in Complete ->
            Goto("poll_done") /\ why' = "status"
       [] OTHER ->
            /\ pc' = "poll_failed" /\ err' = TRUE /\ why' = "status"
            /\ UNCHANGED ret
  /\ UNCHANGED <<job, sig, cont, pret, flash_image, seen, late, desc, misuse,
                 phase, card, held, dev>>

(* The deadline of poll_flash_op().  Mutant: it polls without one. *)
TimeIsUp_Never == FALSE
TimeIsUp == late

(* The next reading; when time is up the loop ends without judging it and   *)
(* its percentage alone decides.                                             *)
PollRead ==
  /\ pc = "poll_read"
  /\ \/ /\ pc' = "poll_failed" /\ err' = TRUE /\ why' = "unread"
        /\ UNCHANGED <<ret, seen>>
     \/ /\ seen' = flash_get_status
        /\ IF ~TimeIsUp
           THEN Goto("poll_judge") /\ UNCHANGED why
           ELSE /\ why' = "timeout"
                /\ IF flash_get_status.percent < Full
                   THEN pc' = "poll_failed" /\ err' = TRUE /\ UNCHANGED ret
                   ELSE Goto("poll_done")
  /\ UNCHANGED <<job, sig, cont, pret, flash_image, late, desc, misuse, phase,
                 card, held, dev>>

-------------------------------------------------------------------------------
(* flash_update(): verify the image, write it, and see the write through.   *)

(* What verify_image() leads to once it accepts a flash image (TRUE) or an  *)
(* SMC-only image (FALSE): the boot-loader option excludes a flash image.   *)
Accepted(is_flash) ==
  /\ flash_image' = is_flash
  /\ IF is_flash /\ job.smc_bootloader THEN Fail(CMD_LINE_ERR, "reset")
                                       ELSE Goto("update_start")

(* verify_image() up to the comparison of versions.  PCI configuration may  *)
(* be unreadable, whatever the image.  An id section whose size is not a     *)
(* multiple of three fails an assertion.                                     *)
Verify ==
  /\ pc = "verify"
  /\ CASE job.image.kind = "bad" ->
            Fail(OTHER_ERR, "reset") /\ UNCHANGED flash_image
       [] job.image.kind = "smc" -> Accepted(FALSE)
       [] OTHER ->
            \/ Fail(OTHER_ERR, "reset") /\ UNCHANGED flash_image
            \/ /\ job.image.odd = "section"
               /\ Goto("aborted") /\ UNCHANGED flash_image
            \/ /\ job.image.odd # "section"
               /\ \/ /\ ~job.image.fits
                     /\ Fail(IMAGE_MISMATCH, "reset") /\ UNCHANGED flash_image
                  \/ job.image.fits /\ job.oldimage /\ Accepted(TRUE)
                  \/ /\ job.image.fits /\ ~job.oldimage
                     /\ Goto("read_start") /\ flash_image' = TRUE
  /\ UNCHANGED <<job, sig, cont, pret, seen, late, why, desc, misuse, phase,
                 card, held, dev>>

(* Mutant: an older image is accepted without --oldimage. *)
Acceptable_Any == job.image.odd # "version"
Acceptable == job.image.odd # "version" /\ ~job.image.older

(* The versions are compared with the flash just read.  A version of the    *)
(* card that is not of the form v1.v2.v3.v4 fails an assertion.             *)
CompareVersions ==
  /\ pc = "use_verify"
  /\ \/ Fail(OTHER_ERR, "reset") /\ UNCHANGED flash_image
     \/ /\ job.image.odd = "version"
        /\ Goto("aborted") /\ UNCHANGED flash_image
     \/ Acceptable /\ Accepted(TRUE)
  /\ UNCHANGED <<job, sig, cont, pret, seen, late, why, desc, misuse, phase,
                 card, held, dev>>

(* The part of the card an update writes first.                             *)
FirstPart == IF job.image.kind = "smc" THEN "smc" ELSE "flash"

(* host_platform::flash_update_start(): enable flash writes, then start one. *)
(* A failing start disables them again, if it can.                           *)
UpdateStart ==
  /\ pc = "update_start"
  /\ \/ /\ Goto("poll_begin")
        /\ cont' = "update"
        /\ desc' = "open" /\ enabled' = TRUE
        /\ pct' = 0
        /\ \/ op' = "CMD_INVALID" /\ UNCHANGED mem
           \/ /\ op' = IF FirstPart = "smc" THEN "SMC_IN_PROGRESS"
                                            ELSE "IN_PROGRESS"
              /\ mem' = [mem EXCEPT ![FirstPart] = "partial"]
     \/ /\ Fail(OTHER_ERR, "reset")
        /\ enabled' \in BOOLEAN
        /\ UNCHANGED <<cont, desc, op, pct, mem>>
  /\ UNCHANGED <<job, sig, pret, flash_image, seen, late, why, misuse, phase,
                 card, held>>

(* The exit code when polling an update fails: was its flash part complete?  *)
FailedUpdate == IF pret < 0 THEN OTHER_ERR ELSE FLASH_UPDATED

(* host_platform::flash_update_done(): flash writes are disabled unless the *)
(* attribute cannot be written; the descriptor goes either way.             *)
UpdateFailed ==
  /\ pc = "poll_failed" /\ cont = "update"
  /\ ret' = FailedUpdate
  /\ pc' = "reset"
  /\ Release
  /\ enabled' \in BOOLEAN
  /\ UNCHANGED <<job, sig, cont, pret, flash_image, seen, late, why, out, card,
                 held, op, pct, mem>>

UpdateDone ==
  /\ pc = "poll_done" /\ cont = "update"
  /\ Release
  /\ \/ Goto("reset") /\ enabled' = FALSE
     \/ Fail(OTHER_ERR, "reset") /\ UNCHANGED enabled
  /\ UNCHANGED <<job, sig, cont, pret, flash_image, seen, late, why, phase,
                 card, held, op, pct, mem>>

-------------------------------------------------------------------------------
(* reset_card: leave maintenance mode, wait for the card, exit.             *)

(* Mutant of KeepMaint: --noreset keeps the mode after a failure, too. *)
KeepMaint_Always == job.test_mode \/ (pc = "reset" /\ job.no_reset)

(* exit_maint_mode() returns at once in test mode, and after a success with *)
(* --noreset; an error resets the card even then.                            *)
KeepMaint == job.test_mode \/ (pc = "reset" /\ ret = 0 /\ job.no_reset)

ResetError == CASE job.cmd = "update" -> OTHER_ERR
                [] job.cmd = "device" -> 6
                [] OTHER              -> 5

(* set_device_mode(MIC_MODE_READY) resets the card and then reads its post  *)
(* code: when only that read fails, the reset is reported as failed.        *)
Reset ==
  /\ pc \in {"reset", "abandon"}
  /\ IF KeepMaint
     THEN Goto("poll_ready") /\ UNCHANGED <<card, held, op>>
     ELSE \/ /\ Goto("poll_ready")
             /\ card' = "resetting" /\ held' = "returned" /\ op' = "IDLE"
          \/ /\ Fail(IF pc = "reset" THEN ResetError ELSE ret, "finish")
             /\ held' = "refused"
             /\ \/ card' = "resetting" /\ op' = "IDLE"
                \/ UNCHANGED <<card, op>>
  /\ UNCHANGED <<job, sig, loc, phase, pct, mem, enabled>>

(* poll_ready_state(), whose result every caller ignores.                   *)
PollReady ==
  /\ pc = "poll_ready"
  /\ IF job.test_mode \/ job.no_reset
     THEN Goto("finish") /\ UNCHANGED <<late, phase>>
     ELSE Goto("wait_ready") /\ late' = FALSE /\ phase' = "reset"
  /\ UNCHANGED <<job, sig, cont, pret, flash_image, seen, why, desc, misuse,
                 card, held, dev>>

WaitReady ==
  /\ pc = "wait_ready"
  /\ \/ card = "ready" /\ Goto("finish")
     \/ late /\ pc' = "finish" /\ err' = TRUE /\ UNCHANGED ret
  /\ UNCHANGED <<job, sig, loc, phase, card, held, dev>>

PostCodeUnread ==
  /\ pc = "wait_ready"
  /\ pc' = "finish" /\ err' = TRUE
  /\ UNCHANGED <<job, ret, sig, loc, phase, card, held, dev>>

(* Signals get their default disposition back (flash_read() forgets to when *)
(* the card does not enter maintenance mode), then the process exits.       *)
Finish ==
  /\ pc = "finish"
  /\ Goto("closing")
  /\ sig' = IF job.cmd = "read" /\ ret = MODE_ERR THEN sig ELSE "default"
  /\ UNCHANGED <<job, loc, phase, card, held, dev>>

ExitProcess ==
  /\ pc = "closing"
  /\ Goto("exited")
  /\ UNCHANGED <<job, sig, loc, phase, card, held, dev>>

Ended == {"exited", "killed", "aborted"}

Interrupt ==
  /\ sig = "default"
  /\ pc \notin Ended
  /\ Goto("killed")
  /\ UNCHANGED <<job, sig, loc, phase, card, held, dev>>

-------------------------------------------------------------------------------
(* The card and the host driver (external: as src/ uses them).               *)

CardStep ==
  /\ \/ card = "booting"   /\ card' = "maint"
     \/ card = "resetting" /\ card' = "ready"
  /\ UNCHANGED <<job, pc, ret, sig, loc, out, held, dev>>

Writing == cont = "update"

(* An accepted command starts running.                                       *)
DriverAccepts ==
  /\ op = "CMD_INVALID"
  /\ IF Writing /\ FirstPart = "smc" THEN op' = "SMC_IN_PROGRESS"
                                     ELSE op' = "IN_PROGRESS"
  /\ mem' = IF Writing THEN [mem EXCEPT ![FirstPart] = "partial"] ELSE mem
  /\ UNCHANGED <<job, pc, ret, sig, loc, out, card, held, pct, enabled>>

DriverProgress ==
  /\ op \in {"IN_PROGRESS", "SMC_IN_PROGRESS"}
  /\ pct < Full
  /\ pct' \in (pct + 1)..Full
  /\ UNCHANGED <<job, pc, ret, sig, loc, out, card, held, op, mem, enabled>>

(* The flash part of a combined image is written, then the SMC part.        *)
DriverNextPart ==
  /\ op = "IN_PROGRESS" /\ Writing /\ job.image.kind = "both"
  /\ op' = "SMC_IN_PROGRESS" /\ pct' = 0
  /\ mem' = [flash |-> "new", smc |-> "partial"]
  /\ UNCHANGED <<job, pc, ret, sig, loc, out, card, held, enabled>>

DriverEnds ==
  /\ \/ /\ op = "IN_PROGRESS"
        /\ ~(Writing /\ job.image.kind = "both")
        /\ op' = "COMPLETED"
        /\ mem' = IF Writing THEN [mem EXCEPT !.flash = "new"] ELSE mem
     \/ /\ op = "SMC_IN_PROGRESS"
        /\ op' = "SMC_COMPLETED"
        /\ mem' = [mem EXCEPT !.smc = "new"]
     \/ /\ op = "IN_PROGRESS"
        /\ op' \in {"FAILED", "AUTH_FAILED", "IDLE", "UNKNOWN"}
        /\ UNCHANGED mem
     \/ /\ op = "SMC_IN_PROGRESS"
        /\ op' \in {"SMC_FAILED", "SMC_AUTH_FAILED", "IDLE", "UNKNOWN"}
        /\ UNCHANGED mem
  /\ UNCHANGED <<job, pc, ret, sig, loc, out, card, held, pct, enabled>>

(* time(NULL) reaches the deadline of the polling loop that is running.     *)
Timed == {"poll_maint", "poll_judge", "poll_read", "wait_ready"}

Tick ==
  /\ pc \in Timed
  /\ ~late
  /\ late' = TRUE
  /\ UNCHANGED <<job, pc, ret, sig, cont, pret, flash_image, seen, why, desc,
                 misuse, out, card, held, dev>>

-------------------------------------------------------------------------------

Session == \/ Start \/ SkipMaint \/ EnterMaint \/ PollMaint
           \/ ReadStart \/ ReadFailed \/ ReadDone
           \/ ShowVersion \/ SaveImage \/ Cleanup \/ ShowVendor
           \/ PollBegin \/ SwitchToSmc \/ Judge \/ PollRead
           \/ Verify \/ CompareVersions
           \/ UpdateStart \/ UpdateFailed \/ UpdateDone
           \/ Reset \/ PollReady \/ WaitReady \/ Finish \/ ExitProcess

Environment == CardStep \/ DriverAccepts \/ DriverProgress \/ DriverNextPart
                 \/ DriverEnds

Next == Session \/ PostCodeUnread \/ Interrupt \/ Environment \/ Tick

Spec == Init /\ [][Next]_vars

(* The process is scheduled and time passes; nothing is assumed of the card. *)
FairSpec == Spec /\ WF_vars(Session) /\ WF_vars(Tick)

-------------------------------------------------------------------------------
(* Properties.                                                               *)

Pcs == {"start", "set_maint", "poll_maint", "abandon", "verify", "vendor",
        "read_start", "poll_begin", "poll_judge", "poll_read", "poll_done",
        "poll_failed", "use_verify", "use_version", "use_read", "cleanup",
        "update_start", "reset", "poll_ready", "wait_ready", "finish",
        "closing"} \cup Ended

SessionType ==
  /\ job \in Jobs
  /\ pc \in Pcs
  /\ ret \in 0..10
  /\ sig \in {"default", "ignored"}
  /\ phase \in {"quiet", "read", "update", "smc", "result", "reset"}
  /\ held \in {"no", "taken", "returned", "refused"}

PollType ==
  /\ cont \in {"none", "verify", "version", "read", "update"}
  /\ pret \in {-1, FLASH_UPDATED}
  /\ seen \in [status : FlashStatus, percent : 0..Full]
  /\ why \in {"none", "status", "timeout", "unread"}
  /\ desc \in {"null", "open", "dangling"}
  /\ misuse \in {"none", "busy", "dangling"}

CardType ==
  /\ card \in {"ready", "booting", "maint", "resetting", "online"}
  /\ op \in DriverOps
  /\ pct \in 0..Full
  /\ mem \in [flash : {"old", "partial", "new"}, smc : {"old", "partial", "new"}]

FlagType == {flash_image, late, err, enabled} \subseteq BOOLEAN

(* Every variable holds a value of its type: of the driver's codes, only    *)
(* those poll_flash_op() knows ever reach it.                                *)
TypeOK == SessionType /\ PollType /\ CardType /\ FlagType

Updating == job.cmd = "update"
Success  == pc = "exited" /\ Updating /\ ret = 0

(* Every part of the image is on the card.                                  *)
Written == /\ job.image.kind \in {"flash", "both"} => mem.flash = "new"
           /\ job.image.kind \in {"smc", "both"}   => mem.smc = "new"

(* "A zero exit-status signals a successful flash update operation."        *)
(* (doc/micflash.1.txt:115)                                                 *)
ZeroMeansWritten == Success => Written

(* What the code guarantees of it: an update that exits with 0 has written  *)
(* every part of the image, or its polling ended by the timeout, whose      *)
(* decision rests on the percentage alone; and writes are disabled again.   *)
(* FLASH_UPDATED, on which the supervisor asks for a restart of the host,   *)
(* is only given when the flash part is completely written.                 *)
SuccessIsHonest ==
  /\ Success => (Written \/ why = "timeout") /\ ~enabled
  /\ pc = "exited" /\ Updating /\ ret = FLASH_UPDATED => mem.flash = "new"

(* Nothing is written unless the image was found intact, made for this      *)
(* card, not older than what the card holds (or --oldimage was given), and  *)
(* not a flash image under --smcbootloader.                                 *)
OnlyVerified ==
  mem # [flash |-> "old", smc |-> "old"] =>
    /\ job.image.kind # "bad"
    /\ job.image.kind # "smc" =>
         /\ job.image.fits /\ ~job.smc_bootloader
         /\ job.oldimage \/ ~job.image.older

(* A card this session put in (or found in, and used) maintenance mode is   *)
(* given back before the process ends, whether it exits or a signal ends    *)
(* it, unless the user asked to keep it (--test, or --noreset and success). *)
(* The one way to strand a card is an assertion of verify_image() that the  *)
(* image (helper.c:740) or the card's version (helper.c:782) fails: then    *)
(* nothing has been written to the card, and writes are not enabled.        *)
Custody ==
  pc \in Ended /\ held = "taken" =>
    \/ job.test_mode
    \/ job.no_reset /\ ret = 0 /\ pc # "aborted"
    \/ /\ pc = "aborted" /\ Updating /\ job.image.odd # "nothing"
       /\ ~enabled /\ mem = [flash |-> "old", smc |-> "old"]

(* A flash operation starts only on a card in maintenance mode. Once it      *)
(* runs, its card is reset, or its descriptor released, only when polling    *)
(* gave up on it (timeout, or a status that cannot be read). And a           *)
(* descriptor that a failed *_start() has already deleted is given to a      *)
(* *_done(), which is to "free resources allocated by a previous" start      *)
(* (doc/libmicmgmt.7.txt:956-959), only by flash_read(), whose exit code     *)
(* then tells of the failure.                                                *)
OpsUndisturbed ==
  [][/\ op \notin Busy /\ op' \in Busy => card = "maint"
     /\ op \in Busy /\ card # "resetting" /\ card' = "resetting"
          => why \in {"timeout", "unread"}
     /\ misuse' = "busy" /\ misuse # "busy" => why \in {"timeout", "unread"}
     /\ misuse' = "dangling" => job.cmd = "read" /\ ret' # 0]_vars

(* The session is a flash session as the supervisor knows them.              *)
Child == INSTANCE FlashSession WITH
           code <- CASE pc = "exited" -> ret
                     [] pc \in {"killed", "aborted"} -> -2
                     [] OTHER -> -1
ChildSpec == Child!SSpec

(* Whatever the card does, the process ends.                                 *)
Termination == <>(pc \in Ended)
===============================================================================
