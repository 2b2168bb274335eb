----------------------------- MODULE Flash1_proofs -----------------------------
(***************************************************************************)
(* What Flash1 guarantees for every set of command lines, every image and  *)
(* every scale of the percentage.                                          *)
(***************************************************************************)
EXTENDS Flash1, TLAPS

-------------------------------------------------------------------------------
(* Types.                                                                    *)

(* What an action leaves alone keeps its type.                               *)
LEMMA PollFrame == ASSUME TypeOK, UNCHANGED loc PROVE PollType'
BY DEF TypeOK, PollType, loc

LEMMA CardFrame == ASSUME TypeOK, UNCHANGED <<card, dev>> PROVE CardType'
BY DEF TypeOK, CardType, dev

LEMMA JobType == ASSUME TypeOK PROVE job \in Job
BY FlashAssumption DEF TypeOK, SessionType

(* The driver's status is one of the statuses the session knows, whatever   *)
(* the driver does.                                                          *)
LEMMA StatusType ==
  ASSUME TypeOK
  PROVE  flash_get_status \in [status : FlashStatus, percent : 0..Full]
BY FlashAssumption DEF TypeOK, CardType, flash_get_status, FlashStatus, DriverOps

(* Every variable keeps its type in every step.                              *)
THEOREM TypeCorrect == Spec => []TypeOK
<1>1. Init => TypeOK
  <2> SUFFICES ASSUME Init PROVE TypeOK
    OBVIOUS
  <2> USE FlashAssumption DEF Init
  <2>1. SessionType
    BY DEF SessionType, Pcs, Ended
  <2>2. PollType
    BY DEF PollType, FlashStatus
  <2>3. CardType
    BY DEF CardType, DriverOps, FlashStatus
  <2>4. FlagType
    BY DEF FlagType
  <2> QED
    BY <2>1, <2>2, <2>3, <2>4 DEF TypeOK
<1>2. TypeOK /\ [Next]_vars => TypeOK'
  <2> SUFFICES ASSUME TypeOK, [Next]_vars PROVE TypeOK'
    OBVIOUS
  <2>a. SessionType /\ PollType /\ CardType /\ FlagType
    BY DEF TypeOK
  <2> USE <2>a, FlashAssumption
      DEF CMD_LINE_ERR, CARD_NUM_ERR, MEM_ERR, FILE_ERR, NODEV_ERR, MODE_ERR,
          DEVOPEN_ERR, OTHER_ERR, IMAGE_MISMATCH, FLASH_UPDATED
  <2>1. CASE Start
    <3>1. SessionType'
      BY <2>1, JobType DEF Start, EarlyErrors, SessionType, Pcs, Ended, Goto,
         Fail
    <3>2. PollType'
      BY <2>1, PollFrame DEF Start, EarlyErrors
    <3>3. CardType'
      BY <2>1, CardFrame DEF Start, EarlyErrors
    <3>4. FlagType'
      BY <2>1 DEF Start, EarlyErrors, FlagType, Goto, Fail, out, loc, dev
    <3> QED BY <3>1, <3>2, <3>3, <3>4 DEF TypeOK
  <2>2. CASE SkipMaint
    <3>1. SessionType'
      BY <2>2 DEF SkipMaint, Body, SessionType, Pcs, Ended, Goto, Fail
    <3>2. PollType'
      BY <2>2, PollFrame DEF SkipMaint, Body
    <3>3. CardType'
      BY <2>2 DEF SkipMaint, Body, CardType, dev, DriverOps, FlashStatus
    <3>4. FlagType'
      BY <2>2 DEF SkipMaint, Body, FlagType, Goto, Fail, out, loc, dev
    <3> QED BY <3>1, <3>2, <3>3, <3>4 DEF TypeOK
  <2>3. CASE EnterMaint
    <3>1. SessionType'
      BY <2>3 DEF EnterMaint, SessionType, Pcs, Ended, Goto, Fail
    <3>2. PollType'
      BY <2>3 DEF EnterMaint, PollType, loc
    <3>3. CardType'
      BY <2>3 DEF EnterMaint, CardType, dev, DriverOps, FlashStatus
    <3>4. FlagType'
      BY <2>3 DEF EnterMaint, FlagType, Goto, Fail, out, loc, dev
    <3> QED BY <3>1, <3>2, <3>3, <3>4 DEF TypeOK
  <2>4. CASE PollMaint
    <3>1. SessionType'
      BY <2>4 DEF PollMaint, Body, SessionType, Pcs, Ended, Goto, Fail
    <3>2. PollType'
      BY <2>4, PollFrame DEF PollMaint, Body
    <3>3. CardType'
      BY <2>4, CardFrame DEF PollMaint, Body
    <3>4. FlagType'
      BY <2>4 DEF PollMaint, Body, FlagType, Goto, Fail, out, loc, dev
    <3> QED BY <3>1, <3>2, <3>3, <3>4 DEF TypeOK
  <2>5. CASE ReadStart
    <3>1. SessionType'
      BY <2>5, JobType DEF ReadStart, SessionType, Pcs, Ended, Goto, Fail,
         ReadError, Bail
    <3>2. PollType'
      <4>1. cont' \in {"verify", "version", "read"}
        BY <2>5 DEF ReadStart
      <4>2. desc' \in {"null", "open", "dangling"}
        BY <2>5 DEF ReadStart
      <4>3. UNCHANGED <<pret, seen, why, misuse>>
        BY <2>5 DEF ReadStart
      <4> QED BY <4>1, <4>2, <4>3 DEF PollType
    <3>3. CardType'
      BY <2>5 DEF ReadStart, CardType, dev, DriverOps, FlashStatus
    <3>4. FlagType'
      BY <2>5 DEF ReadStart, FlagType, Goto, Fail, out, loc, dev
    <3> QED BY <3>1, <3>2, <3>3, <3>4 DEF TypeOK
  <2>6. CASE ReadFailed
    <3>1. SessionType'
      BY <2>6, JobType DEF ReadFailed, SessionType, Pcs, Ended, Goto, Fail,
         ReadError, Bail, out
    <3>2. PollType'
      BY <2>6 DEF ReadFailed, PollType, loc, Release
    <3>3. CardType'
      BY <2>6, CardFrame DEF ReadFailed
    <3>4. FlagType'
      BY <2>6 DEF ReadFailed, FlagType, Goto, Fail, out, loc, dev, Release
    <3> QED BY <3>1, <3>2, <3>3, <3>4 DEF TypeOK
  <2>7. CASE ReadDone
    <3>1. SessionType'
      BY <2>7, JobType DEF ReadDone, SessionType, Pcs, Ended, Goto, Fail,
         ReadError, Bail
    <3>2. PollType'
      BY <2>7 DEF ReadDone, PollType, loc, Release
    <3>3. CardType'
      BY <2>7, CardFrame DEF ReadDone
    <3>4. FlagType'
      BY <2>7 DEF ReadDone, FlagType, Goto, Fail, out, loc, dev, Release
    <3> QED BY <3>1, <3>2, <3>3, <3>4 DEF TypeOK
  <2>8. CASE ShowVersion
    <3>1. SessionType'
      BY <2>8 DEF ShowVersion, SessionType, Pcs, Ended, Goto, Fail
    <3>2. PollType'
      BY <2>8, PollFrame DEF ShowVersion
    <3>3. CardType'
      BY <2>8, CardFrame DEF ShowVersion
    <3>4. FlagType'
      BY <2>8 DEF ShowVersion, FlagType, Goto, Fail, out, loc, dev
    <3> QED BY <3>1, <3>2, <3>3, <3>4 DEF TypeOK
  <2>9. CASE SaveImage
    <3>1. SessionType'
      BY <2>9 DEF SaveImage, SessionType, Pcs, Ended, Goto, Fail
    <3>2. PollType'
      BY <2>9, PollFrame DEF SaveImage
    <3>3. CardType'
      BY <2>9, CardFrame DEF SaveImage
    <3>4. FlagType'
      BY <2>9 DEF SaveImage, FlagType, Goto, Fail, out, loc, dev
    <3> QED BY <3>1, <3>2, <3>3, <3>4 DEF TypeOK
  <2>10. CASE Cleanup
    <3>1. SessionType'
      BY <2>10 DEF Cleanup, SessionType, Pcs, Ended, Goto, Fail
    <3>2. PollType'
      BY <2>10 DEF Cleanup, PollType, loc, Release
    <3>3. CardType'
      BY <2>10, CardFrame DEF Cleanup
    <3>4. FlagType'
      BY <2>10 DEF Cleanup, FlagType, Goto, Fail, out, loc, dev, Release
    <3> QED BY <3>1, <3>2, <3>3, <3>4 DEF TypeOK
  <2>11. CASE ShowVendor
    <3>1. SessionType'
      BY <2>11 DEF ShowVendor, SessionType, Pcs, Ended, Goto, Fail
    <3>2. PollType'
      BY <2>11, PollFrame DEF ShowVendor
    <3>3. CardType'
      BY <2>11, CardFrame DEF ShowVendor
    <3>4. FlagType'
      BY <2>11 DEF ShowVendor, FlagType, Goto, Fail, out, loc, dev
    <3> QED BY <3>1, <3>2, <3>3, <3>4 DEF TypeOK
  <2>12. CASE PollBegin
    <3>1. SessionType'
      BY <2>12 DEF PollBegin, SessionType, Pcs, Ended, Goto, Fail
    <3>2. PollType'
      BY <2>12, StatusType DEF PollBegin, PollType, loc
    <3>3. CardType'
      BY <2>12, CardFrame DEF PollBegin
    <3>4. FlagType'
      BY <2>12 DEF PollBegin, FlagType, Goto, Fail, out, loc, dev
    <3> QED BY <3>1, <3>2, <3>3, <3>4 DEF TypeOK
  <2>13. CASE SwitchToSmc
    <3>1. SessionType'
      BY <2>13 DEF SwitchToSmc, SessionType, Pcs, Ended, Goto, Fail
    <3>2. PollType'
      BY <2>13 DEF SwitchToSmc, PollType, loc
    <3>3. CardType'
      BY <2>13, CardFrame DEF SwitchToSmc
    <3>4. FlagType'
      BY <2>13 DEF SwitchToSmc, FlagType, Goto, Fail, out, loc, dev
    <3> QED BY <3>1, <3>2, <3>3, <3>4 DEF TypeOK
  <2>14. CASE Judge
    <3>1. SessionType'
      BY <2>14 DEF Judge, SessionType, Pcs, Ended, Goto, Fail, Complete
    <3>2. PollType'
      BY <2>14 DEF Judge, PollType, loc, Complete
    <3>3. CardType'
      BY <2>14, CardFrame DEF Judge
    <3>4. FlagType'
      BY <2>14 DEF Judge, FlagType, Goto, Fail, out, loc, dev
    <3> QED BY <3>1, <3>2, <3>3, <3>4 DEF TypeOK
  <2>15. CASE PollRead
    <3>1. SessionType'
      BY <2>15 DEF PollRead, SessionType, Pcs, Ended, Goto, Fail
    <3>2. PollType'
      BY <2>15, StatusType DEF PollRead, PollType, loc
    <3>3. CardType'
      BY <2>15, CardFrame DEF PollRead
    <3>4. FlagType'
      BY <2>15 DEF PollRead, FlagType, Goto, Fail, out, loc, dev
    <3> QED BY <3>1, <3>2, <3>3, <3>4 DEF TypeOK
  <2>16. CASE Verify
    <3>1. SessionType'
      BY <2>16 DEF Verify, Accepted, SessionType, Pcs, Ended, Goto, Fail
    <3>2. PollType'
      BY <2>16 DEF Verify, Accepted, PollType, loc
    <3>3. CardType'
      BY <2>16, CardFrame DEF Verify, Accepted
    <3>4. FlagType'
      BY <2>16 DEF Verify, Accepted, FlagType, Goto, Fail, out, loc, dev
    <3> QED BY <3>1, <3>2, <3>3, <3>4 DEF TypeOK
  <2>17. CASE CompareVersions
    <3>1. SessionType'
      BY <2>17 DEF CompareVersions, Accepted, SessionType, Pcs, Ended, Goto,
         Fail
    <3>2. PollType'
      BY <2>17 DEF CompareVersions, Accepted, PollType, loc
    <3>3. CardType'
      BY <2>17, CardFrame DEF CompareVersions, Accepted
    <3>4. FlagType'
      BY <2>17 DEF CompareVersions, Accepted, FlagType, Goto, Fail, out, loc,
         dev
    <3> QED BY <3>1, <3>2, <3>3, <3>4 DEF TypeOK
  <2>18. CASE UpdateStart
    <3>1. SessionType'
      BY <2>18 DEF UpdateStart, SessionType, Pcs, Ended, Goto, Fail
    <3>2. PollType'
      BY <2>18 DEF UpdateStart, PollType, loc
    <3>3. CardType'
      BY <2>18 DEF UpdateStart, CardType, dev, Writing, FirstPart, DriverOps,
         FlashStatus
    <3>4. FlagType'
      BY <2>18 DEF UpdateStart, FlagType, Goto, Fail, out, loc, dev
    <3> QED BY <3>1, <3>2, <3>3, <3>4 DEF TypeOK
  <2>19. CASE UpdateFailed
    <3>1. SessionType'
      BY <2>19 DEF UpdateFailed, SessionType, Pcs, Ended, Goto, Fail,
         FailedUpdate, out
    <3>2. PollType'
      BY <2>19 DEF UpdateFailed, PollType, loc, Release
    <3>3. CardType'
      BY <2>19 DEF UpdateFailed, CardType, dev, DriverOps, FlashStatus
    <3>4. FlagType'
      BY <2>19 DEF UpdateFailed, FlagType, Goto, Fail, out, loc, dev, Release
    <3> QED BY <3>1, <3>2, <3>3, <3>4 DEF TypeOK
  <2>20. CASE UpdateDone
    <3>1. SessionType'
      BY <2>20 DEF UpdateDone, SessionType, Pcs, Ended, Goto, Fail
    <3>2. PollType'
      BY <2>20 DEF UpdateDone, PollType, loc, Release
    <3>3. CardType'
      BY <2>20 DEF UpdateDone, CardType, dev, DriverOps, FlashStatus
    <3>4. FlagType'
      BY <2>20 DEF UpdateDone, FlagType, Goto, Fail, out, loc, dev, Release
    <3> QED BY <3>1, <3>2, <3>3, <3>4 DEF TypeOK
  <2>21. CASE Reset
    <3>1. SessionType'
      BY <2>21 DEF Reset, ResetError, SessionType, Pcs, Ended, Goto, Fail
    <3>2. PollType'
      BY <2>21, PollFrame DEF Reset, ResetError
    <3>3. CardType'
      BY <2>21 DEF Reset, ResetError, CardType, dev, DriverOps, FlashStatus
    <3>4. FlagType'
      BY <2>21 DEF Reset, ResetError, FlagType, Goto, Fail, out, loc, dev
    <3> QED BY <3>1, <3>2, <3>3, <3>4 DEF TypeOK
  <2>22. CASE PollReady
    <3>1. SessionType'
      BY <2>22 DEF PollReady, SessionType, Pcs, Ended, Goto, Fail
    <3>2. PollType'
      BY <2>22 DEF PollReady, PollType, loc
    <3>3. CardType'
      BY <2>22, CardFrame DEF PollReady
    <3>4. FlagType'
      BY <2>22 DEF PollReady, FlagType, Goto, Fail, out, loc, dev
    <3> QED BY <3>1, <3>2, <3>3, <3>4 DEF TypeOK
  <2>23. CASE WaitReady
    <3>1. SessionType'
      BY <2>23 DEF WaitReady, SessionType, Pcs, Ended, Goto, Fail
    <3>2. PollType'
      BY <2>23, PollFrame DEF WaitReady
    <3>3. CardType'
      BY <2>23, CardFrame DEF WaitReady
    <3>4. FlagType'
      BY <2>23 DEF WaitReady, FlagType, Goto, Fail, out, loc, dev
    <3> QED BY <3>1, <3>2, <3>3, <3>4 DEF TypeOK
  <2>24. CASE Finish
    <3>1. SessionType'
      BY <2>24 DEF Finish, SessionType, Pcs, Ended, Goto, Fail
    <3>2. PollType'
      BY <2>24, PollFrame DEF Finish
    <3>3. CardType'
      BY <2>24, CardFrame DEF Finish
    <3>4. FlagType'
      BY <2>24 DEF Finish, FlagType, Goto, Fail, out, loc, dev
    <3> QED BY <3>1, <3>2, <3>3, <3>4 DEF TypeOK
  <2>25. CASE ExitProcess
    <3>1. SessionType'
      BY <2>25 DEF ExitProcess, SessionType, Pcs, Ended, Goto, Fail
    <3>2. PollType'
      BY <2>25, PollFrame DEF ExitProcess
    <3>3. CardType'
      BY <2>25, CardFrame DEF ExitProcess
    <3>4. FlagType'
      BY <2>25 DEF ExitProcess, FlagType, Goto, Fail, out, loc, dev
    <3> QED BY <3>1, <3>2, <3>3, <3>4 DEF TypeOK
  <2>26. CASE PostCodeUnread
    <3>1. SessionType'
      BY <2>26 DEF PostCodeUnread, SessionType, Pcs, Ended, Goto, Fail
    <3>2. PollType'
      BY <2>26, PollFrame DEF PostCodeUnread
    <3>3. CardType'
      BY <2>26, CardFrame DEF PostCodeUnread
    <3>4. FlagType'
      BY <2>26 DEF PostCodeUnread, FlagType, Goto, Fail, out, loc, dev
    <3> QED BY <3>1, <3>2, <3>3, <3>4 DEF TypeOK
  <2>27. CASE Interrupt
    <3>1. SessionType'
      BY <2>27 DEF Interrupt, SessionType, Pcs, Ended, Goto, Fail, out
    <3>2. PollType'
      BY <2>27, PollFrame DEF Interrupt
    <3>3. CardType'
      BY <2>27, CardFrame DEF Interrupt
    <3>4. FlagType'
      BY <2>27 DEF Interrupt, FlagType, Goto, Fail, out, loc, dev
    <3> QED BY <3>1, <3>2, <3>3, <3>4 DEF TypeOK
  <2>28. CASE Environment
    <3>1. SessionType'
      BY <2>28 DEF Environment, CardStep, DriverAccepts, DriverProgress,
         DriverNextPart, DriverEnds, SessionType, out
    <3>2. PollType'
      BY <2>28, PollFrame DEF Environment, CardStep, DriverAccepts,
         DriverProgress, DriverNextPart, DriverEnds
    <3>3. CardType'
      BY <2>28 DEF Environment, CardStep, DriverAccepts, DriverProgress,
         DriverNextPart, DriverEnds, CardType, dev, Writing, FirstPart,
         DriverOps, FlashStatus
    <3>4. FlagType'
      BY <2>28 DEF Environment, CardStep, DriverAccepts, DriverProgress,
         DriverNextPart, DriverEnds, FlagType, Goto, Fail, out, loc, dev
    <3> QED BY <3>1, <3>2, <3>3, <3>4 DEF TypeOK
  <2>29. CASE Tick
    <3>1. SessionType'
      BY <2>29 DEF Tick, SessionType, out
    <3>2. PollType'
      BY <2>29 DEF Tick, PollType, loc
    <3>3. CardType'
      BY <2>29, CardFrame DEF Tick
    <3>4. FlagType'
      BY <2>29 DEF Tick, FlagType, Goto, Fail, out, loc, dev
    <3> QED BY <3>1, <3>2, <3>3, <3>4 DEF TypeOK
  <2>30. CASE UNCHANGED vars
    BY <2>30 DEF TypeOK, SessionType, PollType, CardType, FlagType, vars, out, loc, dev
  <2> QED
    BY <2>1, <2>2, <2>3, <2>4, <2>5, <2>6, <2>7, <2>8, <2>9, <2>10, <2>11, <2>12,
       <2>13, <2>14, <2>15, <2>16, <2>17, <2>18, <2>19, <2>20, <2>21, <2>22, <2>23,
       <2>24, <2>25, <2>26, <2>27, <2>28, <2>29, <2>30
       DEF Next, Session
<1> QED
  BY <1>1, <1>2, PTL DEF Spec

-------------------------------------------------------------------------------
(* Updates.                                                                  *)

Old == [flash |-> "old", smc |-> "old"]

(* What verify_image() and flash_update() require of an image.               *)
Allowed ==
  /\ job.image.kind # "bad"
  /\ job.image.kind # "smc" =>
       /\ job.image.fits /\ ~job.smc_bootloader
       /\ job.oldimage \/ ~job.image.older

(* Which operation poll_flash_op() was last called for, by place.            *)
PlaceInv ==
  /\ pc \in {"start", "set_maint", "poll_maint", "verify", "read_start"} =>
       cont = "none"
  /\ pc = "use_verify" => cont = "verify"
  /\ pc = "update_start" => cont # "update"
  /\ pc \in {"poll_begin", "poll_judge", "poll_read", "poll_done", "poll_failed"} =>
       cont # "none"
  /\ pc = "abandon" => ret # 0

(* Only an update verifies or writes; its other places belong to the others. *)
CommandInv ==
  /\ cont \in {"verify", "update"} \/ pc \in {"verify", "update_start"} =>
       job.cmd = "update"
  /\ job.cmd = "update" =>
       /\ cont \in {"none", "verify", "update"}
       /\ pc \notin {"use_version", "use_read", "cleanup", "vendor"}

(* The image is acceptable before it is written.                             *)
VerifiedInv ==
  /\ cont = "verify" \/ (pc = "read_start" /\ job.cmd = "update") =>
       job.image.kind \in {"flash", "both"} /\ job.image.fits
  /\ pc = "update_start" \/ cont = "update" => Allowed
  /\ flash_image => job.image.kind \in {"flash", "both"}

(* What the driver's operation says of the card's memory.                    *)
DriverInv ==
  /\ cont # "update" \/ op = "CMD_INVALID" => mem = Old
  /\ cont # "update" => pret = -1
  /\ op \in SmcStatus =>
       /\ cont = "update" /\ job.image.kind \in {"smc", "both"}
       /\ job.image.kind = "both" => mem.flash = "new"
       /\ op = "SMC_COMPLETED" => mem.smc = "new"
  /\ cont = "update" /\ op = "IN_PROGRESS" => job.image.kind \in {"flash", "both"}
  /\ cont = "update" /\ op = "COMPLETED" =>
       job.image.kind = "flash" /\ mem.flash = "new"

(* What the status last read still says when it is judged.                   *)
SeenInv ==
  cont = "update" /\ pc = "poll_judge" =>
    /\ seen.status \in Complete => op = seen.status
    /\ seen.status \in SmcStatus =>
         /\ job.image.kind \in {"smc", "both"}
         /\ job.image.kind = "both" => mem.flash = "new"

Settled == Written /\ op \notin Busy

(* A zero return value, once there is a verdict.                             *)
VerdictInv ==
  /\ cont = "update" /\ pc = "poll_done" => Settled \/ why = "timeout"
  /\ /\ job.cmd = "update" /\ ret = 0
     /\ pc \in {"reset", "poll_ready", "wait_ready", "finish", "closing", "exited"}
     => (Settled \/ why = "timeout") /\ ~enabled

(* FLASH_UPDATED is only ever returned for a flash part that is complete.    *)
UpdatedInv ==
  pret = FLASH_UPDATED \/ (job.cmd = "update" /\ ret = FLASH_UPDATED) =>
    mem.flash = "new"

UpdateInv == /\ PlaceInv /\ CommandInv /\ VerifiedInv /\ DriverInv
             /\ SeenInv /\ VerdictInv /\ UpdatedInv

(* UpdateInv is inductive, given the types.                                  *)
LEMMA UpdateStep == TypeOK /\ UpdateInv /\ [Next]_vars => UpdateInv'
<1> SUFFICES ASSUME TypeOK, UpdateInv, [Next]_vars PROVE UpdateInv'
  OBVIOUS
<1> USE DEF CMD_LINE_ERR, CARD_NUM_ERR, MEM_ERR, FILE_ERR, NODEV_ERR, MODE_ERR,
        DEVOPEN_ERR, OTHER_ERR, IMAGE_MISMATCH, FLASH_UPDATED
<1>a. TypeOK
  OBVIOUS
<1> USE DEF UpdateInv, PlaceInv, CommandInv, VerifiedInv, DriverInv, SeenInv,
        VerdictInv, UpdatedInv, Allowed, Old, Settled, Written, Goto, Fail,
        out, loc, dev, Busy, SmcStatus, Complete, FlashUpdate
<1>1. CASE Start
  BY <1>1 DEF Start, EarlyErrors
<1>2. CASE SkipMaint
  BY <1>2 DEF SkipMaint, Body
<1>3. CASE EnterMaint
  BY <1>3 DEF EnterMaint
<1>4. CASE PollMaint
  BY <1>4 DEF PollMaint, Body
<1>5. CASE ReadStart
  BY <1>5 DEF ReadStart, ReadError, Bail
<1>6. CASE ReadFailed
  BY <1>6 DEF ReadFailed, Release, ReadError, Bail
<1>7. CASE ReadDone
  BY <1>7 DEF ReadDone, Release, ReadError, Bail
<1>8. CASE ShowVersion
  BY <1>8 DEF ShowVersion
<1>9. CASE SaveImage
  BY <1>9 DEF SaveImage
<1>10. CASE Cleanup
  BY <1>10 DEF Cleanup, Release
<1>11. CASE ShowVendor
  BY <1>11 DEF ShowVendor
<1>12. CASE PollBegin
  BY <1>12 DEF PollBegin, flash_get_status
<1>13. CASE SwitchToSmc
  BY <1>13 DEF SwitchToSmc, FlashUpdate
<1>14. CASE Judge
  BY <1>14 DEF Judge
<1>15. CASE PollRead
  BY <1>15 DEF PollRead, flash_get_status
<1>16. CASE Verify
  <2>1. job.image.kind \in {"flash", "both", "smc", "bad"}
    BY JobType DEF Job, Images
  <2>2. /\ UNCHANGED <<job, cont, pret, seen, why, mem, op, enabled>>
        /\ pc = "verify" /\ cont = "none" /\ mem = Old
    BY <1>16 DEF Verify
  <2>3. CASE pc' = "reset"
    <3>1. ret' \in {OTHER_ERR, IMAGE_MISMATCH, CMD_LINE_ERR}
      BY <1>16, <2>3 DEF Verify, Accepted
    <3>2. flash_image' => job.image.kind \in {"flash", "both"}
      BY <1>16, <2>1 DEF Verify, Accepted
    <3> QED
      BY <2>2, <2>3, <3>1, <3>2
  <2>4. CASE pc' = "read_start"
    BY <1>16, <2>1, <2>2, <2>4 DEF Verify, Accepted
  <2>5. CASE pc' = "update_start"
    <3>1. job.image.kind \in {"flash", "both", "smc"} /\ job.cmd = "update" /\ ret' = ret
      BY <1>16, <2>1, <2>5 DEF Verify, Accepted
    <3>2. job.image.kind = "smc" => ~flash_image'
      BY <1>16 DEF Verify, Accepted
    <3>3. job.image.kind # "smc" =>
            job.image.fits /\ job.oldimage /\ ~job.smc_bootloader
      BY <1>16, <2>1, <2>5 DEF Verify, Accepted
    <3> QED
      BY <2>2, <2>5, <3>1, <3>2, <3>3
  <2>6. CASE pc' = "aborted"
    BY <1>16, <2>2, <2>6 DEF Verify, Accepted
  <2>7. pc' \in {"reset", "read_start", "update_start", "aborted"}
    BY <1>16 DEF Verify, Accepted
  <2> QED
    BY <2>3, <2>4, <2>5, <2>6, <2>7
<1>17. CASE CompareVersions
  BY <1>17 DEF CompareVersions, Accepted, Acceptable
<1>18. CASE UpdateStart
  <2>1. mem = Old /\ pret = -1 /\ ret # FLASH_UPDATED
    BY <1>18 DEF UpdateStart
  <2>2. CASE cont' # "update"
    BY <1>18, <2>1, <2>2 DEF UpdateStart
  <2>3. CASE cont' = "update"
    <3>1. /\ pc' = "poll_begin" /\ ret' = ret
          /\ UNCHANGED <<job, flash_image, pret>>
          /\ job.cmd = "update" /\ Allowed
      BY <1>18, <2>3 DEF UpdateStart
    <3>2. \/ op' = "CMD_INVALID" /\ mem' = mem
          \/ op' = IF FirstPart = "smc" THEN "SMC_IN_PROGRESS" ELSE "IN_PROGRESS"
      BY <1>18, <2>3 DEF UpdateStart
    <3>3. op' = "SMC_IN_PROGRESS" => job.image.kind = "smc"
      BY <3>2 DEF FirstPart
    <3>4. op' = "IN_PROGRESS" => job.image.kind \in {"flash", "both"}
      BY <3>1, <3>2, JobType DEF FirstPart, Job, Images
    <3> QED
      BY <2>1, <2>3, <3>1, <3>2, <3>3, <3>4
  <2> QED
    BY <2>2, <2>3
<1>19. CASE UpdateFailed
  <2>1. pret < 0 => pret # FLASH_UPDATED
    BY DEF TypeOK, PollType
  <2>2. pret \in {-1, FLASH_UPDATED}
    BY DEF TypeOK, PollType
  <2> QED
    BY <1>19, <2>1, <2>2 DEF UpdateFailed, Release, FailedUpdate
<1>20. CASE UpdateDone
  BY <1>20 DEF UpdateDone, Release
<1>21. CASE Reset
  BY <1>21 DEF Reset, ResetError, KeepMaint
<1>22. CASE PollReady
  BY <1>22 DEF PollReady
<1>23. CASE WaitReady
  BY <1>23 DEF WaitReady
<1>24. CASE Finish
  BY <1>24 DEF Finish
<1>25. CASE ExitProcess
  BY <1>25 DEF ExitProcess
<1>26. CASE PostCodeUnread
  BY <1>26 DEF PostCodeUnread
<1>27. CASE Interrupt
  BY <1>27 DEF Interrupt
<1>28. CASE Environment
  <2>1. mem = [flash |-> mem.flash, smc |-> mem.smc]
    BY DEF TypeOK, CardType
  <2>2. job.image.kind \in {"flash", "both", "smc", "bad"}
    BY JobType DEF Job, Images
  <2>3. CASE CardStep
    BY <2>3 DEF CardStep
  <2>4. CASE DriverAccepts
    BY <2>1, <2>2, <2>4 DEF DriverAccepts, Writing, FirstPart
  <2>5. CASE DriverProgress
    BY <2>5 DEF DriverProgress
  <2>6. CASE DriverNextPart
    BY <2>6 DEF DriverNextPart, Writing
  <2>7. CASE DriverEnds
    BY <2>1, <2>7 DEF DriverEnds, Writing
  <2> QED
    BY <1>28, <2>3, <2>4, <2>5, <2>6, <2>7 DEF Environment
<1>29. CASE Tick
  BY <1>29 DEF Tick
<1>30. CASE UNCHANGED vars
  BY <1>30 DEF vars
<1> QED
  BY <1>1, <1>2, <1>3, <1>4, <1>5, <1>6, <1>7, <1>8, <1>9, <1>10, <1>11, <1>12,
     <1>13, <1>14, <1>15, <1>16, <1>17, <1>18, <1>19, <1>20, <1>21, <1>22, <1>23,
     <1>24, <1>25, <1>26, <1>27, <1>28, <1>29, <1>30
     DEF Next, Session

LEMMA UpdateInvariant == Spec => []UpdateInv
<1>1. Init => UpdateInv
  BY DEF Init, UpdateInv, PlaceInv, CommandInv, VerifiedInv, DriverInv, SeenInv,
         VerdictInv, UpdatedInv, Old, SmcStatus, FLASH_UPDATED
<1> QED
  BY <1>1, UpdateStep, TypeCorrect, PTL DEF Spec

(* An update that reports success has written its image, or trusted the     *)
(* percentage at the timeout, and FLASH_UPDATED tells the truth, for every  *)
(* image, every command line and every behaviour of the driver.             *)
THEOREM UpdateCorrect == Spec => []SuccessIsHonest
<1>1. UpdateInv => SuccessIsHonest
  BY DEF UpdateInv, DriverInv, VerifiedInv, VerdictInv, UpdatedInv, Settled, Old,
         Allowed, Success, Updating, SuccessIsHonest
<1> QED
  BY <1>1, UpdateInvariant, PTL

(* No image is written that was not found intact, fit and new enough.       *)
THEOREM VerifiedCorrect == Spec => []OnlyVerified
<1>1. UpdateInv => OnlyVerified
  BY DEF UpdateInv, DriverInv, VerifiedInv, VerdictInv, UpdatedInv, Settled, Old,
         Allowed, OnlyVerified
<1> QED
  BY <1>1, UpdateInvariant, PTL

-------------------------------------------------------------------------------
(* Custody.                                                                  *)

(* The user asked for the card to stay in maintenance mode.                 *)
Kept == job.test_mode \/ (job.no_reset /\ ret = 0)

(* While the session answers for the card's mode, signals are ignored until *)
(* it is about to exit, and once past the reset it only keeps what it may.  *)
KeepInv ==
  /\ pc = "set_maint" => sig = "ignored"
  /\ held = "taken" =>
       /\ pc \notin {"start", "set_maint"}
       /\ sig = "default" => pc \in {"closing", "exited", "killed"}
       /\ pc \in {"poll_ready", "wait_ready", "finish", "closing", "exited",
                  "killed"} => Kept

(* Writing is neither begun nor enabled up to the end of the verification,  *)
(* and only the verification of an update can fail an assertion.            *)
Unwritten == {"start", "set_maint", "poll_maint", "verify", "vendor", "read_start",
              "use_verify", "update_start", "aborted"}

UnwrittenInv ==
  /\ pc \in Unwritten => cont # "update"
  /\ (pc \in Unwritten \/ (pc \in {"poll_begin", "poll_judge", "poll_read", "poll_done"}
                             /\ cont # "update")) =>
       ~enabled
  /\ pc \in {"verify", "use_verify"} \/ cont = "verify" => job.cmd = "update"
  /\ pc = "aborted" => job.cmd = "update" /\ job.image.odd # "nothing"

CustodyInv == KeepInv /\ UnwrittenInv

(* Whatever the command line, a card in maintenance mode is given back when *)
(* the process ends, or kept because the user asked for it; only a failed    *)
(* assertion of the verification strands it, with nothing written.           *)
THEOREM CustodyCorrect == Spec => []Custody
<1>1. Init => CustodyInv
  BY DEF Init, CustodyInv, KeepInv, UnwrittenInv, Unwritten
<1>2. CustodyInv /\ [Next]_vars => CustodyInv'
  <2> SUFFICES ASSUME CustodyInv, [Next]_vars PROVE CustodyInv'
    OBVIOUS
  <2> USE DEF CustodyInv, KeepInv, UnwrittenInv, Unwritten, Kept, Ended, Goto, Fail, out,
              loc, dev, MODE_ERR
  <2>1. CASE Start
    BY <2>1 DEF Start, EarlyErrors
  <2>2. CASE SkipMaint
    BY <2>2 DEF SkipMaint, Body
  <2>3. CASE EnterMaint
    BY <2>3 DEF EnterMaint
  <2>4. CASE PollMaint
    BY <2>4 DEF PollMaint, Body
  <2>5. CASE ReadStart
    BY <2>5 DEF ReadStart, ReadError, Bail
  <2>6. CASE ReadFailed
    BY <2>6 DEF ReadFailed, Release, ReadError, Bail
  <2>7. CASE ReadDone
    BY <2>7 DEF ReadDone, Release, ReadError, Bail
  <2>8. CASE ShowVersion
    BY <2>8 DEF ShowVersion
  <2>9. CASE SaveImage
    BY <2>9 DEF SaveImage
  <2>10. CASE Cleanup
    BY <2>10 DEF Cleanup, Release
  <2>11. CASE ShowVendor
    BY <2>11 DEF ShowVendor
  <2>12. CASE PollBegin
    BY <2>12 DEF PollBegin, flash_get_status
  <2>13. CASE SwitchToSmc
    BY <2>13 DEF SwitchToSmc, FlashUpdate
  <2>14. CASE Judge
    BY <2>14 DEF Judge
  <2>15. CASE PollRead
    BY <2>15 DEF PollRead, flash_get_status
  <2>16. CASE Verify
    BY <2>16 DEF Verify, Accepted
  <2>17. CASE CompareVersions
    BY <2>17 DEF CompareVersions, Accepted, Acceptable
  <2>18. CASE UpdateStart
    BY <2>18 DEF UpdateStart, Writing, FirstPart
  <2>19. CASE UpdateFailed
    BY <2>19 DEF UpdateFailed, Release, FailedUpdate
  <2>20. CASE UpdateDone
    BY <2>20 DEF UpdateDone, Release
  <2>21. CASE Reset
    BY <2>21 DEF Reset, ResetError, KeepMaint
  <2>22. CASE PollReady
    BY <2>22 DEF PollReady
  <2>23. CASE WaitReady
    BY <2>23 DEF WaitReady
  <2>24. CASE Finish
    BY <2>24 DEF Finish
  <2>25. CASE ExitProcess
    BY <2>25 DEF ExitProcess
  <2>26. CASE PostCodeUnread
    BY <2>26 DEF PostCodeUnread
  <2>27. CASE Interrupt
    BY <2>27 DEF Interrupt
  <2>28. CASE Environment
    BY <2>28 DEF Environment, CardStep, DriverAccepts, DriverProgress,
       DriverNextPart, DriverEnds, Writing, FirstPart
  <2>29. CASE Tick
    BY <2>29 DEF Tick
  <2>30. CASE UNCHANGED vars
    BY <2>30 DEF vars
  <2> QED
    BY <2>1, <2>2, <2>3, <2>4, <2>5, <2>6, <2>7, <2>8, <2>9, <2>10, <2>11, <2>12,
       <2>13, <2>14, <2>15, <2>16, <2>17, <2>18, <2>19, <2>20, <2>21, <2>22, <2>23,
       <2>24, <2>25, <2>26, <2>27, <2>28, <2>29, <2>30
       DEF Next, Session
<1>3. CustodyInv /\ UpdateInv => Custody
  BY DEF CustodyInv, KeepInv, UnwrittenInv, Unwritten, UpdateInv, DriverInv, Old,
         Custody, Kept, Ended, Updating
<1> QED
  BY <1>1, <1>2, <1>3, UpdateInvariant, PTL DEF Spec

-------------------------------------------------------------------------------
(* Operations on the card.                                                   *)

(* The places between the card's entry to maintenance mode and its reset.    *)
InBody == {"verify", "vendor", "read_start", "poll_begin", "poll_judge", "poll_read",
           "poll_done", "poll_failed", "use_verify", "use_version", "use_read",
           "cleanup", "update_start", "reset"}

(* The card is in maintenance mode there, and idle before it; no signal     *)
(* ends the session in between.                                              *)
ModeInv ==
  /\ sig = "default" => pc \in {"start", "finish", "closing"} \cup Ended
  /\ pc \in InBody => card = "maint"
  /\ pc \in {"start", "set_maint", "poll_maint", "abandon"} => op = "IDLE"

(* An operation that runs on when the polling is over was given up on: a    *)
(* status that was judged to be an end is one, for the driver starts        *)
(* nothing by itself.                                                        *)
GivenUpInv ==
  /\ pc \notin {"poll_begin", "poll_judge", "poll_read"} /\ op \in Busy =>
       why \in {"timeout", "unread"}
  /\ pc = "poll_judge" /\ seen.status \notin {"IN_PROGRESS", "SMC_IN_PROGRESS"} =>
       op \notin Busy

(* A failure is never forgotten, and only flash_read() keeps a descriptor   *)
(* whose operation could not be started.                                     *)
DanglingInv ==
  /\ pc = "abandon" => ret # 0
  /\ desc = "dangling" \/ misuse = "dangling" => job.cmd = "read" /\ ret # 0

OpsInv == ModeInv /\ GivenUpInv /\ DanglingInv

LEMMA OpsStep == TypeOK /\ OpsInv /\ [Next]_vars => OpsInv'
<1> SUFFICES ASSUME TypeOK, OpsInv, [Next]_vars PROVE OpsInv'
  OBVIOUS
<1> USE DEF OpsInv, ModeInv, GivenUpInv, DanglingInv, InBody, Busy, Ended, Goto, Fail,
            out, loc, dev, CMD_LINE_ERR, CARD_NUM_ERR, MEM_ERR, FILE_ERR, NODEV_ERR,
            MODE_ERR, DEVOPEN_ERR, OTHER_ERR, IMAGE_MISMATCH, FLASH_UPDATED
<1>1. CASE Start
  BY <1>1 DEF Start, EarlyErrors
<1>2. CASE SkipMaint
  BY <1>2 DEF SkipMaint, Body, InMaintMode
<1>3. CASE EnterMaint
  BY <1>3 DEF EnterMaint
<1>4. CASE PollMaint
  BY <1>4 DEF PollMaint, Body, InMaintMode
<1>5. CASE ReadStart
  BY <1>5 DEF ReadStart, ReadError, Bail
<1>6. CASE ReadFailed
  BY <1>6 DEF ReadFailed, Release, ReadError, Bail
<1>7. CASE ReadDone
  BY <1>7 DEF ReadDone, Release, ReadError, Bail
<1>8. CASE ShowVersion
  BY <1>8 DEF ShowVersion
<1>9. CASE SaveImage
  BY <1>9 DEF SaveImage
<1>10. CASE Cleanup
  BY <1>10 DEF Cleanup, Release
<1>11. CASE ShowVendor
  BY <1>11 DEF ShowVendor
<1>12. CASE PollBegin
  BY <1>12 DEF PollBegin, flash_get_status
<1>13. CASE SwitchToSmc
  BY <1>13 DEF SwitchToSmc, FlashUpdate
<1>14. CASE Judge
  BY <1>14 DEF Judge, FlashUpdate, Complete
<1>15. CASE PollRead
  BY <1>15 DEF PollRead, flash_get_status
<1>16. CASE Verify
  BY <1>16 DEF Verify, Accepted
<1>17. CASE CompareVersions
  BY <1>17 DEF CompareVersions, Accepted, Acceptable
<1>18. CASE UpdateStart
  BY <1>18 DEF UpdateStart, FirstPart
<1>19. CASE UpdateFailed
  BY <1>19 DEF UpdateFailed, Release, FailedUpdate
<1>20. CASE UpdateDone
  BY <1>20 DEF UpdateDone, Release
<1>21. CASE Reset
  BY <1>21 DEF Reset, ResetError, KeepMaint
<1>22. CASE PollReady
  BY <1>22 DEF PollReady
<1>23. CASE WaitReady
  BY <1>23 DEF WaitReady
<1>24. CASE Finish
  BY <1>24 DEF Finish
<1>25. CASE ExitProcess
  BY <1>25 DEF ExitProcess
<1>26. CASE PostCodeUnread
  BY <1>26 DEF PostCodeUnread
<1>27. CASE Interrupt
  BY <1>27 DEF Interrupt
<1>28. CASE Environment
  BY <1>28 DEF Environment, CardStep, DriverAccepts, DriverProgress,
       DriverNextPart, DriverEnds, Writing, FirstPart
<1>29. CASE Tick
  BY <1>29 DEF Tick
<1>30. CASE UNCHANGED vars
  BY <1>30 DEF vars
<1> QED
  BY <1>1, <1>2, <1>3, <1>4, <1>5, <1>6, <1>7, <1>8, <1>9, <1>10, <1>11, <1>12, 
     <1>13, <1>14, <1>15, <1>16, <1>17, <1>18, <1>19, <1>20, <1>21, <1>22, <1>23, <1>24, <1>25, <1>26, <1>27, <1>28, <1>29, <1>30
     DEF Next, Session

(* What each step of a session or of the driver does to the operation: the  *)
(* starts alone make the driver busy, the reset alone resets the card, and  *)
(* a descriptor is released only when the polling is over.                   *)
LEMMA OpsFacts ==
  ASSUME Next
  PROVE  /\ job' = job
         /\ op \notin Busy /\ op' \in Busy => pc \in {"read_start", "update_start"}
         /\ card # "resetting" /\ card' = "resetting" => pc \in {"reset", "abandon"}
         /\ misuse' = "busy" /\ misuse # "busy" =>
              op \in Busy /\ pc \in {"poll_failed", "poll_done", "cleanup"}
<1> USE DEF Goto, Fail, out, loc, dev, Ended, Busy
<1>1. CASE Start
  BY <1>1 DEF Start, EarlyErrors
<1>2. CASE SkipMaint
  BY <1>2 DEF SkipMaint, Body
<1>3. CASE EnterMaint
  BY <1>3 DEF EnterMaint
<1>4. CASE PollMaint
  BY <1>4 DEF PollMaint, Body
<1>5. CASE ReadStart
  BY <1>5 DEF ReadStart, ReadError, Bail
<1>6. CASE ReadFailed
  BY <1>6 DEF ReadFailed, Release, ReadError, Bail
<1>7. CASE ReadDone
  BY <1>7 DEF ReadDone, Release, ReadError, Bail
<1>8. CASE ShowVersion
  BY <1>8 DEF ShowVersion
<1>9. CASE SaveImage
  BY <1>9 DEF SaveImage
<1>10. CASE Cleanup
  BY <1>10 DEF Cleanup, Release
<1>11. CASE ShowVendor
  BY <1>11 DEF ShowVendor
<1>12. CASE PollBegin
  BY <1>12 DEF PollBegin, flash_get_status
<1>13. CASE SwitchToSmc
  BY <1>13 DEF SwitchToSmc, FlashUpdate
<1>14. CASE Judge
  BY <1>14 DEF Judge, FlashUpdate, Complete
<1>15. CASE PollRead
  BY <1>15 DEF PollRead, flash_get_status
<1>16. CASE Verify
  BY <1>16 DEF Verify, Accepted
<1>17. CASE CompareVersions
  BY <1>17 DEF CompareVersions, Accepted, Acceptable
<1>18. CASE UpdateStart
  BY <1>18 DEF UpdateStart, FirstPart
<1>19. CASE UpdateFailed
  BY <1>19 DEF UpdateFailed, Release, FailedUpdate
<1>20. CASE UpdateDone
  BY <1>20 DEF UpdateDone, Release
<1>21. CASE Reset
  BY <1>21 DEF Reset, ResetError, KeepMaint
<1>22. CASE PollReady
  BY <1>22 DEF PollReady
<1>23. CASE WaitReady
  BY <1>23 DEF WaitReady
<1>24. CASE Finish
  BY <1>24 DEF Finish
<1>25. CASE ExitProcess
  BY <1>25 DEF ExitProcess
<1>26. CASE PostCodeUnread
  BY <1>26 DEF PostCodeUnread
<1>27. CASE Interrupt
  BY <1>27 DEF Interrupt
<1>28. CASE Environment
  BY <1>28 DEF Environment, CardStep, DriverAccepts, DriverProgress,
       DriverNextPart, DriverEnds, Writing, FirstPart
<1>29. CASE Tick
  BY <1>29 DEF Tick
<1> QED
  BY <1>1, <1>2, <1>3, <1>4, <1>5, <1>6, <1>7, <1>8, <1>9, <1>10, <1>11, <1>12, 
     <1>13, <1>14, <1>15, <1>16, <1>17, <1>18, <1>19, <1>20, <1>21, <1>22, <1>23, <1>24, <1>25, <1>26, <1>27, <1>28, <1>29
     DEF Next, Session

(* In every step of a session: an operation starts on a card in maintenance *)
(* mode alone; a running one is reset or released under the driver only     *)
(* after the polling gave up on it; and a deleted descriptor is released a  *)
(* second time by a flash_read() that fails, and by nothing else.           *)
THEOREM OpsCorrect == Spec => OpsUndisturbed
<1> DEFINE Undisturbed ==
      /\ op \notin Busy /\ op' \in Busy => card = "maint"
      /\ op \in Busy /\ card # "resetting" /\ card' = "resetting"
           => why \in {"timeout", "unread"}
      /\ misuse' = "busy" /\ misuse # "busy" => why \in {"timeout", "unread"}
      /\ misuse' = "dangling" => job.cmd = "read" /\ ret' # 0
<1>1. Init => OpsInv
  BY DEF Init, OpsInv, ModeInv, GivenUpInv, DanglingInv, InBody, Busy
<1>2. OpsInv /\ OpsInv' /\ [Next]_vars => [Undisturbed]_vars
  <2> SUFFICES ASSUME OpsInv, OpsInv', Next PROVE Undisturbed
    OBVIOUS
  <2>1. misuse' = "dangling" => job.cmd = "read" /\ ret' # 0
    <3>1. misuse' = "dangling" => job'.cmd = "read" /\ ret' # 0
      BY DEF OpsInv, DanglingInv
    <3> QED
      BY <3>1, OpsFacts
  <2>2. op \notin Busy /\ op' \in Busy => card = "maint"
    BY OpsFacts DEF OpsInv, ModeInv, InBody
  <2>3. op \in Busy /\ card # "resetting" /\ card' = "resetting"
          => why \in {"timeout", "unread"}
    BY OpsFacts DEF OpsInv, ModeInv, GivenUpInv, Busy
  <2>4. misuse' = "busy" /\ misuse # "busy" => why \in {"timeout", "unread"}
    BY OpsFacts DEF OpsInv, GivenUpInv, Busy
  <2> QED
    BY <2>1, <2>2, <2>3, <2>4
<1>3. Spec => []TypeOK /\ []OpsInv
  BY <1>1, OpsStep, TypeCorrect, PTL DEF Spec
<1>4. Spec => [][Undisturbed]_vars
  BY <1>2, <1>3, PTL DEF Spec
<1> QED
  BY <1>4 DEF OpsUndisturbed

-------------------------------------------------------------------------------
(* The session as its supervisor sees it: every step is one that            *)
(* FlashSession allows, or one that it does not see.                         *)

(* What was announced last, by place.                                        *)
AnnouncedInv ==
  /\ pc \in {"start", "set_maint", "poll_maint", "abandon", "verify", "vendor", "read_start"} =>
       phase = "quiet"
  /\ pc \in {"use_version", "poll_done"} /\ cont # "update" => phase = "read"
  /\ pc = "poll_begin" => phase \in (IF cont = "update" THEN {"quiet", "read"} ELSE {"quiet"})
  /\ pc \in {"poll_judge", "poll_read"} =>
       phase = (IF cont # "update" THEN "read" ELSE IF flash_image THEN "update" ELSE "smc")
  /\ pc = "use_verify" => phase = "read"
  /\ pc = "update_start" => phase \in {"quiet", "read"}
  /\ pc = "wait_ready" => phase = "reset"
  /\ phase = "reset" => pc \in {"wait_ready", "finish", "closing"} \cup Ended

(* The exit code and the ERROR lines explain each other.                    *)
ExplainedInv ==
  /\ ret # 0 => /\ err \/ (ret = CMD_LINE_ERR /\ phase = "quiet"
                          /\ pc \in {"finish", "closing"} \cup Ended)
                /\ pc \in {"reset", "abandon", "cleanup", "poll_ready", "wait_ready",
                           "finish", "closing"} \cup Ended
  /\ pc = "poll_failed" => err
  /\ err /\ ret = 0 => pc \in {"poll_failed", "killed"} \/ phase = "reset"
  /\ pret = FLASH_UPDATED => cont = "update" /\ phase \in {"smc", "reset"}
  /\ ret = FLASH_UPDATED => phase \in {"smc", "reset"}
  /\ pc \in {"use_version", "vendor"} => cont # "update"

ChildInv == AnnouncedInv /\ ExplainedInv

LEMMA ChildStep == TypeOK /\ UpdateInv /\ ChildInv /\ [Next]_vars => ChildInv'
<1> SUFFICES ASSUME TypeOK, PlaceInv, CommandInv, ChildInv, [Next]_vars PROVE ChildInv'
  BY DEF UpdateInv
<1>t. pret \in {-1, FLASH_UPDATED} /\ ret \in 0..10 /\ job \in Job
  BY JobType DEF TypeOK, PollType, SessionType
<1> USE <1>t DEF ChildInv, AnnouncedInv, ExplainedInv, PlaceInv, CommandInv, Ended, Goto, Fail,
            out, loc, dev, CMD_LINE_ERR, CARD_NUM_ERR, MEM_ERR, FILE_ERR, NODEV_ERR,
            MODE_ERR, DEVOPEN_ERR, OTHER_ERR, IMAGE_MISMATCH, FLASH_UPDATED
<1>1. CASE Start
  BY <1>1 DEF Start, EarlyErrors
<1>2. CASE SkipMaint
  BY <1>2 DEF SkipMaint, Body, InMaintMode
<1>3. CASE EnterMaint
  BY <1>3 DEF EnterMaint
<1>4. CASE PollMaint
  BY <1>4 DEF PollMaint, Body, InMaintMode
<1>5. CASE ReadStart
  BY <1>5 DEF ReadStart, ReadError, Bail
<1>6. CASE ReadFailed
  BY <1>6 DEF ReadFailed, Release, ReadError, Bail
<1>7. CASE ReadDone
  BY <1>7 DEF ReadDone, Release, ReadError, Bail
<1>8. CASE ShowVersion
  BY <1>8 DEF ShowVersion
<1>9. CASE SaveImage
  BY <1>9 DEF SaveImage
<1>10. CASE Cleanup
  BY <1>10 DEF Cleanup, Release
<1>11. CASE ShowVendor
  BY <1>11 DEF ShowVendor
<1>12. CASE PollBegin
  <2>1. pret' = -1 /\ ret' = 0 /\ ret = 0 /\ cont' = cont /\ flash_image' = flash_image
    BY <1>12 DEF PollBegin
  <2>2. CASE pc' = "poll_judge"
    <3>1. /\ phase' = IF cont # "update" THEN "read" ELSE IF flash_image THEN "update" ELSE "smc"
          /\ err' = err
      BY <1>12, <2>2 DEF PollBegin
    <3> QED
      BY <1>12, <2>1, <2>2, <3>1 DEF PollBegin
  <2>3. CASE pc' = "poll_failed" /\ err' /\ phase' = phase
    BY <1>12, <2>1, <2>3 DEF PollBegin
  <2> QED
    BY <1>12, <2>2, <2>3 DEF PollBegin
<1>13. CASE SwitchToSmc
  BY <1>13 DEF SwitchToSmc, FlashUpdate
<1>14. CASE Judge
  BY <1>14 DEF Judge, FlashUpdate, Complete
<1>15. CASE PollRead
  BY <1>15 DEF PollRead, flash_get_status
<1>16. CASE Verify
  BY <1>16 DEF Verify, Accepted
<1>17. CASE CompareVersions
  BY <1>17 DEF CompareVersions, Accepted, Acceptable
<1>18. CASE UpdateStart
  BY <1>18 DEF UpdateStart, FirstPart
<1>19. CASE UpdateFailed
  BY <1>19 DEF UpdateFailed, Release, FailedUpdate
<1>20. CASE UpdateDone
  BY <1>20 DEF UpdateDone, Release
<1>21. CASE Reset
  BY <1>21 DEF Reset, ResetError, KeepMaint
<1>22. CASE PollReady
  BY <1>22 DEF PollReady
<1>23. CASE WaitReady
  BY <1>23 DEF WaitReady
<1>24. CASE Finish
  BY <1>24 DEF Finish
<1>25. CASE ExitProcess
  BY <1>25 DEF ExitProcess
<1>26. CASE PostCodeUnread
  BY <1>26 DEF PostCodeUnread
<1>27. CASE Interrupt
  BY <1>27 DEF Interrupt
<1>28. CASE Environment
  BY <1>28 DEF Environment, CardStep, DriverAccepts, DriverProgress,
       DriverNextPart, DriverEnds, Writing, FirstPart
<1>29. CASE Tick
  BY <1>29 DEF Tick
<1>30. CASE UNCHANGED vars
  BY <1>30 DEF vars
<1> QED
  BY <1>1, <1>2, <1>3, <1>4, <1>5, <1>6, <1>7, <1>8, <1>9, <1>10, <1>11, <1>12, 
     <1>13, <1>14, <1>15, <1>16, <1>17, <1>18, <1>19, <1>20, <1>21, <1>22, <1>23, <1>24, <1>25, <1>26, <1>27, <1>28, <1>29, <1>30
     DEF Next, Session

(* A step announces something, prints an error, ends the session, or is not *)
(* seen: never two of them at once.                                          *)
LEMMA ChildMoves ==
  ASSUME TypeOK, PlaceInv, CommandInv, ChildInv, Next
  PROVE  \/ phase' \in Child!Later[phase] /\ err' = err /\ {pc, pc'} \cap Ended = {}
         \/ phase' = phase /\ err' /\ {pc, pc'} \cap Ended = {}
         \/ phase' = phase /\ err' = err /\ {pc, pc'} \cap Ended = {}
         \/ UNCHANGED <<phase, err, pc, ret>>
         \/ /\ UNCHANGED <<phase, err, ret>> /\ pc \notin Ended
            /\ pc' \in {"killed", "aborted"} \/ (pc = "closing" /\ pc' = "exited")
<1> USE DEF ChildInv, AnnouncedInv, ExplainedInv, PlaceInv, CommandInv, Ended, Goto, Fail,
            out, loc, dev
<1>1. CASE Start
  BY <1>1 DEF Start, EarlyErrors
<1>2. CASE SkipMaint
  BY <1>2 DEF SkipMaint, Body, InMaintMode
<1>3. CASE EnterMaint
  BY <1>3 DEF EnterMaint
<1>4. CASE PollMaint
  BY <1>4 DEF PollMaint, Body, InMaintMode
<1>5. CASE ReadStart
  BY <1>5 DEF ReadStart, ReadError, Bail
<1>6. CASE ReadFailed
  BY <1>6 DEF ReadFailed, Release, ReadError, Bail
<1>7. CASE ReadDone
  BY <1>7 DEF ReadDone, Release, ReadError, Bail
<1>8. CASE ShowVersion
  BY <1>8 DEF ShowVersion, Child!Later
<1>9. CASE SaveImage
  BY <1>9 DEF SaveImage
<1>10. CASE Cleanup
  BY <1>10 DEF Cleanup, Release
<1>11. CASE ShowVendor
  BY <1>11 DEF ShowVendor, Child!Later
<1>12. CASE PollBegin
  BY <1>12 DEF PollBegin, flash_get_status, Child!Later
<1>13. CASE SwitchToSmc
  BY <1>13 DEF SwitchToSmc, FlashUpdate, Child!Later
<1>14. CASE Judge
  BY <1>14 DEF Judge, FlashUpdate, Complete
<1>15. CASE PollRead
  BY <1>15 DEF PollRead, flash_get_status
<1>16. CASE Verify
  BY <1>16 DEF Verify, Accepted
<1>17. CASE CompareVersions
  BY <1>17 DEF CompareVersions, Accepted, Acceptable
<1>18. CASE UpdateStart
  BY <1>18 DEF UpdateStart, FirstPart
<1>19. CASE UpdateFailed
  BY <1>19 DEF UpdateFailed, Release, FailedUpdate
<1>20. CASE UpdateDone
  BY <1>20 DEF UpdateDone, Release
<1>21. CASE Reset
  BY <1>21 DEF Reset, ResetError, KeepMaint
<1>22. CASE PollReady
  BY <1>22 DEF PollReady, Child!Later, TypeOK, SessionType
<1>23. CASE WaitReady
  BY <1>23 DEF WaitReady
<1>24. CASE Finish
  BY <1>24 DEF Finish
<1>25. CASE ExitProcess
  BY <1>25 DEF ExitProcess
<1>26. CASE PostCodeUnread
  BY <1>26 DEF PostCodeUnread
<1>27. CASE Interrupt
  BY <1>27 DEF Interrupt
<1>28. CASE Environment
  BY <1>28 DEF Environment, CardStep, DriverAccepts, DriverProgress,
       DriverNextPart, DriverEnds, Writing, FirstPart
<1>29. CASE Tick
  BY <1>29 DEF Tick
<1> QED
  BY <1>1, <1>2, <1>3, <1>4, <1>5, <1>6, <1>7, <1>8, <1>9, <1>10, <1>11, <1>12, 
     <1>13, <1>14, <1>15, <1>16, <1>17, <1>18, <1>19, <1>20, <1>21, <1>22, <1>23, <1>24, <1>25, <1>26, <1>27, <1>28, <1>29
     DEF Next, Session

(* A flash session behaves, whatever the card and the driver do, as its     *)
(* supervisor relies on: the order of its announcements, the errors that    *)
(* explain its exit code, and FLASH_UPDATED only after the flash part.      *)
THEOREM ChildCorrect == Spec => ChildSpec
<1>1. Init => ChildInv
  BY DEF Init, ChildInv, AnnouncedInv, ExplainedInv, FLASH_UPDATED
<1>2. Init => Child!SInit
  BY DEF Init, Child!SInit, Child!Running
<1>3. TypeOK /\ UpdateInv /\ ChildInv /\ [Next]_vars => [Child!SNext]_(Child!svars)
  <2> SUFFICES ASSUME TypeOK, PlaceInv, CommandInv, ChildInv, [Next]_vars
               PROVE  Child!SNext \/ UNCHANGED Child!svars
    BY DEF UpdateInv
  <2>1. CASE UNCHANGED vars
    BY <2>1 DEF vars, out, Child!svars
  <2>2. CASE Next
    <3>1. CASE phase' \in Child!Later[phase] /\ err' = err /\ {pc, pc'} \cap Ended = {}
      BY <3>1 DEF Ended, Child!SNext, Child!Announce, Child!Running
    <3>2. CASE phase' = phase /\ err' /\ {pc, pc'} \cap Ended = {}
      BY <3>2 DEF Ended, Child!SNext, Child!Complain, Child!Running
    <3>3. CASE phase' = phase /\ err' = err /\ {pc, pc'} \cap Ended = {}
      BY <3>3 DEF Ended, Child!svars
    <3>4. CASE UNCHANGED <<phase, err, pc, ret>>
      BY <3>4 DEF Child!svars
    <3>5. CASE /\ UNCHANGED <<phase, err, ret>> /\ pc \notin Ended
               /\ pc' \in {"killed", "aborted"}
      BY <3>5 DEF Ended, Child!SNext, Child!Die, Child!Running, Child!Killed
    <3>6. CASE UNCHANGED <<phase, err, ret>> /\ pc = "closing" /\ pc' = "exited"
      <4>1. ret \in 0..10
        BY DEF TypeOK, SessionType
      <4> QED
        BY <3>6, <4>1 DEF Ended, ChildInv, ExplainedInv, Child!SNext, Child!Exit, Child!Running,
           Child!ExitCodes, Child!CMD_LINE_ERR, Child!FLASH_UPDATED, CMD_LINE_ERR, FLASH_UPDATED
    <3> QED
      BY <2>2, <3>1, <3>2, <3>3, <3>4, <3>5, <3>6, ChildMoves
  <2> QED
    BY <2>1, <2>2
<1> QED
  BY <1>1, <1>2, <1>3, ChildStep, TypeCorrect, UpdateInvariant, PTL DEF Spec, ChildSpec, Child!SSpec

===============================================================================
