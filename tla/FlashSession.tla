----------------------------- MODULE FlashSession -----------------------------
(***************************************************************************)
(* What one flash session promises to the process that started it: the     *)
(* order of the announcements it prints in line mode, the "ERROR:" lines   *)
(* and the exit code.  The session is a child process of micflash; Flash1  *)
(* implements this specification and Supervisor runs one instance per card.  *)
(***************************************************************************)
EXTENDS Integers

VARIABLES phase,   \* the last operation announced on stdout
          err,     \* an "ERROR:" line was printed
          code     \* exit code, Running, or Killed (died of a signal)

svars == <<phase, err, code>>

Running == -1
Killed  == -2
CMD_LINE_ERR  == 1
OTHER_ERR     == 8
FLASH_UPDATED == 10
ExitCodes == 0..10

Phases == {"quiet", "read", "update", "smc", "result", "reset"}

(* The announcements that may follow each announcement. *)
Later == [quiet  |-> {"read", "update", "smc", "result", "reset"},
          read   |-> {"update", "smc", "result", "reset"},
          update |-> {"smc", "reset"},
          smc    |-> {"reset"},
          result |-> {"reset"},
          reset  |-> {}]

SInit == phase = "quiet" /\ err = FALSE /\ code = Running

Announce ==
  /\ code = Running
  /\ phase' \in Later[phase]
  /\ UNCHANGED <<err, code>>

Complain ==
  /\ code = Running
  /\ err' = TRUE
  /\ UNCHANGED <<phase, code>>

(* A failure is always explained, but for a command line that              *)
(* getopt_long() refuses; a success is only marred by the errors of the      *)
(* final wait for the ready state, whose result flash1 discards.             *)
Exit ==
  /\ code = Running
  /\ code' \in ExitCodes
  /\ code' # 0 => err \/ (code' = CMD_LINE_ERR /\ phase = "quiet")
  /\ code' = 0 => ~err \/ phase = "reset"
  /\ code' = FLASH_UPDATED => phase \in {"smc", "reset"}
  /\ UNCHANGED <<phase, err>>

Die ==
  /\ code = Running
  /\ code' = Killed
  /\ UNCHANGED <<phase, err>>

SNext == Announce \/ Complain \/ Exit \/ Die

SSpec == SInit /\ [][SNext]_svars
===============================================================================
