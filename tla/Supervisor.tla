------------------------------ MODULE Supervisor ------------------------------
(***************************************************************************)
(* The two front ends of the flash tools: micflash                         *)
(* (apps/mpssflash/micflash.c), which watches its children through pipes,  *)
(* and mpssflash (mpssflash.c), which only waits for them.  Each child is  *)
(* a FlashSession, or two in a row when the SMC boot-loader is updated.    *)
(***************************************************************************)
EXTENDS Integers, Sequences, FiniteSets

CONSTANTS N,         \* most cards a command line names
          Jobs,      \* the command lines explored: a subset of Job
          Codes,     \* the exit codes explored: a subset of 0..10
          MaxErrors, \* how many phases of a session may print errors, for
                     \* each number of cards
          PipeSize   \* lines that fit into a pipe

Job == [tool : {"micflash", "mpssflash"},
        cmd : {"update", "smc", "read", "file"},   \* smc: update by an image
                     \* without a flash part; file: the version of a file
        display : {"default", "v", "vv"},
        boot : BOOLEAN, noreboot : BOOLEAN, cards : 1..N]

ASSUME SupervisorAssumption ==
  /\ N \in Nat \ {0} /\ PipeSize \in Nat \ {0}
  /\ MaxErrors \in [1..N -> Nat \ {0}]
  /\ Jobs \subseteq Job /\ Codes \subseteq 0..10 /\ {0, 8} \subseteq Codes

VARIABLES
  job,             \* the command line
  place, at,       \* where the front end is; the card it works on
  proc, status,    \* each child process and how it ended
  round,           \* which session a child runs: 0 (none yet), 1 (boot-loader)
                   \* or 2 (image)
  phase, err, code,   \* the session of each child (FlashSession)
  pipe,            \* lines a child has printed that were not read yet
  begun, failed,   \* the states a child announced, and those in which it
                   \* printed an error (history)
  state, bad,      \* state and *_status < 0 of each slot of procinfo
  exit_status, msg,   \* exit_status; stat_msg is not empty
  done, told,      \* which "... done" lines and which outcome were shown
  ret, n_done, advice   \* exit code; cards updated; the host is to be restarted

slots == <<state, bad, exit_status, msg, done, told>>
result == <<ret, n_done, advice>>
child == <<round, phase, err, code, begun, failed>>
vars  == <<job, place, at, proc, status, child, pipe, slots, result>>

Running == -1
Killed  == -2
OTHER_ERR     == 8
FLASH_UPDATED == 10

Cards == 1..N
n_procs == IF job.cmd = "file" THEN 1 ELSE job.cards
Slots   == 1..n_procs
Piped   == job.tool = "micflash"
cmd_update == job.cmd \in {"update", "smc"}

Init ==
  /\ job \in Jobs
  /\ place = "start" /\ at = 1
  /\ proc = [i \in Cards |-> "none"] /\ status = [i \in Cards |-> Running]
  /\ round = [i \in Cards |-> IF job.boot THEN 0 ELSE 2]
  /\ phase = [i \in Cards |-> "quiet"] /\ err = [i \in Cards |-> FALSE]
  /\ code = [i \in Cards |-> Running]
  /\ pipe = [i \in Cards |-> <<>>]
  /\ begun = [i \in Cards |-> {}] /\ failed = [i \in Cards |-> {}]
  /\ state = [i \in Cards |-> "init"] /\ bad = [i \in Cards |-> {}]
  /\ exit_status = [i \in Cards |-> 0] /\ msg = [i \in Cards |-> FALSE]
  /\ done = [i \in Cards |-> {}] /\ told = [i \in Cards |-> "nothing"]
  /\ ret = 0 /\ n_done = 0 /\ advice = FALSE

-------------------------------------------------------------------------------
(* The children: flash1_start(), or flash2_start() for the boot-loader.      *)

Session(i) == INSTANCE FlashSession
                WITH phase <- phase[i], err <- err[i], code <- code[i]

(* The states of a slot that stand for an operation with a status.           *)
Ops == {"read", "update", "smc", "smc_bl"}

(* The state that an announcement means to the parser of micflash.           *)
StateOf(i, p) == CASE p = "smc" /\ round[i] = 1 -> "smc_bl"
                   [] p = "result"              -> "exec"
                   [] OTHER                     -> p

(* A child whose last line did not fit into the pipe waits for a reader.     *)
Writes(i, line) == IF Piped THEN [pipe EXCEPT ![i] = Append(@, line)] ELSE pipe
Awake(i) == proc[i] = "running" /\ Len(pipe[i]) <= PipeSize

(* What a session of a command announces. *)
Announced(i) ==
  CASE job.cmd = "smc" \/ round[i] = 1 -> {"smc", "reset"}
    [] job.cmd = "update" /\ round[i] # 1 -> {"read", "update", "smc", "reset"}
    [] job.cmd = "read" /\ round[i] # 1 -> {"read", "result", "reset"}
    [] job.cmd = "file" /\ round[i] # 1 -> {"result"}

Announce(i) ==
  /\ Awake(i) /\ round[i] # 0
  /\ \E p \in Announced(i) :
       /\ phase' = [phase EXCEPT ![i] = p]
       /\ pipe' = Writes(i, StateOf(i, p))
       /\ begun' = [begun EXCEPT ![i] = @ \cup {StateOf(i, p)}]
  /\ UNCHANGED <<err, code>> /\ Session(i)!Announce
  /\ UNCHANGED <<job, place, at, proc, status, round, failed, slots, result>>

(* The errors of a phase are one line. *)
Complain(i) ==
  /\ Awake(i) /\ round[i] # 0
  /\ StateOf(i, phase[i]) \notin failed[i]
  /\ Cardinality(failed[i]) < MaxErrors[job.cards]
  /\ err' = [err EXCEPT ![i] = TRUE]
  /\ UNCHANGED <<phase, code>> /\ Session(i)!Complain
  /\ pipe' = Writes(i, "ERROR")
  /\ failed' = [failed EXCEPT ![i] = @ \cup {StateOf(i, phase[i])}]
  /\ UNCHANGED <<job, place, at, proc, status, round, begun, slots, result>>

(* The process that the front end forked ends; what run_cmd() makes of a    *)
(* session that was killed is exit code 1.                                   *)
EndProcess(i, s) ==
  /\ proc' = [proc EXCEPT ![i] = "zombie"]
  /\ status' = [status EXCEPT ![i] = s]

End(i) ==
  /\ Awake(i) /\ round[i] # 0
  /\ \E c \in Codes \cup {Killed} :
       /\ c = FLASH_UPDATED => cmd_update
       /\ code' = [code EXCEPT ![i] = c]
       /\ IF job.boot THEN UNCHANGED <<proc, status>> ELSE EndProcess(i, c)
  /\ UNCHANGED <<phase, err>> /\ (Session(i)!Exit \/ Session(i)!Die)
  /\ UNCHANGED <<job, place, at, round, begun, failed, pipe, slots, result>>

(* flash2_start(): no boot-loader image, or the first session.              *)
BootCheck(i) ==
  /\ Awake(i) /\ round[i] = 0
  /\ \/ EndProcess(i, 1) /\ UNCHANGED round
     \/ round' = [round EXCEPT ![i] = 1] /\ UNCHANGED <<proc, status>>
  /\ UNCHANGED <<job, place, at, phase, err, code, begun, failed, pipe, slots, result>>

(* A session of flash2_start() is over: the second one, or the end.          *)
BootNext(i) ==
  /\ Awake(i) /\ job.boot /\ code[i] # Running
  /\ IF round[i] = 1 /\ code[i] = 0
       THEN /\ round' = [round EXCEPT ![i] = 2]
            /\ phase' = [phase EXCEPT ![i] = "quiet"]
            /\ err' = [err EXCEPT ![i] = FALSE]
            /\ code' = [code EXCEPT ![i] = Running]
            /\ UNCHANGED <<proc, status>>
       ELSE /\ EndProcess(i, IF code[i] = Killed THEN 1 ELSE code[i])
            /\ UNCHANGED <<round, phase, err, code>>
  /\ UNCHANGED <<job, place, at, begun, failed, pipe, slots, result>>

Child(i) == Announce(i) \/ Complain(i) \/ End(i) \/ BootCheck(i) \/ BootNext(i)

-------------------------------------------------------------------------------
(* Starting the children: start_cmd() and what common_flash_cmd() does      *)
(* around it.                                                                *)

(* Bad options, log file, no such cards, no memory.                          *)
Refuse ==
  /\ place = "start" /\ at = 1
  /\ place' = "ended"
  /\ ret' \in IF Piped THEN {-1, 1, 2, 3, 4, OTHER_ERR} ELSE {1, 3}
  /\ UNCHANGED <<job, at, proc, status, child, pipe, slots, n_done, advice>>

(* The image of a card may be unusable, of which stat_msg tells, and there  *)
(* may be no memory, pipe or process for its child.                          *)
StartSlot ==
  /\ place = "start" /\ at \in Slots
  /\ at' = at + 1
  /\ \/ proc' = [proc EXCEPT ![at] = "running"] /\ UNCHANGED msg
     \/ /\ \E m \in BOOLEAN : /\ m => Piped /\ cmd_update
                              /\ msg' = [msg EXCEPT ![at] = m]
        /\ UNCHANGED proc
  /\ UNCHANGED <<job, place, status, child, pipe, state, bad, exit_status, done,
                 told, result>>

Started == {i \in Slots : proc[i] # "none"}

StartDone ==
  /\ place = "start" /\ at \notin Slots
  /\ at' = 1
  /\ IF Started = {}
       THEN place' = "ended" /\ ret' = IF Piped THEN OTHER_ERR ELSE 1
       ELSE place' = (IF Piped THEN "scan" ELSE "wait") /\ UNCHANGED ret
  /\ UNCHANGED <<job, proc, status, child, pipe, slots, n_done, advice>>

-------------------------------------------------------------------------------
(* micflash: reading the pipes, set_state().                                 *)

(* show_done(): an operation that was left without an error is "done".       *)
ShowDone(i) == done' = [done EXCEPT ![i] = @ \cup (({state[i]} \cap Ops) \ bad[i])]

(* Mutant: the error is charged to the state that comes next. *)
SetErrorStatus_Late(i) == UNCHANGED bad
(* set_error_status() *)
SetErrorStatus(i) == bad' = [bad EXCEPT ![i] = @ \cup ({state[i]} \cap Ops)]

ReadLine ==
  /\ place = "scan" /\ at \in Started /\ state[at] # "exit"
  /\ pipe[at] # <<>>
  /\ pipe' = [pipe EXCEPT ![at] = Tail(@)]
  /\ LET line == Head(pipe[at])
     IN  IF line = "ERROR"
           THEN /\ SetErrorStatus(at) /\ msg' = [msg EXCEPT ![at] = TRUE]
                /\ UNCHANGED <<state, done>>
           ELSE /\ ShowDone(at) /\ state' = [state EXCEPT ![at] = line]
                /\ UNCHANGED <<bad, msg>>
  /\ UNCHANGED <<job, place, at, proc, status, child, exit_status, told, result>>

(* A slot that was never started or has exited is passed over, and so is    *)
(* one whose child has nothing to say.                                       *)
PassOver ==
  /\ place = "scan" /\ at \in Slots
  /\ at \in Started => state[at] = "exit" \/ (pipe[at] = <<>> /\ proc[at] = "running")
  /\ at' = at + 1
  /\ UNCHANGED <<job, place, proc, status, child, pipe, slots, result>>

(* Mutant: the status word is taken for the exit code. *)
WEXITSTATUS_Raw(s) == s
(* WEXITSTATUS of a process that was killed is 0; nobody asks WIFEXITED.     *)
WEXITSTATUS(s) == IF s = Killed THEN 0 ELSE s

(* End of file: the child is reaped. *)
Reap ==
  /\ place = "scan" /\ at \in Started /\ state[at] # "exit"
  /\ pipe[at] = <<>> /\ proc[at] = "zombie"
  /\ ShowDone(at) /\ state' = [state EXCEPT ![at] = "exit"]
  /\ proc' = [proc EXCEPT ![at] = "reaped"]
  /\ exit_status' = [exit_status EXCEPT ![at] = WEXITSTATUS(status[at])]
  /\ at' = at + 1
  /\ UNCHANGED <<job, place, status, child, pipe, bad, msg, told, result>>

ScanDone ==
  /\ place = "scan" /\ at \notin Slots
  /\ place' = "show"
  /\ UNCHANGED <<job, at, proc, status, child, pipe, slots, result>>

-------------------------------------------------------------------------------
(* micflash: show_progress().                                                *)

(* Mutant: only a slot that has exited is accounted for. *)
Accounted_Started(i) == state[i] = "exit"
(* Mutant: a slot that has shown an error needs no more attention. *)
Accounted_Complained(i) == i \notin Started \/ state[i] = "exit" \/ bad[i] # {}
(* By default and with -vv a slot needs no more attention once it exited.    *)
Accounted(i) == i \notin Started \/ state[i] = "exit"

Show ==
  /\ place = "show" /\ job.cmd # "file" /\ job.display # "v"
  /\ place' = IF \A i \in Slots : Accounted(i) THEN "combine" ELSE "scan"
  /\ at' = 1
  /\ UNCHANGED <<job, proc, status, child, pipe, slots, result>>

(* ascii_update(), called again within four seconds. *)
ShowTooSoon ==
  /\ place = "show" /\ job.cmd # "file" /\ job.display = "v"
  /\ place' = "scan" /\ at' = 1
  /\ UNCHANGED <<job, proc, status, child, pipe, slots, result>>

(* Mutant: a slot is accounted for in the pass that only takes its message. *)
Settled_Early(i) == i \notin Started \/ state[i] = "exit"
(* A pass of ascii_update() that meets a message takes it, and looks at the *)
(* slot in the next pass.                                                    *)
Settled(i) == i \notin Started \/ (state[i] = "exit" /\ ~msg[i])

Outcome(i) == IF i \notin Started THEN (IF msg[i] THEN "not_started" ELSE told[i])
              ELSE IF state[i] # "exit" \/ msg[i] THEN told[i]
              ELSE IF exit_status[i] = 0 THEN "done" ELSE "error"

ShowVerbose ==
  /\ place = "show" /\ job.cmd # "file" /\ job.display = "v"
  /\ told' = [i \in Cards |-> IF i \in Slots THEN Outcome(i) ELSE told[i]]
  /\ msg' = [i \in Cards |-> FALSE]
  /\ place' = IF \A i \in Slots : Settled(i) THEN "combine" ELSE "scan"
  /\ at' = 1
  /\ UNCHANGED <<job, proc, status, child, pipe, state, bad, exit_status, done, result>>

(* The version of a file needs no card: poll_std_out_err() reads the rest   *)
(* and reaps the child, unless set_state() did: then "status" stays         *)
(* uninitialised.                                                            *)
PollFile ==
  /\ place = "show" /\ job.cmd = "file"
  /\ proc[1] \in {"zombie", "reaped"}
  /\ pipe' = [pipe EXCEPT ![1] = <<>>]
  /\ proc' = [proc EXCEPT ![1] = "reaped"]
  /\ \E s \in IF proc[1] = "reaped" THEN {-1, 0, 1}
              ELSE {IF status[1] = Killed THEN -1 ELSE status[1]} :
       exit_status' = [exit_status EXCEPT ![1] = s]
  /\ place' = "combine" /\ at' = 1
  /\ UNCHANGED <<job, status, child, state, bad, msg, done, told, result>>

PollRead ==
  /\ place = "show" /\ job.cmd = "file" /\ pipe[1] # <<>>
  /\ pipe' = [pipe EXCEPT ![1] = <<>>]
  /\ UNCHANGED <<job, place, at, proc, status, child, slots, result>>

-------------------------------------------------------------------------------
(* The exit code.                                                            *)

(* Mutant: the last card decides. *)
Combined_Last(i) == IF i \notin Started THEN 1 ELSE exit_status[i]
(* The first code that is not 0 stays, but for a card without a session.    *)
Combined(i) == IF i \notin Started THEN 1
               ELSE IF ret = 0 THEN exit_status[i] ELSE ret

(* Mutant: what was updated does not matter. *)
Updated_Started(i) == i \in Started
Updated(i) == i \in Started /\ exit_status[i] \in {0, FLASH_UPDATED}

CombineSlot ==
  /\ place = "combine" /\ at \in Slots
  /\ at' = at + 1
  /\ ret' = Combined(at)
  /\ n_done' = IF Updated(at) THEN n_done + 1 ELSE n_done
  /\ UNCHANGED <<job, place, proc, status, child, pipe, slots, advice>>

CombineDone ==
  /\ place = "combine" /\ at \notin Slots
  /\ place' = "ended"
  /\ advice' = (cmd_update /\ n_done # 0 /\ ~job.noreboot)
  /\ UNCHANGED <<job, at, proc, status, child, pipe, slots, ret, n_done>>

(* mpssflash: the first child that ended with a code other than 0.           *)
Waited(s) == IF ret = 0 /\ s # Killed THEN s ELSE ret

Wait ==
  /\ place = "wait"
  /\ \E i \in Started :
       /\ proc[i] = "zombie"
       /\ proc' = [proc EXCEPT ![i] = "reaped"]
       /\ ret' = Waited(status[i])
  /\ UNCHANGED <<job, place, at, status, child, pipe, slots, n_done,
                 advice>>

WaitDone ==
  /\ place = "wait" /\ \A i \in Started : proc[i] = "reaped"
  /\ place' = "ended"
  /\ UNCHANGED <<job, at, proc, status, child, pipe, slots, result>>

Parent == \/ Refuse \/ StartSlot \/ StartDone
          \/ ReadLine \/ PassOver \/ Reap \/ ScanDone
          \/ Show \/ ShowTooSoon \/ ShowVerbose \/ PollRead \/ PollFile
          \/ CombineSlot \/ CombineDone
          \/ Wait \/ WaitDone

Next == Parent \/ \E i \in Cards : Child(i)

Spec == Init /\ [][Next]_vars

(* Processes are scheduled, and while a front end asks again and again four *)
(* seconds go by.                                                            *)
Fairness == /\ WF_vars(Parent) /\ \A i \in Cards : WF_vars(Child(i))
            /\ SF_vars(ShowVerbose)

FairSpec == Spec /\ Fairness

-------------------------------------------------------------------------------
(* Properties. *)

Lines == Ops \cup {"exec", "reset", "ERROR"}

(* The types; a pipe holds at most one line more than fits, the one its     *)
(* writer waits with.                                                        *)
TypeOK ==
  /\ job \in Jobs
  /\ place \in {"start", "scan", "show", "combine", "wait", "ended"}
  /\ at \in 1..N + 1
  /\ proc \in [Cards -> {"none", "running", "zombie", "reaped"}]
  /\ status \in [Cards -> {Running, Killed} \cup 0..10]
  /\ round \in [Cards -> 0..2]
  /\ phase \in [Cards -> {"quiet", "read", "update", "smc", "result", "reset"}]
  /\ err \in [Cards -> BOOLEAN]
  /\ code \in [Cards -> {Running, Killed} \cup 0..10]
  /\ \A i \in Cards : /\ pipe[i] \in Seq(Lines)
                      /\ Len(pipe[i]) <= PipeSize + 1
  /\ begun \in [Cards -> SUBSET (Lines \ {"ERROR"})]
  /\ failed \in [Cards -> SUBSET (Lines \cup {"quiet"})]
  /\ state \in [Cards -> {"init", "exit"} \cup (Lines \ {"ERROR"})]
  /\ bad \in [Cards -> SUBSET Ops]
  /\ exit_status \in [Cards -> -1..10]
  /\ msg \in [Cards -> BOOLEAN]
  /\ done \in [Cards -> SUBSET Ops]
  /\ told \in [Cards -> {"nothing", "not_started", "done", "error"}]
  /\ ret \in -1..10 /\ n_done \in 0..N /\ advice \in BOOLEAN

(* The last session of the card ran to its end without a failure.           *)
Succeeded(i) == i \in Started /\ round[i] = 2 /\ code[i] = 0
(* The session was killed and nothing above it noticed.                      *)
Lost(i) == i \in Started /\ ~job.boot /\ code[i] = Killed
(* set_state() reaped the child that poll_std_out_err() waits for.           *)
Snatched == job.cmd = "file" /\ Piped /\ state[1] = "exit"

(* What the exit code is worth: 0 means that every card's session succeeded *)
(* or was killed (and with mpssflash, or was never started); another code   *)
(* means that some card's did not succeed.                                   *)
ExitExplained ==
  place = "ended" /\ Started # {} /\ ~Snatched =>
    /\ ret = 0 => \A i \in Slots : \/ Succeeded(i) \/ Lost(i)
                                   \/ ~Piped /\ i \notin Started
    /\ ret # 0 => \E i \in Slots : ~Succeeded(i)

(* A front end leaves no child behind, running or dead, and nothing that a  *)
(* child printed unread.                                                     *)
NothingLeft ==
  place = "ended" => \A i \in Cards : /\ proc[i] \in {"none", "reaped"}
                                      /\ pipe[i] = <<>>

(* Whether the front end, and a child, has a step to take: a front end that *)
(* waits for a child has one when the child is dead, a child has none while *)
(* its last line does not fit into the pipe.                                *)
ParentMoves ==
  \/ place \in {"start", "combine"}
  \/ place = "scan" /\ (at \in Started /\ state[at] # "exit"
                          => pipe[at] # <<>> \/ proc[at] \in {"running", "zombie"})
  \/ place = "show" /\ (job.cmd = "file"
                          => pipe[1] # <<>> \/ proc[1] \in {"zombie", "reaped"})
  \/ place = "wait" /\ \/ \E i \in Started : proc[i] = "zombie"
                       \/ \A i \in Started : proc[i] = "reaped"

ChildMoves(i) == Awake(i) /\ (round[i] = 0 \/ code[i] = Running \/ job.boot)

(* Until the front end ends, it or a child that it started can go on: it    *)
(* never waits for a child that waits for it to empty a pipe, and it never  *)
(* comes back to a child that it has already waited for.                    *)
NobodyStuck == place # "ended" => ParentMoves \/ \E i \in Started : ChildMoves(i)

(* "... done" is shown for exactly the operations that the card's session    *)
(* began and left without an error, although announcements, errors and the  *)
(* end of the session arrive through one pipe long after the fact.  A       *)
(* session that is killed has left its last operation, too.                 *)
DoneReports ==
  \A i \in Slots :
    state[i] = "exit" /\ ~job.boot => done[i] = (begun[i] \cap Ops) \ failed[i]

(* -v: every card's outcome was told before the tool ends, a success only   *)
(* of a session that succeeded (or was killed).                              *)
OutcomeTold ==
  place = "ended" /\ Piped /\ job.cmd # "file" /\ job.display = "v" =>
    \A i \in Started : told[i] = IF Succeeded(i) \/ Lost(i) THEN "done" ELSE "error"

(* The user is told to restart the host exactly when an update changed the  *)
(* flash of some card, or when a session was killed at an unknown point.    *)
AdviceMatches ==
  place = "ended" /\ Piped /\ Started # {} =>
    advice = (/\ cmd_update /\ ~job.noreboot
              /\ \E i \in Slots : \/ Succeeded(i) \/ Lost(i)
                                  \/ i \in Started /\ code[i] = FLASH_UPDATED)

(* The manual of both tools: "exits with status 0 if the operation succeeds *)
(* on all specified devices" (and only then: "otherwise, ...").             *)
ZeroMeansAll == place = "ended" /\ ret = 0 => \A i \in Slots : Succeeded(i)

(* However slowly a child prints, and however full its pipe is, the front   *)
(* end ends.                                                                 *)
Termination == <>(place = "ended")
===============================================================================
