-------------------------------- MODULE EccOps --------------------------------
(***************************************************************************)
(* micsmc --ecc enable|disable (apps/micsmc/micsmc_cli.cpp): the main      *)
(* thread, one operation thread per work area, and the status thread that  *)
(* counts completed operations under a mutex and a condition variable      *)
(* (or, with --verbose, polls the work areas).                             *)
(***************************************************************************)
EXTENDS Integers, FiniteSets

CONSTANTS Areas,    \* the work areas, one per device named on the command line
          Cards,    \* the cards; the same card may be named twice
          CardOf,   \* the card of each work area
          Modes     \* with --verbose, without it, or both

ASSUME EccAssumption ==
  /\ IsFiniteSet(Areas) /\ Areas # {} /\ {"free", "status"} \cap Areas = {}
  /\ CardOf \in [Areas -> Cards]
  /\ Modes \in SUBSET BOOLEAN

VARIABLES
  verbose,       \* --verbose was given
  main,          \* where the main thread is
  helping,       \* the areas main had to finish itself: no thread was created
  pc,            \* where each operation thread is
  step, type,    \* step_ and status_msg_type_ of each work area
  op_complete, op_threads_done, at_least_one_success,   \* the master work area
  mtx,           \* the owner of op_complete_mtx_
  status,        \* where the status thread is
  shown,         \* how many "k of n complete" lines it has printed
  unread,        \* the areas the verbose status thread still has to look at
  exit_code, restart,   \* exit_code_; the message to restart the cards
  card, ecc,     \* the state of each card and of its ECC operation
  entered, left,   \* the areas that took their card to maintenance mode, and
                   \* those that gave it back (history)
  trusted, changed \* the areas that took 100 percent of an operation still in
                   \* progress for its end, and those that reset their card
                   \* after the operation had completed (history)

master == <<op_complete, op_threads_done, at_least_one_success, mtx>>
watch  == <<status, shown, unread>>
result == <<exit_code, restart>>
board  == <<card, ecc>>
past   == <<entered, left, trusted, changed>>
vars   == <<verbose, main, helping, pc, step, type, master, watch, result, board, past>>

N == Cardinality(Areas)

Init ==
  /\ verbose \in Modes
  /\ main = "status" /\ helping = {}
  /\ pc = [a \in Areas |-> "new"]
  /\ step = [a \in Areas |-> "START"] /\ type = [a \in Areas |-> "INFO"]
  /\ op_complete = 0 /\ op_threads_done = 0 /\ at_least_one_success = FALSE
  /\ mtx = "free"
  /\ status = "off" /\ shown = 0 /\ unread = {}
  /\ exit_code = 0 /\ restart = FALSE
  /\ card \in [Cards -> {"ready", "online"}]
  /\ ecc = [c \in Cards |-> "none"]
  /\ entered = {} /\ left = {} /\ trusted = {} /\ changed = {}

-------------------------------------------------------------------------------
(* An operation thread: ecc_set_op_thread().                                 *)

Go(a, p) == pc' = [pc EXCEPT ![a] = p]

(* next_step() *)
NextStep(a, s, p) ==
  /\ step' = [step EXCEPT ![a] = s]
  /\ type' = [type EXCEPT ![a] = "INFO"]
  /\ Go(a, p)

(* Mutant: an area that failed while resetting is counted again. *)
NeedToSignal_Late(a) == step[a] \in {"START", "ENTER_MAINT", "SET_ECC", "RESET"}
(* step_ < ECC_OP_RESET *)
NeedToSignal(a) == step[a] \in {"START", "ENTER_MAINT", "SET_ECC"}

(* finish_with_msg() up to the signals: the areas that have not yet been    *)
(* counted are, as failures.                                                 *)
FinishWithMsg(a, t) ==
  /\ step' = [step EXCEPT ![a] = "FINISH"]
  /\ type' = [type EXCEPT ![a] = t]
  /\ Go(a, IF NeedToSignal(a) THEN "lock" ELSE "done")

(* The device is opened and must be in ready state.                          *)
Begin(a) ==
  /\ pc[a] = "start"
  /\ \/ card[CardOf[a]] = "ready" /\ NextStep(a, "ENTER_MAINT", "enter")
     \/ FinishWithMsg(a, "ERROR")
  /\ UNCHANGED <<verbose, main, helping, master, watch, result, board, past>>

(* Maintenance mode is requested; only a card in ready state may enter it.  *)
EnterMaint(a) ==
  /\ pc[a] = "enter"
  /\ \/ /\ card[CardOf[a]] = "ready"
        /\ card' = [card EXCEPT ![CardOf[a]] = "booting"]
        /\ entered' = entered \cup {a}
        /\ NextStep(a, "SET_ECC", "set")
     \/ FinishWithMsg(a, "ERROR") /\ UNCHANGED <<card, entered>>
  /\ UNCHANGED <<verbose, main, helping, master, watch, result, ecc, left,
                 trusted, changed>>

(* micsmc_helper::set_ecc_mode(): the operation is started without waiting  *)
(* for the card to arrive in maintenance mode.                               *)
SetEcc(a) ==
  /\ pc[a] = "set"
  /\ \/ /\ ecc' = [ecc EXCEPT ![CardOf[a]] = "running"]
        /\ Go(a, "poll") /\ UNCHANGED <<step, type>>
     \/ FinishWithMsg(a, "ERROR") /\ UNCHANGED ecc
  /\ UNCHANGED <<verbose, main, helping, master, watch, result, card, past>>

(* Mutant: the percentage is not looked at. *)
Complete_Blind(a) == ecc[CardOf[a]] # "none"
(* wait_for_flash_op() returns true: 100 percent, whatever the status is.    *)
Complete(a) == ecc[CardOf[a]] \in {"full", "completed"}

(* Otherwise it throws, when the status cannot be read or time is up.        *)
PollEcc(a) ==
  /\ pc[a] = "poll"
  /\ \/ /\ Complete(a)
        /\ at_least_one_success' = TRUE
        /\ trusted' = IF ecc[CardOf[a]] = "full" THEN trusted \cup {a} ELSE trusted
        /\ Go(a, "lock") /\ UNCHANGED <<step, type>>
     \/ FinishWithMsg(a, "ERROR") /\ UNCHANGED <<at_least_one_success, trusted>>
  /\ UNCHANGED <<verbose, main, helping, op_complete, op_threads_done, mtx,
                 watch, result, board, entered, left, changed>>

(* signal_ecc_op_complete(): op_complete_mtx_->lock() ...                    *)
Lock(a) ==
  /\ pc[a] = "lock"
  /\ mtx = "free" /\ mtx' = a
  /\ Go(a, "signal")
  /\ UNCHANGED <<verbose, main, helping, step, type, op_complete,
                 op_threads_done, at_least_one_success, watch, result, board,
                 past>>

(* Mutant: the status thread is not woken. *)
SignalOne_Lost == UNCHANGED status
(* op_complete_cv_->signal_one() *)
SignalOne == status' = IF status = "waiting" THEN "woken" ELSE status

Signal(a) ==
  /\ pc[a] = "signal"
  /\ op_complete' = op_complete + 1
  /\ SignalOne
  /\ Go(a, "unlock")
  /\ UNCHANGED <<verbose, main, helping, step, type, op_threads_done,
                 at_least_one_success, mtx, shown, unread, result, board,
                 past>>

(* ... unlock(); a successful operation goes on to the reset.                *)
Unlock(a) ==
  /\ pc[a] = "unlock"
  /\ mtx' = "free"
  /\ IF step[a] = "FINISH" THEN Go(a, "done") /\ UNCHANGED <<step, type>>
                           ELSE NextStep(a, "RESET", "leave")
  /\ UNCHANGED <<verbose, main, helping, op_complete, op_threads_done,
                 at_least_one_success, watch, result, board, past>>

LeaveMaint(a) ==
  /\ pc[a] = "leave"
  /\ \/ /\ card' = [card EXCEPT ![CardOf[a]] = "resetting"]
        /\ ecc' = [ecc EXCEPT ![CardOf[a]] = "none"]
        /\ left' = left \cup {a}
        /\ changed' = IF ecc[CardOf[a]] = "completed" THEN changed \cup {a}
                                                      ELSE changed
        /\ Go(a, "wait") /\ UNCHANGED <<step, type>>
     \/ FinishWithMsg(a, "ERROR") /\ UNCHANGED <<board, left, changed>>
  /\ UNCHANGED <<verbose, main, helping, master, watch, result, entered, trusted>>

(* wait_for_ready_state(): the card is ready, or is not when time is up, or *)
(* its state cannot be read.                                                 *)
WaitReady(a) ==
  /\ pc[a] = "wait"
  /\ \/ card[CardOf[a]] = "ready" /\ FinishWithMsg(a, "INFO")
     \/ card[CardOf[a]] # "ready" /\ FinishWithMsg(a, "WARNING")
     \/ FinishWithMsg(a, "ERROR")
  /\ UNCHANGED <<verbose, main, helping, master, watch, result, board, past>>

(* signal_thread_done(), under a mutex of its own, and thread_exit().        *)
ThreadDone(a) ==
  /\ pc[a] = "done"
  /\ op_threads_done' = op_threads_done + 1
  /\ Go(a, "exited")
  /\ UNCHANGED <<verbose, main, helping, step, type, op_complete,
                 at_least_one_success, mtx, watch, result, board, past>>

OpThread(a) ==
  \/ Begin(a) \/ EnterMaint(a) \/ SetEcc(a) \/ PollEcc(a) \/ Lock(a) \/ Signal(a)
  \/ Unlock(a) \/ LeaveMaint(a) \/ WaitReady(a) \/ ThreadDone(a)

-------------------------------------------------------------------------------
(* The status thread: ecc_status_thread().                                   *)

StatusLock ==
  /\ status = "start"
  /\ mtx = "free" /\ mtx' = "status"
  /\ status' = "check"
  /\ UNCHANGED <<verbose, main, helping, pc, step, type, op_complete,
                 op_threads_done, at_least_one_success, shown, unread,
                 result, board, past>>

(* while (!all_ops_complete()) wait, which gives the mutex up; at the end    *)
(* the mutex is unlocked.                                                    *)
StatusCheck ==
  /\ status = "check"
  /\ status' = IF op_complete >= N THEN "exited" ELSE "waiting"
  /\ mtx' = "free"
  /\ UNCHANGED <<verbose, main, helping, pc, step, type, op_complete,
                 op_threads_done, at_least_one_success, shown, unread,
                 result, board, past>>

(* A condition variable may wake its waiter for no reason.                   *)
SpuriousWakeup ==
  /\ status = "waiting"
  /\ status' = "woken"
  /\ UNCHANGED <<verbose, main, helping, pc, step, type, master, shown,
                 unread, result, board, past>>

(* for (; complete <= get_op_complete(); complete++) *)
ShowComplete == shown' = op_complete

StatusShow ==
  /\ status = "woken"
  /\ mtx = "free" /\ mtx' = "status"
  /\ ShowComplete
  /\ status' = "check"
  /\ UNCHANGED <<verbose, main, helping, pc, step, type, op_complete,
                 op_threads_done, at_least_one_success, unread, result,
                 board, past>>

AllThreadsDone == op_threads_done >= N

(* ecc_verbose_status_thread(): until all threads are done, the message of  *)
(* every area is shown; an error message sets the exit code.                 *)
VerboseCheck ==
  /\ status = "verbose"
  /\ IF AllThreadsDone THEN status' = "exited" /\ UNCHANGED unread
                             ELSE status' = "reading" /\ unread' = Areas
  /\ UNCHANGED <<verbose, main, helping, pc, step, type, master, shown,
                 result, board, past>>

VerboseRead(a) ==
  /\ status = "reading" /\ a \in unread
  /\ unread' = unread \ {a}
  /\ exit_code' = IF type[a] = "ERROR" THEN 1 ELSE exit_code
  /\ status' = IF unread' = {} THEN "verbose" ELSE status
  /\ UNCHANGED <<verbose, main, helping, pc, step, type, master, shown,
                 restart, board, past>>

StatusThread == \/ StatusLock \/ StatusCheck \/ StatusShow \/ VerboseCheck
                \/ \E a \in Areas : VerboseRead(a)

-------------------------------------------------------------------------------
(* The main thread: perform_ecc_set().                                       *)

SpawnStatus ==
  /\ main = "status"
  /\ \/ /\ main' = "spawn" /\ UNCHANGED exit_code
        /\ status' = IF verbose THEN "verbose" ELSE "start"
     \/ /\ main' = "ended" /\ exit_code' = 1
        /\ UNCHANGED status
  /\ UNCHANGED <<verbose, helping, pc, step, type, master, shown, unread,
                 restart, board, past>>

(* The main thread is not in the middle of finishing an area.                *)
Free == \A a \in helping : pc[a] = "exited"

(* An area whose thread cannot be created is finished by the main thread.    *)
SpawnOp(a) ==
  /\ main = "spawn" /\ Free
  /\ pc[a] = "new"
  /\ \/ Go(a, "start") /\ UNCHANGED <<step, type, helping>>
     \/ FinishWithMsg(a, "ERROR") /\ helping' = helping \cup {a}
  /\ UNCHANGED <<verbose, main, master, watch, result, board, past>>

(* Mutant: the operation threads are not joined. *)
AllJoined_Status == status = "exited"
AllJoined == status = "exited" /\ \A a \in Areas : pc[a] = "exited"

Join ==
  /\ main = "spawn" /\ Free
  /\ \A a \in Areas : pc[a] # "new"
  /\ AllJoined
  /\ main' = "report"
  /\ UNCHANGED <<verbose, helping, pc, step, type, master, watch, result,
                 board, past>>

(* The final status of every area, and the message to restart the cards.     *)
Report ==
  /\ main = "report"
  /\ main' = "ended"
  /\ exit_code' = IF \E a \in Areas : type[a] = "ERROR" THEN 1 ELSE exit_code
  /\ restart' = at_least_one_success
  /\ UNCHANGED <<verbose, helping, pc, step, type, master, watch, board,
                 past>>

MainThread == SpawnStatus \/ Join \/ Report \/ \E a \in Areas : SpawnOp(a)

-------------------------------------------------------------------------------
(* The cards and the driver (external).                                      *)

CardStep(c) ==
  /\ \/ card[c] = "booting"   /\ card' = [card EXCEPT ![c] = "maint"]
     \/ card[c] = "resetting" /\ card' = [card EXCEPT ![c] = "ready"]
  /\ UNCHANGED <<verbose, main, helping, pc, step, type, master, watch,
                 result, ecc, past>>

(* The driver may report 100 percent while the operation is in progress.     *)
EccStep(c) ==
  /\ \/ ecc[c] = "running" /\ ecc' = [ecc EXCEPT ![c] = "full"]
     \/ /\ ecc[c] \in {"running", "full"}
        /\ \E r \in {"completed", "failed"} : ecc' = [ecc EXCEPT ![c] = r]
  /\ UNCHANGED <<verbose, main, helping, pc, step, type, master, watch,
                 result, card, past>>

Next == \/ MainThread \/ StatusThread \/ SpuriousWakeup
        \/ \E a \in Areas : OpThread(a)
        \/ \E c \in Cards : CardStep(c) \/ EccStep(c)

Spec == Init /\ [][Next]_vars

(* Every thread is scheduled, and gets a mutex that is free again and again. *)
FairSpec ==
  /\ Spec
  /\ WF_vars(MainThread) /\ WF_vars(StatusThread)
  /\ SF_vars(StatusLock) /\ SF_vars(StatusShow)
  /\ \A a \in Areas : WF_vars(OpThread(a)) /\ SF_vars(Lock(a))

-------------------------------------------------------------------------------
(* Properties.                                                               *)

OpPcs == {"new", "start", "enter", "set", "poll", "lock", "signal", "unlock",
          "leave", "wait", "done", "exited"}
Steps == {"START", "ENTER_MAINT", "SET_ECC", "RESET", "FINISH"}
StatusPcs == {"off", "start", "check", "waiting", "woken", "verbose", "reading",
              "exited"}

(* The type of every variable; the counters never pass the number of areas. *)
TypeOK ==
  /\ verbose \in BOOLEAN
  /\ main \in {"status", "spawn", "report", "ended"} /\ helping \subseteq Areas
  /\ pc \in [Areas -> OpPcs]
  /\ step \in [Areas -> Steps] /\ type \in [Areas -> {"INFO", "WARNING", "ERROR"}]
  /\ op_complete \in 0..N /\ op_threads_done \in 0..N
  /\ at_least_one_success \in BOOLEAN
  /\ mtx \in Areas \cup {"free", "status"}
  /\ status \in StatusPcs /\ shown \in 0..N /\ unread \subseteq Areas
  /\ exit_code \in {0, 1} /\ restart \in BOOLEAN
  /\ card \in [Cards -> {"ready", "online", "booting", "maint", "resetting"}]
  /\ ecc \in [Cards -> {"none", "running", "full", "completed", "failed"}]
  /\ {entered, left, trusted, changed} \subseteq SUBSET Areas

(* The areas whose operation has been counted, whose thread is over.         *)
Counted == {a \in Areas : pc[a] \in {"unlock", "leave", "wait", "done", "exited"}}
Exited  == {a \in Areas : pc[a] = "exited"}

(* Both counters are exact: each area is counted once as an operation, be it *)
(* from next_step() or from finish_with_msg(), and once as a thread.         *)
CountExact ==
  /\ op_complete = Cardinality(Counted)
  /\ op_threads_done = Cardinality(Exited)

(* The status thread never sleeps through the last signal: when it waits, an *)
(* operation is still to be signalled.                                       *)
NoLostWakeup == status = "waiting" => op_complete < N

(* Whether the main thread, the status thread or an operation thread has a  *)
(* step to take; a thread that waits for the mutex, the condition variable  *)
(* or the end of another thread has none.                                   *)
MainMoves ==
  \/ main \in {"status", "report"}
  \/ main = "spawn" /\ Free /\ ((\E a \in Areas : pc[a] = "new") \/ AllJoined)
StatusMoves ==
  \/ status \in {"check", "verbose"} \/ (status = "reading" /\ unread # {})
  \/ status \in {"start", "woken"} /\ mtx = "free"
OpMoves(a) == pc[a] \notin {"new", "exited"} /\ (pc[a] = "lock" => mtx = "free")

(* Until the command ends some thread can go on, without a spurious wakeup, *)
(* whatever the cards do.                                                   *)
NobodyStuck == main # "ended" => MainMoves \/ StatusMoves \/ \E a \in Areas : OpMoves(a)

(* The progress display shows every completion or, when all of them were     *)
(* signalled before the status thread first took the mutex, none.            *)
AllOrNothing == ~verbose /\ status = "exited" => shown \in {0, N}

(* An exit code of 0 means that every area has reset its card after the      *)
(* operation that changes its ECC mode had completed or, as the code accepts *)
(* 100 percent for its end, while it was reported at 100 percent; whoever    *)
(* has reset a card is told to restart it; a card left behind in maintenance *)
(* mode belongs to an area reported as an error.                             *)
ExitHonest ==
  main = "ended" =>
    /\ exit_code = 0 => left = Areas /\ Areas = changed \cup trusted
    /\ left # {} => restart
    /\ \A a \in entered \ left : type[a] = "ERROR"

(* A card is reset only when its ECC operation has completed; or when the    *)
(* area that resets it, and no other, took 100 percent for the end of it, and *)
(* the operation may then still be in progress, or have failed.             *)
NoResetUnderEcc ==
  [][\A c \in Cards : card[c] # "resetting" /\ card'[c] = "resetting" =>
       \/ ecc[c] = "completed"
       \/ /\ ecc[c] \in {"full", "failed"}
          /\ \E a \in trusted : pc[a] = "leave" /\ CardOf[a] = c]_board

(* The command ends, whatever the cards do and whichever threads could not   *)
(* be created.                                                               *)
Termination == <>(main = "ended")

(* A card taken to maintenance mode is given back before the command ends.   *)
WellBehaved == main = "ended" => entered = left
===============================================================================
