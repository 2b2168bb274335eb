----------------------------- MODULE ImageChoice -----------------------------
(***************************************************************************)
(* How the front ends choose the image each card is updated with, and      *)
(* start the sessions: start_cmd(), get_update_image(), find_image() and   *)
(* check_image() of apps/mpssflash/micflash.c and mpssflash.c, with the    *)
(* "check" command of flash1.c that they run in a process of its own.      *)
(***************************************************************************)
EXTENDS Integers

CONSTANTS N,       \* cards that a command line names
          Devices, \* cards there are
          Jobs,    \* the command lines and directories explored: subset of Job
          NFiles,  \* files in the directory
          MaxFds   \* most file descriptors that the process may have open

(* The files of the directory in alphabetical order.                         *)
Files == 1..NFiles

(* The places of the list of cards, each with a slot of procinfo.            *)
Slots == 1..N

(* What a file is, and the cards whose PCI ids a flash image is made for.    *)
Image == [kind : {"flash", "smc", "junk"}, fits : SUBSET Devices]

Job == [tool : {"micflash", "mpssflash"},
        path : {"directory", "file", "bare_file"},
                         \* a directory, or the default one; a file in it
                         \* with the directory in its name, a file without
        named : Files,   \* the file named
        files : [Files -> Image],
        device : [Slots -> Devices],  \* a list may name a card twice
        spare : 1..MaxFds]            \* descriptors the process may open

ASSUME ImageAssumption ==
  /\ N \in Nat \ {0} /\ NFiles \in Nat \ {0} /\ MaxFds \in Nat \ {0}
  /\ Jobs \subseteq Job

VARIABLES
  job,
  running,   \* the process that acts: the tool, or a copy of it that a check
             \* became, for which the tool waits
  at, slot,  \* where each of them is, and the slot of procinfo it works on
  file,      \* the file it checks
  cut,       \* the path has been cut to its directory
  res,       \* what the last check returned
  blind,     \* that check did not run (history)
  session,   \* the sessions each of them has started, by slot
  fds,       \* pipes that are open
  ret,       \* exit codes
  faults     \* what failed: a check that would have found a good image, or
             \* (file 0) the rest of a slot's turn (history)

vars == <<job, running, at, slot, file, cut, res, blind, session, fds, ret, faults>>

Procs == {"tool", "clone"}
Piped == job.tool = "micflash"

(* A session: the image, whether it was accepted without a check, its exit  *)
(* code and who has waited for it.                                           *)
NoSession == [file |-> 0, blind |-> FALSE, code |-> 0, waited |-> "no"]
Running == -1
Killed  == -2

Started(p) == {i \in Slots : session[p][i].file # 0 /\ session[p][i].waited # "popen2"}
Waiting(p) == {i \in Started(p) : session[p][i].waited = "no"}
Ended(p)   == {i \in Waiting(p) : session[p][i].code # Running}

Init ==
  /\ job \in Jobs
  /\ running = "tool"
  /\ at = [p \in Procs |-> IF p = "tool" THEN "slot" ELSE "none"]
  /\ slot = [p \in Procs |-> 1]
  /\ file = [p \in Procs |-> 0]
  /\ cut = [p \in Procs |-> FALSE]
  /\ res = [p \in Procs |-> 0]
  /\ blind = [p \in Procs |-> FALSE]
  /\ session = [p \in Procs |-> [i \in Slots |-> NoSession]]
  /\ fds = 0
  /\ ret = [p \in Procs |-> 0]
  /\ faults = {}

Set(f, p, v) == [f EXCEPT ![p] = v]
Blame(p, f)  == faults' = faults \cup {<<p, slot[p], f>>}

(* The turn of this slot is over.                                            *)
NextSlot(p) == at' = Set(at, p, "slot") /\ slot' = Set(slot, p, slot[p] + 1)

-------------------------------------------------------------------------------
(* The "check" command: flash_check() and verify_image().                    *)

(* An image without a flash part says nothing of the cards it is for: it is *)
(* good only where the file was named (--smcok).                             *)
Good(f, i, smc_ok) ==
  \/ job.files[f].kind = "flash" /\ job.device[i] \in job.files[f].fits
  \/ job.files[f].kind = "smc" /\ smc_ok

IsNamed(p) == job.path \in {"file", "bare_file"} /\ ~cut[p]
IsGood(p)  == Good(file[p], slot[p], at[p] = "named")

-------------------------------------------------------------------------------
(* get_update_image(): which file is looked at.                              *)

Look(p) ==
  /\ at[p] = "slot" /\ slot[p] \in Slots
  /\ \/ /\ IsNamed(p)
        /\ at' = Set(at, p, "named") /\ file' = Set(file, p, job.named)
        /\ UNCHANGED <<slot, faults>>
     \/ /\ ~IsNamed(p) /\ fds < job.spare
        /\ at' = Set(at, p, "search")
        /\ file' = Set(file, p, NFiles)
        /\ UNCHANGED <<slot, faults>>
     \/ ~IsNamed(p) /\ fds = job.spare /\ NextSlot(p) /\ UNCHANGED <<file, faults>>
     \/ NextSlot(p) /\ Blame(p, 0) /\ UNCHANGED file
  /\ UNCHANGED <<job, running, cut, res, blind, session, fds, ret>>

-------------------------------------------------------------------------------
(* check_image(): the check runs in a process of its own.                    *)

Checking(p) == at[p] \in {"named", "search"}

(* Mutant: pipe() is taken to succeed. *)
CanPipe_Always == TRUE
(* popen2() needs two pipes; check_image() of micflash never closes the ends *)
(* that it reads.                                                            *)
CanPipe == ~Piped \/ fds + 4 <= job.spare
Leak    == fds' = IF Piped THEN fds + 2 ELSE fds

Returns(p, r) == at' = Set(at, p, IF at[p] = "named" THEN "judge_named" ELSE "judge")
                 /\ res' = Set(res, p, r)

(* The check ends by itself or is killed. It may fail on an image that is    *)
(* good, for want of memory or because the card cannot be opened.            *)
CheckEnds(p) ==
  /\ Checking(p) /\ CanPipe
  /\ \/ IsGood(p) /\ Returns(p, 0) /\ UNCHANGED faults
     \/ ~IsGood(p) /\ Returns(p, 1) /\ UNCHANGED faults
     \/ IsGood(p) /\ Returns(p, 1) /\ Blame(p, file[p])
     \/ Returns(p, IF Piped THEN -1 ELSE 1) /\ Blame(p, file[p])
  /\ Leak
  /\ blind' = Set(blind, p, FALSE)
  /\ UNCHANGED <<job, running, slot, file, cut, session, ret>>

(* micflash cannot start the check: too many pipes are open, or fork() or    *)
(* fdopen() fails once the pipes are there.                                  *)
CheckNotStarted(p) ==
  /\ Checking(p) /\ Piped
  /\ Returns(p, -1)
  /\ \/ ~CanPipe /\ UNCHANGED <<fds, faults>>
     \/ CanPipe /\ fds' \in {fds, fds + 2} /\ Blame(p, file[p])
  /\ blind' = Set(blind, p, FALSE)
  /\ UNCHANGED <<job, running, slot, file, cut, session, ret>>

(* mpssflash does not look whether fork() has failed: waitpid(-1) takes the  *)
(* status of a session started for another card or, without one, leaves the *)
(* status as it was, uninitialized.                                          *)
CheckNotForked(p) ==
  /\ Checking(p) /\ ~Piped
  /\ \/ \E i \in Ended(p) :
          /\ Returns(p, IF session[p][i].code = Killed THEN 1 ELSE session[p][i].code)
          /\ session' = [session EXCEPT ![p][i].waited = "check"]
     \/ Waiting(p) = {} /\ (\E r \in {0, 1} : Returns(p, r)) /\ UNCHANGED session
  /\ blind' = Set(blind, p, TRUE)
  /\ Blame(p, file[p])
  /\ UNCHANGED <<job, running, slot, file, cut, fds, ret>>

(* A check of mpssflash that cannot be made quiet returns into the program: *)
(* a copy of the tool goes on with the remaining cards, while the tool waits *)
(* for its exit code. Here at most one check does (a bound).                 *)
CheckNotQuiet(p) ==
  /\ Checking(p) /\ ~Piped /\ p = "tool"
  /\ at["clone"] = "none"
  /\ at' = [q \in Procs |-> IF q = "tool" THEN at["tool"]
                            ELSE IF at["tool"] = "named" THEN "judge_named" ELSE "judge"]
  /\ res' = Set(res, "clone", -1)
  /\ running' = "clone"
  /\ slot' = Set(slot, "clone", slot["tool"])
  /\ file' = Set(file, "clone", file["tool"])
  /\ cut' = Set(cut, "clone", cut["tool"])
  /\ faults' = faults \cup {<<q, slot["tool"], file["tool"]>> : q \in Procs}
  /\ UNCHANGED <<job, blind, session, fds, ret>>

CloneExits ==
  /\ running = "clone" /\ at["clone"] = "exit"
  /\ running' = "tool"
  /\ at' = Set(at, "tool", IF at["tool"] = "named" THEN "judge_named" ELSE "judge")
  /\ res' = Set(res, "tool", ret["clone"])
  /\ blind' = Set(blind, "tool", TRUE)
  /\ UNCHANGED <<job, slot, file, cut, session, fds, ret, faults>>

-------------------------------------------------------------------------------
(* The verdict.                                                              *)

(* Mutant: micflash lets dirname() have its argument, too. *)
JudgeNamed_Cut(p) ==
  /\ at[p] = "judge_named"
  /\ IF res[p] = 0 THEN at' = Set(at, p, "start") /\ UNCHANGED slot ELSE NextSlot(p)
  /\ cut' = Set(cut, p, job.path = "file")
  /\ UNCHANGED <<job, running, file, res, blind, session, fds, ret, faults>>

(* A file that was named: dirname() cuts the argument of mpssflash itself,   *)
(* that of micflash in a copy.                                               *)
JudgeNamed(p) ==
  /\ at[p] = "judge_named"
  /\ IF res[p] = 0 THEN at' = Set(at, p, "start") /\ UNCHANGED slot ELSE NextSlot(p)
  /\ cut' = Set(cut, p, ~Piped /\ job.path = "file")
  /\ UNCHANGED <<job, running, file, res, blind, session, fds, ret, faults>>

(* Mutant: the search ends with the first file that is not good. *)
Judge_Stop(p) ==
  /\ at[p] = "judge"
  /\ \/ res[p] = 0 /\ at' = Set(at, p, "start") /\ UNCHANGED slot
     \/ res[p] # 0 /\ NextSlot(p)
  /\ UNCHANGED <<job, running, file, cut, res, blind, session, fds, ret, faults>>

(* find_image(): backwards through the directory, until a check says yes or  *)
(* could not be made.                                                        *)
Judge(p) ==
  /\ at[p] = "judge"
  /\ \/ res[p] = 0 /\ at' = Set(at, p, "start") /\ UNCHANGED <<slot, file>>
     \/ res[p] < 0 /\ NextSlot(p) /\ UNCHANGED file
     \/ /\ res[p] > 0 /\ file[p] > 1
        /\ at' = Set(at, p, "search")
        /\ file' = Set(file, p, file[p] - 1)
        /\ UNCHANGED slot
     \/ res[p] > 0 /\ file[p] = 1 /\ NextSlot(p) /\ UNCHANGED file
  /\ UNCHANGED <<job, running, cut, res, blind, session, fds, ret, faults>>

-------------------------------------------------------------------------------
(* start_cmd(): a session per slot.                                          *)

Forked(p, waited) ==
  session' = [session EXCEPT ![p][slot[p]] =
                [file |-> file[p], blind |-> blind[p], code |-> Running, waited |-> waited]]

Start(p) ==
  /\ at[p] = "start" /\ CanPipe
  /\ Forked(p, "no")
  /\ Leak
  /\ NextSlot(p)
  /\ UNCHANGED <<job, running, file, cut, res, blind, ret, faults>>

(* When fdopen() fails popen2() of micflash waits for the session that it    *)
(* has forked, and reports that there is none.                               *)
StartUnseen(p) ==
  /\ at[p] = "start" /\ Piped /\ CanPipe
  /\ Forked(p, "popen2")
  /\ fds' \in {fds, fds + 2}
  /\ at' = Set(at, p, "popen2")
  /\ Blame(p, 0)
  /\ UNCHANGED <<job, running, slot, file, cut, res, blind, ret>>

UnseenEnds(p) ==
  /\ at[p] = "popen2" /\ session[p][slot[p]].code # Running
  /\ NextSlot(p)
  /\ UNCHANGED <<job, running, file, cut, res, blind, session, fds, ret, faults>>

(* The arguments cannot be built, or the process not be created.             *)
StartFails(p) ==
  /\ at[p] = "start"
  /\ NextSlot(p)
  /\ \/ ~CanPipe /\ UNCHANGED <<fds, faults>>
     \/ Blame(p, 0) /\ UNCHANGED fds
     \/ CanPipe /\ Blame(p, 0) /\ Leak
  /\ UNCHANGED <<job, running, file, cut, res, blind, session, ret>>

(* micflash goes on to watch its sessions; mpssflash waits for them. A copy  *)
(* of the tool has counted the sessions the tool had started, too.           *)
Counted(p) == Started(p) \cup (IF p = "clone" THEN Started("tool") ELSE {})

AllTried(p) ==
  /\ at[p] = "slot" /\ slot[p] \notin Slots
  /\ IF Counted(p) = {}
     THEN at' = Set(at, p, "exit") /\ ret' = Set(ret, p, IF Piped THEN 8 ELSE 1)
     ELSE at' = Set(at, p, IF Piped THEN "watch" ELSE "wait") /\ UNCHANGED ret
  /\ UNCHANGED <<job, running, slot, file, cut, res, blind, session, fds, faults>>

Wait(p) ==
  /\ at[p] = "wait"
  /\ \E i \in Ended(p) :
       /\ session' = [session EXCEPT ![p][i].waited = "tool"]
       /\ ret' = IF ret[p] = 0 /\ session[p][i].code # Killed
                 THEN Set(ret, p, session[p][i].code) ELSE ret
  /\ UNCHANGED <<job, running, at, slot, file, cut, res, blind, fds, faults>>

(* Mutant: the sessions are not all waited for. *)
WaitDone_Early(p) ==
  /\ at[p] = "wait"
  /\ at' = Set(at, p, "exit")
  /\ UNCHANGED <<job, running, slot, file, cut, res, blind, session, fds, ret, faults>>

WaitDone(p) ==
  /\ at[p] = "wait" /\ Waiting(p) = {}
  /\ at' = Set(at, p, "exit")
  /\ UNCHANGED <<job, running, slot, file, cut, res, blind, session, fds, ret, faults>>

(* A session ends by itself or is killed.                                    *)
SessionEnds(p, i) ==
  /\ session[p][i].file # 0 /\ session[p][i].code = Running
  /\ \E c \in {0, 1, Killed} : session' = [session EXCEPT ![p][i].code = c]
  /\ UNCHANGED <<job, running, at, slot, file, cut, res, blind, fds, ret, faults>>

-------------------------------------------------------------------------------
Step(p) ==
  \/ Look(p) \/ CheckEnds(p) \/ CheckNotStarted(p) \/ CheckNotForked(p)
  \/ CheckNotQuiet(p) \/ JudgeNamed(p) \/ Judge(p)
  \/ Start(p) \/ StartUnseen(p) \/ UnseenEnds(p) \/ StartFails(p)
  \/ AllTried(p) \/ Wait(p) \/ WaitDone(p)

Next ==
  \/ Step(running)
  \/ CloneExits
  \/ \E p \in Procs, i \in Slots : SessionEnds(p, i)

Spec == Init /\ [][Next]_vars

-------------------------------------------------------------------------------
(* Properties.                                                               *)

Places == {"slot", "named", "search", "judge_named", "judge", "start", "popen2",
           "watch", "wait", "exit"}
Session == [file : Files \cup {0}, blind : BOOLEAN, code : {Running, Killed, 0, 1},
            waited : {"no", "check", "tool", "popen2"}]

(* The type of every variable.                                               *)
TypeOK ==
  /\ job \in Jobs
  /\ running \in Procs
  /\ at \in [Procs -> Places \cup {"none"}] /\ slot \in [Procs -> 1..(N + 1)]
  /\ file \in [Procs -> Files \cup {0}]
  /\ cut \in [Procs -> BOOLEAN] /\ blind \in [Procs -> BOOLEAN]
  /\ res \in [Procs -> {-1, 0, 1}] /\ ret \in [Procs -> {0, 1, 8}]
  /\ session \in [Procs -> [Slots -> Session]]
  /\ fds \in 0..job.spare
  /\ faults \subseteq Procs \X Slots \X (Files \cup {0})

NamedPath == job.path \in {"file", "bare_file"}

(* A card is given the file that was named or else the last file of the      *)
(* directory, by name, that is good for the card: a check has said so, and a *)
(* later file was passed over only when its check failed. mpssflash may take *)
(* another word than the check's, and searches for all cards but one after   *)
(* dirname() has cut its argument.                                           *)
ChosenIsRight ==
  \A p \in Procs, i \in Slots :
    LET s == session[p][i] IN
    s.file # 0 /\ (Piped \/ ~s.blind) =>
      \/ NamedPath /\ s.file = job.named /\ Good(s.file, i, TRUE)
      \/ /\ NamedPath => ~Piped /\ job.path = "file" /\ i > 1
         /\ Good(s.file, i, FALSE)
         /\ \A g \in Files : g > s.file /\ Good(g, i, FALSE) => <<p, i, g>> \in faults

(* Whether a card has an image to be given.                                  *)
HasImage(i) == IF NamedPath THEN Good(job.named, i, TRUE)
               ELSE \E f \in Files : Good(f, i, FALSE)

(* What dirname() does to mpssflash: a named file is looked for, for the     *)
(* cards after the first, by a search of its directory, which may hold no    *)
(* image that says which cards it is for.                                    *)
Misled(i) == cut["tool"] /\ i > 1 /\ \A f \in Files : ~Good(f, i, FALSE)

(* The checks for a card and its session cost micflash two descriptors each, *)
(* and two more are needed to start one of them.                             *)
Checks    == IF NamedPath THEN 1 ELSE NFiles
Cost      == 2 * Checks + 2
Enough(i) == Piped => i * Cost + 2 <= job.spare

(* A card that has an image goes without a session only in three cases:      *)
(* something failed in its own turn; micflash may not open the descriptors   *)
(* that it needs at most for this card and those before; or mpssflash was    *)
(* given a file by name, has cut the name for the cards after the first, and *)
(* the search that it then makes instead finds nothing.                      *)
NoneLeftOut ==
  at["tool"] \in {"watch", "wait", "exit"} =>
    \A i \in Slots :
      \/ session["tool"][i].file # 0
      \/ ~HasImage(i) \/ Misled(i)
      \/ \E f \in Files \cup {0} : <<"tool", i, f>> \in faults
      \/ ~Enough(i)

Active(p, i)  == session[p][i].file # 0 /\ session[p][i].code = Running
NamedOnce(i)  == \A j \in Slots \ {i} : job.device[j] # job.device[i]

(* A card that the command line names once is worked on by one session at a  *)
(* time, although a check of mpssflash may turn into a second run of it. A   *)
(* card that is named twice may have one session for each place of the list. *)
NeverTwice ==
  \A p, q \in Procs, i, j \in Slots :
    Active(p, i) /\ Active(q, j) /\ job.device[i] = job.device[j] /\ NamedOnce(i) =>
      p = q /\ i = j

(* "<file> gives the image file to be used to update the flash"              *)
(* (doc/mpssflash.1.txt:156): every card gets the file that was named.       *)
FileUsed ==
  NamedPath => \A p \in Procs, i \in Slots :
                 session[p][i].file # 0 /\ ~session[p][i].blind => session[p][i].file = job.named
===============================================================================
