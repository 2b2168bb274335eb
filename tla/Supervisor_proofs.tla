-------------------------- MODULE Supervisor_proofs --------------------------
(***************************************************************************)
(* What micflash and mpssflash make of their children, for any number of   *)
(* cards, any pipe and any of the command lines: types (TypeCorrect), and  *)
(* the exit code, the outcome shown, the advice and that nothing is left   *)
(* behind (ExitCorrect).                                                    *)
(***************************************************************************)
EXTENDS Supervisor, TLAPS

Places == {"start", "scan", "show", "combine", "wait", "ended"}
Lines2 == Lines \ {"ERROR"}

-------------------------------------------------------------------------------
(* The parts of the inductive invariant.                                     *)

ProcType ==
  /\ job \in Jobs /\ place \in Places /\ at \in 1..N + 1
  /\ proc \in [Cards -> {"none", "running", "zombie", "reaped"}]
  /\ status \in [Cards -> {Running, Killed} \cup 0..10]
  /\ round \in [Cards -> 0..2]
  /\ code \in [Cards -> {Running, Killed} \cup 0..10]

SessionType ==
  /\ phase \in [Cards -> {"quiet", "read", "update", "smc", "result", "reset"}]
  /\ begun \in [Cards -> SUBSET Lines2]
  /\ failed \in [Cards -> SUBSET (Lines \cup {"quiet"})]

PipeType ==
  /\ pipe \in [Cards -> Seq(Lines)]
  /\ \A i \in Cards : Len(pipe[i]) <= PipeSize + 1

SlotType ==
  /\ state \in [Cards -> {"init", "exit"} \cup Lines2]
  /\ bad \in [Cards -> SUBSET Ops]
  /\ exit_status \in [Cards -> -1..10]
  /\ done \in [Cards -> SUBSET Ops]
  /\ told \in [Cards -> {"nothing", "not_started", "done", "error"}]
  /\ ret \in -1..10

FlagType ==
  /\ err \in [Cards -> BOOLEAN] /\ msg \in [Cards -> BOOLEAN]
  /\ advice \in BOOLEAN

(* The count never exceeds the cards that were looked at.                   *)
CountInv ==
  /\ n_done \in 0..N
  /\ place = "combine" => n_done < at
  /\ place \in {"start", "scan", "show"} => n_done = 0

(* A process that ended reports what its last session did.                  *)
Reported(i) ==
  /\ status[i] # Running
  /\ status[i] = 0 <=> round[i] = 2 /\ code[i] = 0
  /\ status[i] = Killed <=> ~job.boot /\ code[i] = Killed
  /\ status[i] = FLASH_UPDATED <=> code[i] = FLASH_UPDATED

ProcInv ==
  \A i \in Cards : /\ ~job.boot => round[i] = 2
                   /\ round[i] = 0 => code[i] = Running
                   /\ proc[i] \in {"zombie", "reaped"} => Reported(i)

(* Which front end is where, and what it has not done yet.                  *)
PlaceInv ==
  /\ place \in {"scan", "show", "combine"} => Piped
  /\ place = "wait" => ~Piped
  /\ place \in {"scan", "show", "combine", "wait"} => Started # {}
  /\ place = "start" => \A i \in Cards : /\ i >= at => proc[i] = "none"
                                         /\ proc[i] # "reaped"
  /\ \A i \in Cards : i \notin Slots => proc[i] = "none"
  /\ place \in {"start", "scan", "show"} => ret = 0
  /\ ~Piped \/ (\E i \in Cards : proc[i] # "none") \/ place \in {"start", "ended"}

(* Only a child writes its pipe; an exited slot stands for a child that is  *)
(* gone and whose lines were read.                                           *)
ReadInv ==
  \A i \in Cards :
    /\ ~Piped \/ proc[i] = "none" => pipe[i] = <<>>
    /\ state[i] = "exit" => /\ proc[i] = "reaped" /\ pipe[i] = <<>>
                            /\ job.cmd # "file" =>
                                 exit_status[i] = WEXITSTATUS(status[i])
    /\ place \in {"scan", "show"} /\ proc[i] = "reaped" => state[i] = "exit"

(* From the moment the exit code is put together.                           *)
Combining == place = "combine" \/ (place = "ended" /\ Piped /\ Started # {})

Gone(i) ==
  /\ proc[i] = "reaped" /\ pipe[i] = <<>>
  /\ state[i] = "exit" \/ (/\ job.cmd = "file"
                           /\ exit_status[i] = IF status[i] = Killed THEN -1
                                               ELSE status[i])

GoneInv == Combining => \A i \in Started : Gone(i)

ToldInv ==
  Combining /\ job.cmd # "file" /\ job.display = "v" =>
    \A i \in Started : told[i] = IF exit_status[i] = 0 THEN "done" ELSE "error"

CodeInv ==
  Combining =>
    /\ ret = 0 <=> \A i \in Slots : i < at => i \in Started /\ exit_status[i] = 0
    /\ n_done # 0 <=> \E i \in Slots : i < at /\ Updated(i)

EndInv ==
  place = "ended" /\ Piped /\ Started # {} =>
    /\ at > n_procs
    /\ advice = (cmd_update /\ n_done # 0 /\ ~job.noreboot)

(* mpssflash: the code is that of a child that was waited for.              *)
WaitInv ==
  place = "wait" \/ (place = "ended" /\ ~Piped /\ Started # {}) =>
    /\ ret = 0 => \A i \in Started : proc[i] = "reaped" => status[i] \in {0, Killed}
    /\ ret # 0 => \E i \in Started : proc[i] = "reaped" /\ status[i] = ret
    /\ place = "ended" => \A i \in Started : proc[i] = "reaped"

TypeInv == ProcType /\ SessionType /\ PipeType /\ SlotType /\ FlagType /\ CountInv

ResultInv == GoneInv /\ ToldInv /\ CodeInv /\ EndInv /\ WaitInv

IInv == TypeInv /\ ProcInv /\ PlaceInv /\ ReadInv /\ ResultInv


-------------------------------------------------------------------------------
(* The slots are cards. *)
LEMMA SlotsAreCards ==
  ASSUME ProcType
  PROVE  /\ n_procs \in 1..N /\ Slots \subseteq Cards /\ Started \subseteq Slots
         /\ job.cards \in 1..N /\ job.boot \in BOOLEAN /\ job.noreboot \in BOOLEAN
  BY SupervisorAssumption DEF ProcType, n_procs, Slots, Started, Cards, Job

(* What a session announces, and what the parser takes it for. *)
LEMMA Announcements ==
  ASSUME ProcType, NEW i \in Cards, NEW p \in Announced(i), round[i] # 0
  PROVE  /\ p \in {"read", "update", "smc", "result", "reset"}
         /\ StateOf(i, p) \in Lines2 /\ StateOf(i, p) \in Lines
  <1>1. job.cmd \in {"update", "smc", "read", "file"}
    BY SupervisorAssumption DEF ProcType, Job
  <1>2. p \in {"read", "update", "smc", "result", "reset"}
    BY <1>1 DEF Announced
  <1> QED
    BY <1>2 DEF StateOf, Lines2, Lines, Ops

(* A line that was read is a state or an error. *)
LEMMA HeadLine ==
  ASSUME PipeType, NEW i \in Cards, pipe[i] # <<>>
  PROVE  /\ Head(pipe[i]) \in Lines /\ Tail(pipe[i]) \in Seq(Lines)
         /\ Len(Tail(pipe[i])) < Len(pipe[i]) /\ Len(pipe[i]) \in Nat
         /\ Head(pipe[i]) # "ERROR" => Head(pipe[i]) \in Lines2
         /\ Head(pipe[i]) # "exit"
  <1>1. pipe[i] \in Seq(Lines)
    BY DEF PipeType
  <1>2. /\ Head(pipe[i]) \in Lines /\ Tail(pipe[i]) \in Seq(Lines)
        /\ Len(Tail(pipe[i])) < Len(pipe[i]) /\ Len(pipe[i]) \in Nat
    BY <1>1
  <1> QED
    BY <1>2 DEF Lines2, Lines, Ops

(* An empty pipe. *)
LEMMA Empty == <<>> \in Seq(Lines) /\ Len(<<>>) <= PipeSize + 1
  BY SupervisorAssumption

(* Types of the processes. *)
LEMMA ProcTypeStep ==
  ASSUME ProcType, [Next]_vars
  PROVE  ProcType'
<1> USE SupervisorAssumption DEF Cards, Running, Killed, OTHER_ERR, FLASH_UPDATED,
        ProcType, Places, EndProcess
<1>1. ASSUME NEW i \in Cards, Announce(i) PROVE ProcType'
  BY <1>1 DEF Announce, slots, child, result
<1>2. ASSUME NEW i \in Cards, Complain(i) PROVE ProcType'
  BY <1>2 DEF Complain, slots, child, result
<1>3. ASSUME NEW i \in Cards, End(i) PROVE ProcType'
  BY <1>3 DEF End, slots, child, result
<1>4. ASSUME NEW i \in Cards, BootCheck(i) PROVE ProcType'
  BY <1>4 DEF BootCheck, slots, child, result
<1>5. ASSUME NEW i \in Cards, BootNext(i) PROVE ProcType'
  <2>1. CASE round[i] = 1 /\ code[i] = 0
    <3>1. /\ round' = [round EXCEPT ![i] = 2] /\ code' = [code EXCEPT ![i] = Running]
          /\ UNCHANGED <<proc, status, job, place, at>>
      BY <1>5, <2>1 DEF BootNext
    <3> QED BY <3>1
  <2>2. CASE ~(round[i] = 1 /\ code[i] = 0)
    <3>1. status' = [status EXCEPT ![i] = IF code[i] = Killed THEN 1 ELSE code[i]]
      BY <1>5, <2>2 DEF BootNext
    <3>3. (IF code[i] = Killed THEN 1 ELSE code[i]) \in {Running, Killed} \cup 0..10
      OBVIOUS
    <3>2. /\ proc' = [proc EXCEPT ![i] = "zombie"]
          /\ UNCHANGED <<job, place, at, round, code>>
      BY <1>5, <2>2 DEF BootNext, slots, child, result
    <3> QED BY <3>1, <3>2, <3>3
  <2> QED BY <2>1, <2>2
<1>6. CASE Refuse
  BY <1>6 DEF Refuse, slots, child, result
<1>7. CASE StartSlot
  BY <1>7, SlotsAreCards DEF StartSlot, slots, child, result
<1>8. CASE StartDone
  BY <1>8 DEF StartDone, slots, child, result
<1>9. CASE ReadLine
  BY <1>9 DEF ReadLine, slots, child, result
<1>10. CASE PassOver
  BY <1>10, SlotsAreCards DEF PassOver, slots, child, result
<1>11. CASE Reap
  BY <1>11, SlotsAreCards DEF Reap, slots, child, result
<1>12. CASE ScanDone
  BY <1>12 DEF ScanDone, slots, child, result
<1>13. CASE Show
  BY <1>13 DEF Show, slots, child, result
<1>14. CASE ShowTooSoon
  BY <1>14 DEF ShowTooSoon, slots, child, result
<1>15. CASE ShowVerbose
  BY <1>15 DEF ShowVerbose, slots, child, result
<1>16. CASE PollRead
  BY <1>16 DEF PollRead, slots, child, result
<1>17. CASE PollFile
  BY <1>17 DEF PollFile, slots, child, result
<1>18. CASE CombineSlot
  BY <1>18, SlotsAreCards DEF CombineSlot, slots, child, result
<1>19. CASE CombineDone
  BY <1>19 DEF CombineDone, slots, child, result
<1>20. CASE Wait
  BY <1>20 DEF Wait, slots, child, result
<1>21. CASE WaitDone
  BY <1>21 DEF WaitDone, slots, child, result
<1>22. CASE UNCHANGED vars
  BY <1>22 DEF vars, slots, child, result
<1> QED
  BY <1>1, <1>2, <1>3, <1>4, <1>5, <1>6, <1>7, <1>8, <1>9, <1>10, <1>11, <1>12, <1>13,
     <1>14, <1>15, <1>16, <1>17, <1>18, <1>19, <1>20, <1>21, <1>22 DEF Next, Child,
     Parent

(* Types of the sessions. *)
LEMMA SessionTypeStep ==
  ASSUME ProcType, SessionType, [Next]_vars
  PROVE  SessionType'
<1> USE SupervisorAssumption DEF Cards, Running, Killed, OTHER_ERR, FLASH_UPDATED,
        SessionType
<1>1. ASSUME NEW i \in Cards, Announce(i) PROVE SessionType'
  <2>1. PICK p \in Announced(i) :
            /\ phase' = [phase EXCEPT ![i] = p]
            /\ begun' = [begun EXCEPT ![i] = begun[i] \cup {StateOf(i, p)}]
    BY <1>1 DEF Announce
  <2>2. /\ p \in {"read", "update", "smc", "result", "reset"}
        /\ StateOf(i, p) \in Lines2
    BY <1>1, Announcements DEF Announce
  <2>3. UNCHANGED failed
    BY <1>1 DEF Announce
  <2> QED BY <2>1, <2>2, <2>3
<1>2. ASSUME NEW i \in Cards, Complain(i) PROVE SessionType'
  <2>1. StateOf(i, phase[i]) \in Lines \cup {"quiet"}
    BY DEF StateOf, Lines, Ops
  <2>2. failed' = [failed EXCEPT ![i] = failed[i] \cup {StateOf(i, phase[i])}]
    BY <1>2 DEF Complain
  <2>3. UNCHANGED <<phase, begun>>
    BY <1>2 DEF Complain
  <2> QED BY <2>1, <2>2, <2>3
<1>3. ASSUME NEW i \in Cards, End(i) PROVE SessionType'
  BY <1>3 DEF End, slots, child, result
<1>4. ASSUME NEW i \in Cards, BootCheck(i) PROVE SessionType'
  BY <1>4 DEF BootCheck, slots, child, result
<1>5. ASSUME NEW i \in Cards, BootNext(i) PROVE SessionType'
  BY <1>5 DEF BootNext, slots, child, result
<1>6. CASE Refuse
  BY <1>6 DEF Refuse, slots, child, result
<1>7. CASE StartSlot
  BY <1>7 DEF StartSlot, slots, child, result
<1>8. CASE StartDone
  BY <1>8 DEF StartDone, slots, child, result
<1>9. CASE ReadLine
  BY <1>9 DEF ReadLine, slots, child, result
<1>10. CASE PassOver
  BY <1>10 DEF PassOver, slots, child, result
<1>11. CASE Reap
  BY <1>11 DEF Reap, slots, child, result
<1>12. CASE ScanDone
  BY <1>12 DEF ScanDone, slots, child, result
<1>13. CASE Show
  BY <1>13 DEF Show, slots, child, result
<1>14. CASE ShowTooSoon
  BY <1>14 DEF ShowTooSoon, slots, child, result
<1>15. CASE ShowVerbose
  BY <1>15 DEF ShowVerbose, slots, child, result
<1>16. CASE PollRead
  BY <1>16 DEF PollRead, slots, child, result
<1>17. CASE PollFile
  BY <1>17 DEF PollFile, slots, child, result
<1>18. CASE CombineSlot
  BY <1>18 DEF CombineSlot, slots, child, result
<1>19. CASE CombineDone
  BY <1>19 DEF CombineDone, slots, child, result
<1>20. CASE Wait
  BY <1>20 DEF Wait, slots, child, result
<1>21. CASE WaitDone
  BY <1>21 DEF WaitDone, slots, child, result
<1>22. CASE UNCHANGED vars
  BY <1>22 DEF vars, slots, child, result
<1> QED
  BY <1>1, <1>2, <1>3, <1>4, <1>5, <1>6, <1>7, <1>8, <1>9, <1>10, <1>11, <1>12, <1>13,
     <1>14, <1>15, <1>16, <1>17, <1>18, <1>19, <1>20, <1>21, <1>22 DEF Next, Child,
     Parent

(* Lines go into a pipe that has room for them. *)
LEMMA PipeTypeStep ==
  ASSUME ProcType, PipeType, [Next]_vars
  PROVE  PipeType'
<1> USE SupervisorAssumption DEF Cards, Running, Killed, OTHER_ERR, FLASH_UPDATED, PipeType
<1>1. ASSUME NEW i \in Cards, Announce(i) PROVE PipeType'
  <2>1. \E x \in Lines : pipe' = Writes(i, x)
    BY <1>1, Announcements DEF Announce
  <2>2. PICK x \in Lines : pipe' = Writes(i, x)
    BY <2>1
  <2>3. CASE ~Piped
    BY <2>2, <2>3 DEF Writes
  <2>4. CASE Piped
    <3>1. pipe' = [pipe EXCEPT ![i] = Append(pipe[i], x)]
      BY <2>2, <2>4 DEF Writes
    <3>2. pipe[i] \in Seq(Lines) /\ Len(pipe[i]) <= PipeSize
      BY <1>1 DEF Announce, Awake
    <3>3. Append(pipe[i], x) \in Seq(Lines) /\ Len(Append(pipe[i], x)) = Len(pipe[i]) + 1
      BY <3>2
    <3> QED BY <3>1, <3>2, <3>3
  <2> QED BY <2>3, <2>4
<1>2. ASSUME NEW i \in Cards, Complain(i) PROVE PipeType'
  <2>1. \E x \in Lines : pipe' = Writes(i, x)
    BY <1>2 DEF Complain, Lines
  <2>2. PICK x \in Lines : pipe' = Writes(i, x)
    BY <2>1
  <2>3. CASE ~Piped
    BY <2>2, <2>3 DEF Writes
  <2>4. CASE Piped
    <3>1. pipe' = [pipe EXCEPT ![i] = Append(pipe[i], x)]
      BY <2>2, <2>4 DEF Writes
    <3>2. pipe[i] \in Seq(Lines) /\ Len(pipe[i]) <= PipeSize
      BY <1>2 DEF Complain, Awake
    <3>3. Append(pipe[i], x) \in Seq(Lines) /\ Len(Append(pipe[i], x)) = Len(pipe[i]) + 1
      BY <3>2
    <3> QED BY <3>1, <3>2, <3>3
  <2> QED BY <2>3, <2>4
<1>3. ASSUME NEW i \in Cards, End(i) PROVE PipeType'
  BY <1>3 DEF End, slots, child, result
<1>4. ASSUME NEW i \in Cards, BootCheck(i) PROVE PipeType'
  BY <1>4 DEF BootCheck, slots, child, result
<1>5. ASSUME NEW i \in Cards, BootNext(i) PROVE PipeType'
  BY <1>5 DEF BootNext, slots, child, result
<1>6. CASE Refuse
  BY <1>6 DEF Refuse, slots, child, result
<1>7. CASE StartSlot
  BY <1>7 DEF StartSlot, slots, child, result
<1>8. CASE StartDone
  BY <1>8 DEF StartDone, slots, child, result
<1>9. CASE ReadLine
  <2>1. /\ pipe' = [pipe EXCEPT ![at] = Tail(pipe[at])]
        /\ at \in Cards
    BY <1>9, SlotsAreCards DEF ReadLine, Slots, n_procs
  <2>2. Tail(pipe[at]) \in Seq(Lines) /\ Len(Tail(pipe[at])) <= PipeSize + 1
    BY <1>9, <2>1, HeadLine DEF ReadLine
  <2> QED BY <2>1, <2>2
<1>10. CASE PassOver
  BY <1>10 DEF PassOver, slots, child, result
<1>11. CASE Reap
  BY <1>11 DEF Reap, slots, child, result
<1>12. CASE ScanDone
  BY <1>12 DEF ScanDone, slots, child, result
<1>13. CASE Show
  BY <1>13 DEF Show, slots, child, result
<1>14. CASE ShowTooSoon
  BY <1>14 DEF ShowTooSoon, slots, child, result
<1>15. CASE ShowVerbose
  BY <1>15 DEF ShowVerbose, slots, child, result
<1>16. CASE PollRead
  <2>1. /\ pipe' = [pipe EXCEPT ![1] = <<>>]
        /\ 1 \in Cards
    BY <1>16, SlotsAreCards DEF PollRead, Slots, n_procs
  <2>2. <<>> \in Seq(Lines) /\ Len(<<>>) <= PipeSize + 1
    BY Empty
  <2> QED BY <2>1, <2>2
<1>17. CASE PollFile
  <2>1. /\ pipe' = [pipe EXCEPT ![1] = <<>>]
        /\ 1 \in Cards
    BY <1>17, SlotsAreCards DEF PollFile, Slots, n_procs
  <2>2. <<>> \in Seq(Lines) /\ Len(<<>>) <= PipeSize + 1
    BY Empty
  <2> QED BY <2>1, <2>2
<1>18. CASE CombineSlot
  BY <1>18 DEF CombineSlot, slots, child, result
<1>19. CASE CombineDone
  BY <1>19 DEF CombineDone, slots, child, result
<1>20. CASE Wait
  BY <1>20 DEF Wait, slots, child, result
<1>21. CASE WaitDone
  BY <1>21 DEF WaitDone, slots, child, result
<1>22. CASE UNCHANGED vars
  BY <1>22 DEF vars, slots, child, result
<1> QED
  BY <1>1, <1>2, <1>3, <1>4, <1>5, <1>6, <1>7, <1>8, <1>9, <1>10, <1>11, <1>12, <1>13,
     <1>14, <1>15, <1>16, <1>17, <1>18, <1>19, <1>20, <1>21, <1>22 DEF Next, Child,
     Parent

(* Types of the slots and of the exit code. *)
LEMMA SlotTypeStep ==
  ASSUME ProcType, PipeType, SlotType, [Next]_vars
  PROVE  SlotType'
<1> USE SupervisorAssumption DEF Cards, Running, Killed, OTHER_ERR, FLASH_UPDATED, SlotType
<1>1. ASSUME NEW i \in Cards, Announce(i) PROVE SlotType'
  BY <1>1 DEF Announce, slots, child, result
<1>2. ASSUME NEW i \in Cards, Complain(i) PROVE SlotType'
  BY <1>2 DEF Complain, slots, child, result
<1>3. ASSUME NEW i \in Cards, End(i) PROVE SlotType'
  BY <1>3 DEF End, slots, child, result
<1>4. ASSUME NEW i \in Cards, BootCheck(i) PROVE SlotType'
  BY <1>4 DEF BootCheck, slots, child, result
<1>5. ASSUME NEW i \in Cards, BootNext(i) PROVE SlotType'
  BY <1>5 DEF BootNext, slots, child, result
<1>6. CASE Refuse
  BY <1>6 DEF Refuse, slots, child, result
<1>7. CASE StartSlot
  BY <1>7 DEF StartSlot, slots, child, result
<1>8. CASE StartDone
  BY <1>8 DEF StartDone, slots, child, result
<1>9. CASE ReadLine
  <2>0. at \in Cards /\ at \in Started
    BY <1>9, SlotsAreCards DEF ReadLine
  <2>1. CASE Head(pipe[at]) = "ERROR"
    <3>1. /\ bad' = [bad EXCEPT ![at] = bad[at] \cup ({state[at]} \cap Ops)]
          /\ UNCHANGED <<state, exit_status, done, told, ret>>
      BY <1>9, <2>1 DEF ReadLine, SetErrorStatus, result
    <3> QED BY <2>0, <3>1
  <2>2. CASE Head(pipe[at]) # "ERROR"
    <3>1. /\ done' = [done EXCEPT ![at] = done[at] \cup (({state[at]} \cap Ops) \ bad[at])]
          /\ state' = [state EXCEPT ![at] = Head(pipe[at])]
          /\ UNCHANGED <<bad, exit_status, told, ret>>
      BY <1>9, <2>2 DEF ReadLine, ShowDone, result
    <3>2. Head(pipe[at]) \in Lines2
      BY <1>9, <2>0, <2>2, HeadLine DEF ReadLine
    <3> QED BY <2>0, <3>1, <3>2
  <2> QED BY <2>1, <2>2
<1>10. CASE PassOver
  BY <1>10 DEF PassOver, slots, child, result
<1>11. CASE Reap
  <2>0. at \in Cards /\ at \in Started
    BY <1>11, SlotsAreCards DEF Reap
  <2>1. /\ done' = [done EXCEPT ![at] = done[at] \cup (({state[at]} \cap Ops) \ bad[at])]
        /\ state' = [state EXCEPT ![at] = "exit"]
        /\ exit_status' = [exit_status EXCEPT ![at] = WEXITSTATUS(status[at])]
        /\ UNCHANGED <<bad, told, ret>>
    BY <1>11 DEF Reap, ShowDone, result
  <2>2. WEXITSTATUS(status[at]) \in -1..10
    BY <2>0 DEF WEXITSTATUS, ProcType
  <2> QED BY <2>0, <2>1, <2>2
<1>12. CASE ScanDone
  BY <1>12 DEF ScanDone, slots, child, result
<1>13. CASE Show
  BY <1>13 DEF Show, slots, child, result
<1>14. CASE ShowTooSoon
  BY <1>14 DEF ShowTooSoon, slots, child, result
<1>15. CASE ShowVerbose
  <2>1. \A i \in Cards : (IF i \in Slots THEN Outcome(i) ELSE told[i])
                              \in {"nothing", "not_started", "done", "error"}
    BY DEF Outcome
  <2>2. UNCHANGED <<state, bad, exit_status, done, ret>>
    BY <1>15 DEF ShowVerbose, result
  <2>3. told' = [i \in Cards |-> IF i \in Slots THEN Outcome(i) ELSE told[i]]
    BY <1>15 DEF ShowVerbose
  <2> QED BY <2>1, <2>2, <2>3
<1>16. CASE PollRead
  BY <1>16 DEF PollRead, slots, child, result
<1>17. CASE PollFile
  <2>1. PICK s \in IF proc[1] = "reaped" THEN {-1, 0, 1}
                  ELSE {IF status[1] = Killed THEN -1 ELSE status[1]} :
            exit_status' = [exit_status EXCEPT ![1] = s]
    BY <1>17 DEF PollFile
  <2>2. s \in -1..10
    <3>1. 1 \in Cards
      OBVIOUS
    <3>2. status[1] \in {Running, Killed} \cup 0..10
      BY <3>1 DEF ProcType
    <3> QED BY <2>1, <3>2
  <2>3. UNCHANGED <<state, bad, done, told, ret>>
    BY <1>17 DEF PollFile, result
  <2> QED BY <2>1, <2>2, <2>3
<1>18. CASE CombineSlot
  <2>1. at \in Cards
    BY <1>18, SlotsAreCards DEF CombineSlot
  <2>2. Combined(at) \in -1..10
    BY <2>1 DEF Combined
  <2> QED BY <1>18, <2>2 DEF CombineSlot, slots
<1>19. CASE CombineDone
  BY <1>19 DEF CombineDone, slots, child, result
<1>20. CASE Wait
  <2>1. PICK i \in Started : ret' = Waited(status[i])
    BY <1>20 DEF Wait
  <2>2. i \in Cards
    BY <2>1, SlotsAreCards
  <2>3. Waited(status[i]) \in -1..10
    BY <2>2 DEF Waited, ProcType
  <2> QED BY <1>20, <2>1, <2>3 DEF Wait, slots
<1>21. CASE WaitDone
  BY <1>21 DEF WaitDone, slots, child, result
<1>22. CASE UNCHANGED vars
  BY <1>22 DEF vars, slots, child, result
<1> QED
  BY <1>1, <1>2, <1>3, <1>4, <1>5, <1>6, <1>7, <1>8, <1>9, <1>10, <1>11, <1>12, <1>13,
     <1>14, <1>15, <1>16, <1>17, <1>18, <1>19, <1>20, <1>21, <1>22 DEF Next, Child,
     Parent

(* Types of the flags. *)
LEMMA FlagTypeStep ==
  ASSUME FlagType, [Next]_vars
  PROVE  FlagType'
<1> USE SupervisorAssumption DEF Cards, Running, Killed, OTHER_ERR, FLASH_UPDATED, FlagType
<1>1. ASSUME NEW i \in Cards, Announce(i) PROVE FlagType'
  BY <1>1 DEF Announce, slots, child, result
<1>2. ASSUME NEW i \in Cards, Complain(i) PROVE FlagType'
  BY <1>2 DEF Complain, slots, child, result
<1>3. ASSUME NEW i \in Cards, End(i) PROVE FlagType'
  BY <1>3 DEF End, slots, child, result
<1>4. ASSUME NEW i \in Cards, BootCheck(i) PROVE FlagType'
  BY <1>4 DEF BootCheck, slots, child, result
<1>5. ASSUME NEW i \in Cards, BootNext(i) PROVE FlagType'
  BY <1>5 DEF BootNext, slots, child, result
<1>6. CASE Refuse
  BY <1>6 DEF Refuse, slots, child, result
<1>7. CASE StartSlot
  BY <1>7 DEF StartSlot, slots, child, result
<1>8. CASE StartDone
  BY <1>8 DEF StartDone, slots, child, result
<1>9. CASE ReadLine
  BY <1>9 DEF ReadLine, slots, child, result
<1>10. CASE PassOver
  BY <1>10 DEF PassOver, slots, child, result
<1>11. CASE Reap
  BY <1>11 DEF Reap, slots, child, result
<1>12. CASE ScanDone
  BY <1>12 DEF ScanDone, slots, child, result
<1>13. CASE Show
  BY <1>13 DEF Show, slots, child, result
<1>14. CASE ShowTooSoon
  BY <1>14 DEF ShowTooSoon, slots, child, result
<1>15. CASE ShowVerbose
  BY <1>15 DEF ShowVerbose, slots, child, result
<1>16. CASE PollRead
  BY <1>16 DEF PollRead, slots, child, result
<1>17. CASE PollFile
  BY <1>17 DEF PollFile, slots, child, result
<1>18. CASE CombineSlot
  BY <1>18 DEF CombineSlot, slots, child, result
<1>19. CASE CombineDone
  BY <1>19 DEF CombineDone, slots, child, result
<1>20. CASE Wait
  BY <1>20 DEF Wait, slots, child, result
<1>21. CASE WaitDone
  BY <1>21 DEF WaitDone, slots, child, result
<1>22. CASE UNCHANGED vars
  BY <1>22 DEF vars, slots, child, result
<1> QED
  BY <1>1, <1>2, <1>3, <1>4, <1>5, <1>6, <1>7, <1>8, <1>9, <1>10, <1>11, <1>12, <1>13,
     <1>14, <1>15, <1>16, <1>17, <1>18, <1>19, <1>20, <1>21, <1>22 DEF Next, Child,
     Parent

(* The count of updated cards. *)
LEMMA CountStep ==
  ASSUME ProcType, CountInv, [Next]_vars
  PROVE  CountInv'
<1> USE SupervisorAssumption DEF Cards, Running, Killed, OTHER_ERR, FLASH_UPDATED,
        ProcType, CountInv
<1>1. ASSUME NEW i \in Cards, Announce(i) PROVE CountInv'
  BY <1>1 DEF Announce, slots, child, result
<1>2. ASSUME NEW i \in Cards, Complain(i) PROVE CountInv'
  BY <1>2 DEF Complain, slots, child, result
<1>3. ASSUME NEW i \in Cards, End(i) PROVE CountInv'
  BY <1>3 DEF End, slots, child, result
<1>4. ASSUME NEW i \in Cards, BootCheck(i) PROVE CountInv'
  BY <1>4 DEF BootCheck, slots, child, result
<1>5. ASSUME NEW i \in Cards, BootNext(i) PROVE CountInv'
  BY <1>5 DEF BootNext, slots, child, result
<1>6. CASE Refuse
  BY <1>6 DEF Refuse, slots, child, result
<1>7. CASE StartSlot
  BY <1>7 DEF StartSlot, slots, child, result
<1>8. CASE StartDone
  BY <1>8 DEF StartDone, slots, child, result
<1>9. CASE ReadLine
  BY <1>9 DEF ReadLine, slots, child, result
<1>10. CASE PassOver
  BY <1>10 DEF PassOver, slots, child, result
<1>11. CASE Reap
  BY <1>11 DEF Reap, slots, child, result
<1>12. CASE ScanDone
  BY <1>12 DEF ScanDone, slots, child, result
<1>13. CASE Show
  BY <1>13 DEF Show, slots, child, result
<1>14. CASE ShowTooSoon
  BY <1>14 DEF ShowTooSoon, slots, child, result
<1>15. CASE ShowVerbose
  BY <1>15 DEF ShowVerbose, slots, child, result
<1>16. CASE PollRead
  BY <1>16 DEF PollRead, slots, child, result
<1>17. CASE PollFile
  BY <1>17 DEF PollFile, slots, child, result
<1>18. CASE CombineSlot
  <2>1. at \in 1..N
    BY <1>18, SlotsAreCards DEF CombineSlot
  <2>2. /\ place = "combine" /\ place' = "combine" /\ at' = at + 1
        /\ n_done' \in {n_done, n_done + 1}
    BY <1>18 DEF CombineSlot
  <2> QED BY <2>1, <2>2
<1>19. CASE CombineDone
  BY <1>19 DEF CombineDone, slots, child, result
<1>20. CASE Wait
  BY <1>20 DEF Wait, slots, child, result
<1>21. CASE WaitDone
  BY <1>21 DEF WaitDone, slots, child, result
<1>22. CASE UNCHANGED vars
  BY <1>22 DEF vars, slots, child, result
<1> QED
  BY <1>1, <1>2, <1>3, <1>4, <1>5, <1>6, <1>7, <1>8, <1>9, <1>10, <1>11, <1>12, <1>13,
     <1>14, <1>15, <1>16, <1>17, <1>18, <1>19, <1>20, <1>21, <1>22 DEF Next, Child,
     Parent

(* What a step of a child leaves alone. *)
LEMMA ChildFrame ==
  ASSUME ProcType, PipeType, NEW i \in Cards, Child(i)
  PROVE  /\ UNCHANGED <<job, place, at, slots, result>>
         /\ proc[i] = "running" /\ proc'[i] \in {"running", "zombie"}
         /\ \A j \in Cards : j # i =>
              /\ proc'[j] = proc[j] /\ pipe'[j] = pipe[j]
              /\ round'[j] = round[j] /\ code'[j] = code[j] /\ status'[j] = status[j]
         /\ ~Piped => pipe' = pipe
         /\ Started' = Started
<1> USE DEF Awake
<1>1. UNCHANGED <<job, place, at, slots, result>>
  BY DEF Child, Announce, Complain, End, BootCheck, BootNext
<1>2. proc[i] = "running"
  BY DEF Child, Announce, Complain, End, BootCheck, BootNext
<1>3. UNCHANGED <<proc, status>> \/ \E s : EndProcess(i, s)
  <2>1. CASE Announce(i) \/ Complain(i)
    BY <2>1 DEF Announce, Complain
  <2>2. CASE End(i)
    BY <2>2 DEF End
  <2>3. CASE BootCheck(i)
    BY <2>3 DEF BootCheck
  <2>4. CASE BootNext(i)
    BY <2>4 DEF BootNext
  <2> QED BY <2>1, <2>2, <2>3, <2>4 DEF Child
<1>4. /\ proc'[i] \in {"running", "zombie"}
      /\ \A j \in Cards : j # i => proc'[j] = proc[j] /\ status'[j] = status[j]
      /\ \A j \in Cards : proc'[j] # "none" <=> proc[j] # "none"
  <2>1. CASE UNCHANGED <<proc, status>>
    BY <1>2, <2>1
  <2>2. ASSUME NEW s, EndProcess(i, s)
        PROVE  <1>4!1 /\ <1>4!2 /\ <1>4!3
    BY <1>2, <2>2 DEF EndProcess, ProcType
  <2> QED BY <1>3, <2>1, <2>2
<1>5. UNCHANGED pipe \/ \E x : pipe' = Writes(i, x)
  BY DEF Child, Announce, Complain, End, BootCheck, BootNext
<1>6. /\ \A j \in Cards : j # i => pipe'[j] = pipe[j]
      /\ ~Piped => pipe' = pipe
  BY <1>5 DEF Writes, PipeType
<1>7. \A j \in Cards : j # i => round'[j] = round[j] /\ code'[j] = code[j]
  <2>1. CASE Announce(i) \/ Complain(i)
    BY <2>1 DEF Announce, Complain
  <2>2. CASE End(i)
    BY <2>2 DEF End, ProcType
  <2>3. CASE BootCheck(i)
    BY <2>3 DEF BootCheck, ProcType
  <2>4. CASE BootNext(i)
    BY <2>4 DEF BootNext, ProcType
  <2> QED BY <2>1, <2>2, <2>3, <2>4 DEF Child
<1>8. Started' = Started
  <2>1. Slots' = Slots
    BY <1>1 DEF Slots, n_procs
  <2> QED BY <1>4, <2>1, SlotsAreCards DEF Started
<1> QED BY <1>1, <1>2, <1>4, <1>6, <1>7, <1>8

(* A process that ended reports its last session. *)
LEMMA ProcInvStep ==
  ASSUME ProcType, ProcInv, [Next]_vars
  PROVE  ProcInv'
<1> USE SupervisorAssumption DEF Cards, Running, Killed, OTHER_ERR, FLASH_UPDATED,
        ProcType, ProcInv, Reported
<1>1. ASSUME NEW i \in Cards, Announce(i) PROVE ProcInv'
  BY <1>1 DEF Announce, slots, child, result
<1>2. ASSUME NEW i \in Cards, Complain(i) PROVE ProcInv'
  BY <1>2 DEF Complain, slots, child, result
<1>3. ASSUME NEW i \in Cards, End(i) PROVE ProcInv'
  <2>1. PICK c \in Codes \cup {Killed} :
            /\ code' = [code EXCEPT ![i] = c]
            /\ IF job.boot THEN UNCHANGED <<proc, status>> ELSE EndProcess(i, c)
    BY <1>3 DEF End
  <2>2. UNCHANGED <<job, round>> /\ proc[i] = "running" /\ round[i] # 0
    BY <1>3 DEF End, Awake
  <2>3. CASE job.boot
    BY <2>1, <2>2, <2>3
  <2>4. CASE ~job.boot
    <3>1. round[i] = 2 /\ c # Running
      BY <2>4
    <3>2. proc' = [proc EXCEPT ![i] = "zombie"] /\ status' = [status EXCEPT ![i] = c]
      BY <2>1, <2>4 DEF EndProcess
    <3> QED BY <2>1, <2>2, <2>4, <3>1, <3>2
  <2> QED BY <2>3, <2>4
<1>4. ASSUME NEW i \in Cards, BootCheck(i) PROVE ProcInv'
  BY <1>4 DEF BootCheck, slots, child, result, Awake, EndProcess
<1>5. ASSUME NEW i \in Cards, BootNext(i) PROVE ProcInv'
  <2>1. job.boot /\ UNCHANGED job /\ proc[i] = "running" /\ code[i] # Running
    BY <1>5 DEF BootNext, Awake
  <2>2. CASE round[i] = 1 /\ code[i] = 0
    <3>1. /\ round' = [round EXCEPT ![i] = 2] /\ code' = [code EXCEPT ![i] = Running]
          /\ UNCHANGED <<proc, status>>
      BY <1>5, <2>2 DEF BootNext
    <3> QED BY <2>1, <3>1
  <2>3. CASE ~(round[i] = 1 /\ code[i] = 0)
    <3>1. /\ proc' = [proc EXCEPT ![i] = "zombie"] /\ UNCHANGED <<round, code>>
          /\ status' = [status EXCEPT ![i] = IF code[i] = Killed THEN 1 ELSE code[i]]
      BY <1>5, <2>3 DEF BootNext, EndProcess
    <3> DEFINE s == IF code[i] = Killed THEN 1 ELSE code[i]
    <3>2. round[i] # 0
      BY <2>1
    <3>3. /\ s # Running /\ s # Killed
          /\ s = 0 <=> round[i] = 2 /\ code[i] = 0
          /\ s = FLASH_UPDATED <=> code[i] = FLASH_UPDATED
      BY <2>1, <2>3, <3>2
    <3>4. status'[i] = s /\ round' = round /\ code' = code
      BY <3>1
    <3>5. Reported(i)'
      BY <2>1, <3>3, <3>4
    <3>6. \A j \in Cards : j # i => status'[j] = status[j] /\ proc'[j] = proc[j]
      BY <3>1
    <3> QED BY <2>1, <3>1, <3>5, <3>6
  <2> QED BY <2>2, <2>3
<1>6. CASE Refuse
  BY <1>6 DEF Refuse, slots, child, result
<1>7. CASE StartSlot
  BY <1>7, SlotsAreCards DEF StartSlot, slots, child, result
<1>8. CASE StartDone
  BY <1>8 DEF StartDone, slots, child, result
<1>9. CASE ReadLine
  BY <1>9 DEF ReadLine, slots, child, result
<1>10. CASE PassOver
  BY <1>10 DEF PassOver, slots, child, result
<1>11. CASE Reap
  BY <1>11, SlotsAreCards DEF Reap, slots, child, result
<1>12. CASE ScanDone
  BY <1>12 DEF ScanDone, slots, child, result
<1>13. CASE Show
  BY <1>13 DEF Show, slots, child, result
<1>14. CASE ShowTooSoon
  BY <1>14 DEF ShowTooSoon, slots, child, result
<1>15. CASE ShowVerbose
  BY <1>15 DEF ShowVerbose, slots, child, result
<1>16. CASE PollRead
  BY <1>16 DEF PollRead, slots, child, result
<1>17. CASE PollFile
  BY <1>17, SlotsAreCards DEF PollFile, slots, child, result
<1>18. CASE CombineSlot
  BY <1>18 DEF CombineSlot, slots, child, result
<1>19. CASE CombineDone
  BY <1>19 DEF CombineDone, slots, child, result
<1>20. CASE Wait
  BY <1>20, SlotsAreCards DEF Wait, slots, child, result
<1>21. CASE WaitDone
  BY <1>21 DEF WaitDone, slots, child, result
<1>22. CASE UNCHANGED vars
  BY <1>22 DEF vars, slots, child, result
<1> QED
  BY <1>1, <1>2, <1>3, <1>4, <1>5, <1>6, <1>7, <1>8, <1>9, <1>10, <1>11, <1>12, <1>13,
     <1>14, <1>15, <1>16, <1>17, <1>18, <1>19, <1>20, <1>21, <1>22 DEF Next, Child,
     Parent

(* The slots in use do not change once the children are started. *)
LEMMA SameSlots ==
  ASSUME job' = job
  PROVE  Slots' = Slots /\ n_procs' = n_procs /\ Piped' = Piped
         /\ cmd_update' = cmd_update
  BY DEF Slots, n_procs, Piped, cmd_update

(* Which front end is where. *)
LEMMA PlaceInvStep ==
  ASSUME ProcType, PipeType, PlaceInv, [Next]_vars
  PROVE  PlaceInv'
<1> USE SupervisorAssumption DEF Cards, Running, Killed, OTHER_ERR, FLASH_UPDATED,
        PlaceInv, Piped, Started, Slots, n_procs
<1>1. ASSUME NEW i \in Cards, Child(i) PROVE PlaceInv'
  <2>1. /\ UNCHANGED <<job, place, at, ret>> /\ Started' = Started /\ Slots' = Slots
        /\ \A j \in Cards : /\ proc'[j] = "none" <=> proc[j] = "none"
                            /\ proc'[j] = "reaped" => proc[j] = "reaped"
    BY <1>1, ChildFrame DEF result
  <2> QED BY <2>1
<1>2. CASE Refuse
  BY <1>2 DEF Refuse, slots, child, result
<1>3. CASE StartSlot
  <2>1. /\ at \in Cards /\ at \in Slots /\ at' = at + 1
        /\ UNCHANGED <<job, place, ret>> /\ place = "start"
        /\ proc' = proc \/ proc' = [proc EXCEPT ![at] = "running"]
    BY <1>3, SlotsAreCards DEF StartSlot, result
  <2> QED BY <2>1 DEF ProcType
<1>4. CASE StartDone
  <2>1. UNCHANGED <<job, proc>> /\ Started' = Started /\ place = "start"
    BY <1>4 DEF StartDone
  <2>2. CASE Started = {}
    BY <1>4, <2>1, <2>2 DEF StartDone
  <2>3. CASE Started # {}
    <3>1. \E i \in Cards : proc[i] # "none"
      BY <2>3, SlotsAreCards
    <3>2. place' = (IF Piped THEN "scan" ELSE "wait") /\ ret' = ret
      BY <1>4, <2>3 DEF StartDone
    <3> QED BY <2>1, <2>3, <3>1, <3>2
  <2> QED BY <2>2, <2>3
<1>5. CASE ReadLine
  BY <1>5 DEF ReadLine, slots, child, result
<1>6. CASE PassOver
  BY <1>6 DEF PassOver, slots, child, result
<1>7. CASE Reap
  BY <1>7, SlotsAreCards DEF Reap, slots, child, result, ProcType
<1>8. CASE ScanDone
  BY <1>8 DEF ScanDone, slots, child, result
<1>9. CASE Show
  BY <1>9 DEF Show, slots, child, result
<1>10. CASE ShowTooSoon
  BY <1>10 DEF ShowTooSoon, slots, child, result
<1>11. CASE ShowVerbose
  BY <1>11 DEF ShowVerbose, slots, child, result
<1>12. CASE PollRead
  BY <1>12 DEF PollRead, slots, child, result
<1>13. CASE PollFile
  BY <1>13, SlotsAreCards DEF PollFile, slots, child, result, ProcType
<1>14. CASE CombineSlot
  BY <1>14 DEF CombineSlot, slots, child, result
<1>15. CASE CombineDone
  BY <1>15 DEF CombineDone, slots, child, result
<1>16. CASE Wait
  BY <1>16, SlotsAreCards DEF Wait, slots, child, result, ProcType
<1>17. CASE WaitDone
  BY <1>17 DEF WaitDone, slots, child, result
<1>18. CASE UNCHANGED vars
  BY <1>18 DEF vars, slots, child, result
<1> QED
  BY <1>1, <1>2, <1>3, <1>4, <1>5, <1>6, <1>7, <1>8, <1>9, <1>10, <1>11, <1>12, <1>13,
     <1>14, <1>15, <1>16, <1>17, <1>18 DEF Next, Parent

(* What an exited slot stands for. *)
LEMMA ReadInvStep ==
  ASSUME ProcType, PipeType, SlotType, PlaceInv, ReadInv, [Next]_vars
  PROVE  ReadInv'
<1> USE SupervisorAssumption DEF Cards, Running, Killed, OTHER_ERR, FLASH_UPDATED,
        ReadInv, Piped, WEXITSTATUS
<1>1. ASSUME NEW i \in Cards, Child(i) PROVE ReadInv'
  <2>1. /\ UNCHANGED <<job, place, at, state, exit_status, told, ret, n_done, advice>>
        /\ proc[i] = "running" /\ proc'[i] \in {"running", "zombie"}
        /\ \A j \in Cards : j # i => proc'[j] = proc[j] /\ pipe'[j] = pipe[j] /\ status'[j] = status[j]
        /\ ~Piped => pipe' = pipe
        /\ Started' = Started
    BY <1>1, ChildFrame DEF slots, result
  <2> QED BY <2>1
<1>2. CASE Refuse
  BY <1>2 DEF Refuse, slots, child, result
<1>3. CASE StartSlot
  <2>1. /\ UNCHANGED <<job, place, pipe, state, status, exit_status>> /\ place = "start" /\ proc[at] = "none" /\ at \in Cards
        /\ proc' = proc \/ proc' = [proc EXCEPT ![at] = "running"]
    BY <1>3, SlotsAreCards DEF StartSlot, PlaceInv, child
  <2> QED BY <2>1 DEF ProcType
<1>4. CASE StartDone
  <2>1. /\ UNCHANGED <<job, proc, pipe, state, status, exit_status>>
        /\ \A i \in Cards : proc[i] # "reaped"
    BY <1>4 DEF StartDone, PlaceInv, slots, child
  <2> QED BY <2>1
<1>5. CASE ReadLine
  <2>1. at \in Started /\ at \in Cards /\ proc[at] # "none" /\ Piped
    BY <1>5, SlotsAreCards DEF ReadLine, Started, PlaceInv
  <2>2. /\ pipe' = [pipe EXCEPT ![at] = Tail(pipe[at])]
        /\ UNCHANGED <<job, place, proc, status, exit_status>>
        /\ state[at] # "exit" /\ place = "scan"
    BY <1>5 DEF ReadLine
  <2>3. state' = state \/ state' = [state EXCEPT ![at] = Head(pipe[at])]
    BY <1>5 DEF ReadLine
  <2>4. Head(pipe[at]) # "exit"
    BY <1>5, <2>1, HeadLine DEF ReadLine
  <2>5. proc[at] # "reaped"
    BY <2>1, <2>2
  <2>6. /\ state'[at] # "exit"
        /\ \A j \in Cards : j # at => state'[j] = state[j] /\ pipe'[j] = pipe[j]
    BY <2>1, <2>2, <2>3, <2>4 DEF PipeType, SlotType
  <2> QED BY <2>1, <2>2, <2>5, <2>6
<1>6. CASE PassOver
  BY <1>6 DEF PassOver, slots, child, result
<1>7. CASE Reap
  <2>1. at \in Cards
    BY <1>7, SlotsAreCards DEF Reap
  <2>2. /\ state' = [state EXCEPT ![at] = "exit"] /\ proc' = [proc EXCEPT ![at] = "reaped"]
        /\ exit_status' = [exit_status EXCEPT ![at] = WEXITSTATUS(status[at])]
        /\ pipe[at] = <<>> /\ UNCHANGED <<job, place, pipe, status>>
    BY <1>7 DEF Reap, child
  <2> QED BY <2>1, <2>2 DEF ProcType, SlotType
<1>8. CASE ScanDone
  BY <1>8 DEF ScanDone, slots, child, result
<1>9. CASE Show
  BY <1>9 DEF Show, slots, child, result
<1>10. CASE ShowTooSoon
  BY <1>10 DEF ShowTooSoon, slots, child, result
<1>11. CASE ShowVerbose
  BY <1>11 DEF ShowVerbose, slots, child, result
<1>12. CASE PollRead
  BY <1>12 DEF PollRead, slots, child, result, PipeType
<1>13. CASE PollFile
  BY <1>13, SlotsAreCards DEF PollFile, slots, child, result, ProcType, PipeType
<1>14. CASE CombineSlot
  BY <1>14 DEF CombineSlot, slots, child, result
<1>15. CASE CombineDone
  BY <1>15 DEF CombineDone, slots, child, result
<1>16. CASE Wait
  BY <1>16, SlotsAreCards DEF Wait, slots, child, result, ProcType
<1>17. CASE WaitDone
  BY <1>17 DEF WaitDone, slots, child, result
<1>18. CASE UNCHANGED vars
  BY <1>18 DEF vars, slots, child, result
<1> QED
  BY <1>1, <1>2, <1>3, <1>4, <1>5, <1>6, <1>7, <1>8, <1>9, <1>10, <1>11, <1>12, <1>13,
     <1>14, <1>15, <1>16, <1>17, <1>18 DEF Next, Parent

(* Before the results are put together, nothing is said of them. *)
LEMMA Early ==
  ASSUME place' \notin {"combine", "wait", "ended"}
  PROVE  ResultInv'
  BY DEF ResultInv, GoneInv, ToldInv, CodeInv, EndInv, WaitInv, Combining

(* ... nor if nothing was started. *)
LEMMA Nothing ==
  ASSUME place' = "ended", Started' = {}
  PROVE  ResultInv'
  BY DEF ResultInv, GoneInv, ToldInv, CodeInv, EndInv, WaitInv, Combining

LEMMA SameStarted ==
  ASSUME job' = job, proc' = proc
  PROVE  Started' = Started
  BY DEF Started, Slots, n_procs

(* A step to "combine", where no card has been looked at. *)
LEMMA CombineBegins ==
  ASSUME ProcType, CountInv, PlaceInv, place = "show", place' = "combine", at' = 1,
         job' = job, UNCHANGED result, Started' = Started,
         \A i \in Started : Gone(i)',
         ToldInv'
  PROVE  ResultInv'
<1>1. Slots' = Slots /\ ret' = 0 /\ n_done' = 0
  BY SameSlots DEF CountInv, PlaceInv, result
<1>2. \A i \in Slots : ~(i < at')
  BY DEF Slots
<1>3. GoneInv'
  BY DEF GoneInv
<1>4. CodeInv'
  BY <1>1, <1>2 DEF CodeInv
<1>5. EndInv' /\ WaitInv'
  BY DEF EndInv, WaitInv
<1> QED BY <1>3, <1>4, <1>5 DEF ResultInv

LEMMA ResultStep ==
  ASSUME TypeInv, ProcInv, PlaceInv, ReadInv, ResultInv, [Next]_vars
  PROVE  ResultInv'
<1> USE SupervisorAssumption DEF Cards, TypeInv, Running, Killed
<1>1. ASSUME NEW i \in Cards, Child(i) PROVE ResultInv'
  <2>1. /\ UNCHANGED <<job, place, at, state, exit_status, told, ret, n_done, advice>>
        /\ proc[i] = "running" /\ proc'[i] \in {"running", "zombie"}
        /\ \A j \in Cards : j # i => proc'[j] = proc[j] /\ status'[j] = status[j]
        /\ Started' = Started
    BY <1>1, ChildFrame DEF slots, result
  <2>2. i \in Started
    BY <2>1 DEF Started, PlaceInv
  <2>3. ~Combining /\ ~Combining'
    <3>1. ~Combining
      BY <2>1, <2>2 DEF ResultInv, GoneInv, Gone
    <3>2. Piped' = Piped
      BY <2>1, SameSlots
    <3> QED BY <2>1, <3>1, <3>2 DEF Combining
  <2>4. GoneInv' /\ ToldInv' /\ CodeInv'
    BY <2>3 DEF GoneInv, ToldInv, CodeInv
  <2>5. EndInv'
    BY <2>3 DEF EndInv, Combining
  <2>6. WaitInv'
    <3>1. CASE place = "wait"
      <4>1. WaitInv!2!1 /\ WaitInv!2!2
        BY <3>1 DEF ResultInv, WaitInv
      <4>2. ret' = 0 => \A j \in Started : proc'[j] = "reaped" => status'[j] \in {0, Killed}
        BY <2>1, <4>1, SlotsAreCards
      <4>3. ret' # 0 => \E j \in Started : proc'[j] = "reaped" /\ status'[j] = ret'
        BY <2>1, <4>1, SlotsAreCards
      <4> QED BY <2>1, <3>1, <4>2, <4>3 DEF WaitInv
    <3>2. CASE place = "ended"
      <4>1. Piped \/ Started = {}
        BY <2>1, <2>2, <3>2 DEF ResultInv, WaitInv
      <4> QED BY <2>1, <2>2, <3>2, <4>1, SameSlots DEF WaitInv
    <3>3. CASE place \notin {"wait", "ended"}
      BY <2>1, <3>3 DEF WaitInv
    <3> QED BY <3>1, <3>2, <3>3
  <2> QED BY <2>4, <2>5, <2>6 DEF ResultInv
<1>2. CASE Refuse
  <2>1. \A i \in Cards : proc[i] = "none"
    BY <1>2 DEF Refuse, PlaceInv
  <2>2. Started' = {}
    BY <1>2, <2>1, SameStarted, SlotsAreCards DEF Refuse, Started
  <2> QED BY <1>2, <2>2, Nothing DEF Refuse
<1>3. CASE StartDone
  <2>1. Started' = Started /\ place = "start" /\ UNCHANGED <<job, proc>>
    BY <1>3, SameStarted DEF StartDone
  <2>2. CASE Started = {}
    BY <1>3, <2>1, <2>2, Nothing DEF StartDone
  <2>3. CASE Started # {}
    <3>1. place' \in {"scan", "wait"} /\ ret' = ret
      BY <1>3, <2>3 DEF StartDone
    <3>2. CASE place' = "scan"
      BY <3>2, Early
    <3>3. CASE place' = "wait"
      <4>1. GoneInv' /\ ToldInv' /\ CodeInv' /\ EndInv'
        BY <3>3 DEF GoneInv, ToldInv, CodeInv, EndInv, Combining
      <4>2. ret' = 0
        BY <2>1, <3>1 DEF PlaceInv
      <4>3. \A i \in Started : proc'[i] # "reaped"
        BY <2>1, SlotsAreCards DEF PlaceInv
      <4>4. WaitInv'
        BY <2>1, <3>3, <4>2, <4>3 DEF WaitInv
      <4> QED BY <4>1, <4>4 DEF ResultInv
    <3> QED BY <3>1, <3>2, <3>3
  <2> QED BY <2>2, <2>3
<1>4. CASE StartSlot \/ ReadLine \/ PassOver \/ Reap \/ ScanDone \/ ShowTooSoon \/ PollRead
  <2>1. place' \notin {"combine", "wait", "ended"}
    BY <1>4 DEF StartSlot, ReadLine, PassOver, Reap, ScanDone, ShowTooSoon, PollRead
  <2> QED BY <2>1, Early
<1>5. CASE Show
  <2>1. place = "show" /\ at' = 1 /\ UNCHANGED <<job, proc, pipe, state, status, exit_status>>
        /\ UNCHANGED result /\ job.display # "v" /\ job.cmd # "file"
    BY <1>5 DEF Show, slots
  <2>2. CASE ~(\A i \in Slots : Accounted(i))
    BY <1>5, <2>2, Early DEF Show
  <2>3. CASE \A i \in Slots : Accounted(i)
    <3>1. \A i \in Started : state[i] = "exit"
      BY <2>3, SlotsAreCards DEF Accounted
    <3>2. \A i \in Started : Gone(i)'
      BY <2>1, <3>1, SlotsAreCards DEF Gone, ReadInv
    <3>3. ToldInv'
      BY <2>1 DEF ToldInv
    <3>4. place' = "combine" /\ Started' = Started
      BY <1>5, <2>1, <2>3, SameStarted DEF Show
    <3> QED BY <2>1, <3>2, <3>3, <3>4, CombineBegins
  <2> QED BY <2>2, <2>3
<1>6. CASE ShowVerbose
  <2>1. place = "show" /\ at' = 1 /\ UNCHANGED <<job, proc, pipe, state, status, exit_status>>
        /\ UNCHANGED result /\ job.cmd # "file"
        /\ told' = [i \in Cards |-> IF i \in Slots THEN Outcome(i) ELSE told[i]]
    BY <1>6 DEF ShowVerbose, child
  <2>2. CASE ~(\A i \in Slots : Settled(i))
    BY <1>6, <2>2, Early DEF ShowVerbose
  <2>3. CASE \A i \in Slots : Settled(i)
    <3>1. \A i \in Started : state[i] = "exit" /\ ~msg[i]
      BY <2>3, SlotsAreCards DEF Settled
    <3>2. \A i \in Started : Gone(i)'
      BY <2>1, <3>1, SlotsAreCards DEF Gone, ReadInv
    <3>3. place' = "combine" /\ Started' = Started
      BY <1>6, <2>1, <2>3, SameStarted DEF ShowVerbose
    <3>4. \A i \in Started : told'[i] = IF exit_status[i] = 0 THEN "done" ELSE "error"
      BY <2>1, <3>1, SlotsAreCards DEF Outcome
    <3>5. ToldInv'
      BY <2>1, <3>3, <3>4 DEF ToldInv
    <3> QED BY <2>1, <3>2, <3>3, <3>5, CombineBegins
  <2> QED BY <2>2, <2>3
<1>7. CASE PollFile
  <2>1. /\ place = "show" /\ place' = "combine" /\ at' = 1 /\ job.cmd = "file"
        /\ UNCHANGED <<job, status, state>> /\ UNCHANGED result
        /\ proc[1] \in {"zombie", "reaped"}
        /\ proc' = [proc EXCEPT ![1] = "reaped"] /\ pipe' = [pipe EXCEPT ![1] = <<>>]
    BY <1>7 DEF PollFile
  <2>2. Slots = {1} /\ 1 \in Cards
    BY <2>1 DEF Slots, n_procs
  <2>3. Started' = Started /\ Started = {1}
    BY <2>1, <2>2, SameSlots DEF Started, ProcType
  <2>4. proc'[1] = "reaped" /\ pipe'[1] = <<>>
    BY <2>1, <2>2 DEF ProcType, PipeType
  <2>5. CASE proc[1] = "reaped"
    <3>1. state[1] = "exit"
      BY <2>1, <2>2, <2>5 DEF ReadInv
    <3> QED BY <2>1, <2>3, <2>4, <3>1, CombineBegins DEF Gone, ToldInv
  <2>6. CASE proc[1] = "zombie"
    <3>1. exit_status'[1] = IF status[1] = Killed THEN -1 ELSE status[1]
      BY <1>7, <2>2, <2>6 DEF PollFile, SlotType
    <3>2. Gone(1)'
      BY <2>1, <2>4, <3>1 DEF Gone
    <3>3. ToldInv'
      BY <2>1 DEF ToldInv
    <3> QED BY <2>1, <2>3, <3>2, <3>3, CombineBegins
  <2> QED BY <2>1, <2>5, <2>6
<1>8. CASE CombineSlot
  <2>1. /\ place = "combine" /\ place' = "combine" /\ at \in Slots /\ at' = at + 1
        /\ ret' = Combined(at) /\ n_done' = IF Updated(at) THEN n_done + 1 ELSE n_done
        /\ UNCHANGED <<job, proc, pipe, state, status, exit_status, told, advice>>
    BY <1>8 DEF CombineSlot, slots
  <2>2. Started' = Started /\ Slots' = Slots
    BY <2>1, SameStarted, SameSlots
  <2>3. GoneInv'
    BY <2>1, <2>2 DEF ResultInv, GoneInv, Combining, Gone
  <2>4. ToldInv'
    BY <2>1, <2>2 DEF ResultInv, ToldInv, Combining
  <2>5. CodeInv'
    <3>1. CodeInv!2!1 /\ CodeInv!2!2
      BY <2>1 DEF ResultInv, CodeInv, Combining
    <3>2. at \in Nat /\ Slots \subseteq Nat
      BY <2>1 DEF Slots
    <3>3. ret' = 0 <=> \A i \in Slots : i < at' => i \in Started /\ exit_status[i] = 0
      BY <2>1, <3>1, <3>2 DEF Combined
    <3>4. \A i : Updated(i)' <=> Updated(i)
      BY <2>1, <2>2 DEF Updated
    <3>5. n_done' # 0 <=> \E i \in Slots : i < at' /\ Updated(i)
      BY <2>1, <3>1, <3>2 DEF CountInv
    <3> QED BY <2>1, <2>2, <3>3, <3>4, <3>5 DEF CodeInv
  <2>6. EndInv' /\ WaitInv'
    BY <2>1 DEF EndInv, WaitInv
  <2> QED BY <2>3, <2>4, <2>5, <2>6 DEF ResultInv
<1>9. CASE CombineDone
  <2>1. /\ place = "combine" /\ place' = "ended" /\ at \notin Slots
        /\ advice' = (cmd_update /\ n_done # 0 /\ ~job.noreboot)
        /\ UNCHANGED <<job, at, proc, pipe, state, status, exit_status, told, ret, n_done>>
    BY <1>9 DEF CombineDone, slots
  <2>2. /\ Started' = Started /\ Slots' = Slots /\ Piped' = Piped /\ n_procs' = n_procs
        /\ cmd_update' = cmd_update /\ Piped
    BY <2>1, SameStarted, SameSlots DEF PlaceInv
  <2>3. GoneInv'
    BY <2>1, <2>2 DEF ResultInv, GoneInv, Combining, Gone
  <2>4. ToldInv'
    BY <2>1, <2>2 DEF ResultInv, ToldInv, Combining
  <2>5. CodeInv'
    <3>1. \A i : Updated(i)' <=> Updated(i)
      BY <2>1, <2>2 DEF Updated
    <3>2. CodeInv!2!1 /\ CodeInv!2!2
      BY <2>1 DEF ResultInv, CodeInv, Combining
    <3> QED BY <2>1, <2>2, <3>1, <3>2 DEF CodeInv
  <2>6. at' > n_procs'
    BY <2>1, <2>2, SlotsAreCards DEF Slots, ProcType
  <2>7. EndInv'
    BY <2>1, <2>2, <2>6 DEF EndInv
  <2>8. WaitInv'
    BY <2>1, <2>2 DEF WaitInv
  <2> QED BY <2>3, <2>4, <2>5, <2>7, <2>8 DEF ResultInv
<1>10. CASE Wait
  <2>1. PICK i \in Started :
          /\ proc[i] = "zombie" /\ proc' = [proc EXCEPT ![i] = "reaped"]
          /\ ret' = Waited(status[i])
    BY <1>10 DEF Wait
  <2>2. place = "wait" /\ place' = "wait" /\ UNCHANGED <<job, status>>
    BY <1>10 DEF Wait
  <2>3. i \in Cards /\ Started \subseteq Cards
    BY <2>1, SlotsAreCards
  <2>4. Started' = Started
    BY <2>1, <2>2, <2>3, SameSlots DEF Started, ProcType
  <2>5. /\ proc'[i] = "reaped" /\ \A j \in Cards : j # i => proc'[j] = proc[j]
    BY <2>1, <2>3 DEF ProcType
  <2>6. WaitInv!2!1 /\ WaitInv!2!2
    BY <2>2 DEF ResultInv, WaitInv
  <2>7. ret' = 0 => \A j \in Started : proc'[j] = "reaped" => status[j] \in {0, Killed}
    BY <2>1, <2>3, <2>5, <2>6 DEF Waited
  <2>8. ret' # 0 => \E j \in Started : proc'[j] = "reaped" /\ status[j] = ret'
    BY <2>1, <2>3, <2>5, <2>6 DEF Waited
  <2>9. WaitInv'
    BY <2>2, <2>4, <2>7, <2>8 DEF WaitInv
  <2>10. GoneInv' /\ ToldInv' /\ CodeInv' /\ EndInv'
    BY <2>2 DEF GoneInv, ToldInv, CodeInv, EndInv, Combining
  <2> QED BY <2>9, <2>10 DEF ResultInv
<1>11. CASE WaitDone
  <2>1. /\ place = "wait" /\ place' = "ended" /\ \A i \in Started : proc[i] = "reaped"
        /\ UNCHANGED <<job, proc, status, ret>>
    BY <1>11 DEF WaitDone, result
  <2>2. Started' = Started /\ Piped' = Piped /\ ~Piped
    BY <2>1, SameStarted, SameSlots DEF PlaceInv
  <2>3. WaitInv!2!1 /\ WaitInv!2!2
    BY <2>1 DEF ResultInv, WaitInv
  <2>4. WaitInv'
    BY <2>1, <2>2, <2>3 DEF WaitInv
  <2>5. GoneInv' /\ ToldInv' /\ CodeInv' /\ EndInv'
    BY <2>1, <2>2 DEF GoneInv, ToldInv, CodeInv, EndInv, Combining
  <2> QED BY <2>4, <2>5 DEF ResultInv
<1>12. CASE UNCHANGED vars
  <2>1. UNCHANGED <<job, place, at, proc, status, pipe, state, exit_status, told, ret,
                    n_done, advice>>
    BY <1>12 DEF vars, slots, result
  <2>2. /\ Started' = Started /\ Slots' = Slots /\ Piped' = Piped /\ n_procs' = n_procs
        /\ cmd_update' = cmd_update /\ Combining' = Combining
    BY <2>1, SameStarted, SameSlots DEF Combining
  <2>3. GoneInv'
    BY <2>1, <2>2 DEF ResultInv, GoneInv, Gone
  <2>4. ToldInv'
    BY <2>1, <2>2 DEF ResultInv, ToldInv
  <2>5. CodeInv'
    <3>1. \A i : Updated(i)' <=> Updated(i)
      BY <2>1, <2>2 DEF Updated
    <3> QED BY <2>1, <2>2, <3>1 DEF ResultInv, CodeInv
  <2>6. EndInv'
    BY <2>1, <2>2 DEF ResultInv, EndInv
  <2>7. WaitInv'
    BY <2>1, <2>2 DEF ResultInv, WaitInv
  <2> QED BY <2>3, <2>4, <2>5, <2>6, <2>7 DEF ResultInv
<1> QED
  BY <1>1, <1>2, <1>3, <1>4, <1>5, <1>6, <1>7, <1>8, <1>9, <1>10, <1>11, <1>12
     DEF Next, Parent

-------------------------------------------------------------------------------
(* The invariant holds at first and is kept.                                 *)

LEMMA InitInv ==
  ASSUME Init
  PROVE  IInv
<1> USE SupervisorAssumption DEF Init, Cards, Running, Killed
<1>1. ProcType
  <2>1. job.boot \in BOOLEAN
    BY DEF Job
  <2> QED BY <2>1 DEF ProcType, Places
<1>2. SessionType
  BY DEF SessionType
<1>3. PipeType
  BY Empty DEF PipeType
<1>4. SlotType
  BY DEF SlotType
<1>5. FlagType
  BY DEF FlagType
<1>10. CountInv
  BY DEF CountInv
<1>6. ProcInv
  BY DEF ProcInv
<1>7. PlaceInv
  BY DEF PlaceInv
<1>8. ReadInv
  BY DEF ReadInv
<1>9. ResultInv
  BY DEF ResultInv, GoneInv, ToldInv, CodeInv, EndInv, WaitInv, Combining
<1> QED BY <1>1, <1>2, <1>3, <1>4, <1>5, <1>6, <1>7, <1>8, <1>9, <1>10 DEF IInv, TypeInv

LEMMA StepInv ==
  ASSUME IInv, [Next]_vars
  PROVE  IInv'
<1>1. TypeInv'
  BY ProcTypeStep, SessionTypeStep, PipeTypeStep, SlotTypeStep, FlagTypeStep, CountStep
     DEF IInv, TypeInv
<1>2. ProcInv' /\ PlaceInv' /\ ReadInv'
  BY ProcInvStep, PlaceInvStep, ReadInvStep DEF IInv, TypeInv
<1>3. ResultInv'
  BY ResultStep DEF IInv
<1> QED BY <1>1, <1>2, <1>3 DEF IInv

LEMMA Inductive == Spec => []IInv
<1>1. Init => IInv
  BY InitInv
<1>2. IInv /\ [Next]_vars => IInv'
  BY StepInv
<1> QED BY <1>1, <1>2, PTL DEF Spec

(* What the exit status of a child says of its last session. *)
LEMMA StatusSays ==
  ASSUME ProcType, ProcInv, NEW i \in Started, proc[i] = "reaped"
  PROVE  /\ status[i] = 0 <=> Succeeded(i)
         /\ status[i] = Killed <=> Lost(i)
         /\ status[i] = FLASH_UPDATED <=> code[i] = FLASH_UPDATED
         /\ WEXITSTATUS(status[i]) = 0 <=> Succeeded(i) \/ Lost(i)
         /\ WEXITSTATUS(status[i]) = FLASH_UPDATED <=> code[i] = FLASH_UPDATED
<1>1. Reported(i)
  BY SlotsAreCards DEF ProcInv
<1>2. /\ status[i] = 0 <=> Succeeded(i)
      /\ status[i] = Killed <=> Lost(i)
      /\ status[i] = FLASH_UPDATED <=> code[i] = FLASH_UPDATED
  BY <1>1 DEF Reported, Succeeded, Lost
<1> QED BY <1>2 DEF WEXITSTATUS, Killed, FLASH_UPDATED

(* When it ends, micflash shows of each card what its session did. *)
LEMMA AtTheEnd ==
  ASSUME IInv, place = "ended", Piped, NEW i \in Started
  PROVE  /\ Gone(i)
         /\ job.cmd # "file" => /\ exit_status[i] = 0 <=> Succeeded(i) \/ Lost(i)
                                /\ Updated(i) <=> \/ Succeeded(i) \/ Lost(i)
                                                  \/ code[i] = FLASH_UPDATED
<1>1. Gone(i)
  BY DEF IInv, ResultInv, GoneInv, Combining
<1>2. ASSUME job.cmd # "file"
      PROVE  exit_status[i] = WEXITSTATUS(status[i])
  BY <1>1, <1>2, SlotsAreCards DEF Gone, IInv, TypeInv, ReadInv
<1>3. proc[i] = "reaped"
  BY <1>1 DEF Gone
<1> QED BY <1>1, <1>2, <1>3, StatusSays DEF IInv, TypeInv, Updated, FLASH_UPDATED

-------------------------------------------------------------------------------
(* The theorems.                                                             *)

(* Types, and no pipe ever holds more than it can: every variable of the    *)
(* front end keeps its type, whatever the children do.                       *)
THEOREM TypeCorrect == Spec => []TypeOK
<1>1. IInv => TypeOK
  BY DEF IInv, TypeInv, ProcType, SessionType, PipeType, SlotType, FlagType, CountInv,
         TypeOK, Places, Lines2
<1> QED BY <1>1, Inductive, PTL

(* No front end leaves a child behind, nor a line unread: NothingLeft.      *)
THEOREM ReapedCorrect == Spec => []NothingLeft
<1>1. IInv => NothingLeft
  <2> SUFFICES ASSUME IInv, place = "ended", NEW i \in Cards
               PROVE  proc[i] \in {"none", "reaped"} /\ pipe[i] = <<>>
    BY DEF NothingLeft
  <2>1. CASE i \notin Started
    BY <2>1 DEF IInv, PlaceInv, ReadInv, Started
  <2>2. CASE i \in Started /\ Piped
    BY <2>2, AtTheEnd DEF Gone
  <2>3. CASE i \in Started /\ ~Piped
    BY <2>3 DEF IInv, ReadInv, ResultInv, WaitInv
  <2> QED BY <2>1, <2>2, <2>3
<1> QED BY <1>1, Inductive, PTL

(* What the exit code of both tools is worth, for any number of cards:      *)
(* ExitExplained.                                                            *)
THEOREM ExitCorrect == Spec => []ExitExplained
<1>1. IInv => ExitExplained
  <2> SUFFICES ASSUME IInv, place = "ended", Started # {}, ~Snatched
               PROVE  /\ ret = 0 => \A i \in Slots : \/ Succeeded(i) \/ Lost(i)
                                                     \/ ~Piped /\ i \notin Started
                      /\ ret # 0 => \E i \in Slots : ~Succeeded(i)
    BY DEF ExitExplained
  <2>1. CASE ~Piped
    <3>1. WaitInv!2
      BY <2>1 DEF IInv, ResultInv, WaitInv
    <3>2. \A i \in Started : /\ proc[i] = "reaped"
                             /\ status[i] = 0 <=> Succeeded(i)
                             /\ status[i] = Killed <=> Lost(i)
      BY <3>1, StatusSays DEF IInv, TypeInv
    <3> QED BY <2>1, <3>1, <3>2, SlotsAreCards DEF IInv, TypeInv
  <2>2. CASE Piped
    <3>1. /\ ret = 0 <=> \A i \in Slots : i \in Started /\ exit_status[i] = 0
          /\ at > n_procs
      <4>1. CodeInv!2!1 /\ at > n_procs
        BY <2>2 DEF IInv, ResultInv, CodeInv, EndInv, Combining
      <4>2. \A i \in Slots : i < at
        BY <4>1, SlotsAreCards DEF Slots, IInv, TypeInv, ProcType, Cards
      <4> QED BY <4>1, <4>2
    <3>2. CASE job.cmd # "file"
      BY <2>2, <3>1, <3>2, AtTheEnd DEF Succeeded
    <3>3. CASE job.cmd = "file"
      <4>1. Slots = {1} /\ Started = {1}
        BY <3>3, SlotsAreCards DEF Slots, n_procs, IInv, TypeInv
      <4>2. state[1] # "exit"
        BY <2>2, <3>3 DEF Snatched
      <4>3. Gone(1)
        BY <2>2, <4>1, AtTheEnd
      <4>4. /\ proc[1] = "reaped"
            /\ exit_status[1] = IF status[1] = Killed THEN -1 ELSE status[1]
        BY <4>2, <4>3 DEF Gone
      <4>5. status[1] = 0 <=> Succeeded(1)
        BY <4>1, <4>4, StatusSays DEF IInv, TypeInv
      <4>6. exit_status[1] = 0 <=> Succeeded(1)
        BY <4>4, <4>5 DEF Killed
      <4> QED BY <3>1, <4>1, <4>6
    <3> QED BY <3>2, <3>3
  <2> QED BY <2>1, <2>2
<1> QED BY <1>1, Inductive, PTL

(* With -v the outcome of every card is told, and truly: OutcomeTold.       *)
THEOREM OutcomeCorrect == Spec => []OutcomeTold
<1>1. IInv => OutcomeTold
  <2> SUFFICES ASSUME IInv, place = "ended", Piped, job.cmd # "file", job.display = "v",
                      NEW i \in Started
               PROVE  told[i] = IF Succeeded(i) \/ Lost(i) THEN "done" ELSE "error"
    BY DEF OutcomeTold
  <2>1. told[i] = IF exit_status[i] = 0 THEN "done" ELSE "error"
    BY DEF IInv, ResultInv, ToldInv, Combining
  <2> QED BY <2>1, AtTheEnd
<1> QED BY <1>1, Inductive, PTL

(* The advice to restart the host is given when it is due: AdviceMatches.   *)
THEOREM AdviceCorrect == Spec => []AdviceMatches
<1>1. IInv => AdviceMatches
  <2> SUFFICES ASSUME IInv, place = "ended", Piped, Started # {}
               PROVE  AdviceMatches
    BY DEF AdviceMatches
  <2> DEFINE changed(i) == \/ Succeeded(i) \/ Lost(i)
                           \/ i \in Started /\ code[i] = FLASH_UPDATED
             some == \E i \in Slots : changed(i)
  <2>1. /\ advice = (cmd_update /\ n_done # 0 /\ ~job.noreboot)
        /\ n_done # 0 <=> \E i \in Slots : i < at /\ Updated(i)
        /\ at > n_procs
    BY DEF IInv, ResultInv, CodeInv, EndInv, Combining
  <2>2. \A i \in Slots : i < at
    BY <2>1, SlotsAreCards DEF Slots, IInv, TypeInv, ProcType, Cards
  <2>3. ASSUME cmd_update, NEW i \in Slots
        PROVE  Updated(i) <=> changed(i)
    <3>1. CASE i \in Started
      BY <2>3, <3>1, AtTheEnd DEF cmd_update
    <3>2. CASE i \notin Started
      BY <3>2 DEF Updated, Succeeded, Lost
    <3> QED BY <3>1, <3>2
  <2>4. n_done # 0 <=> \E i \in Slots : Updated(i)
    BY <2>1, <2>2
  <2> HIDE DEF changed
  <2>5. cmd_update => (n_done # 0 <=> some)
    BY <2>3, <2>4, Zenon
  <2>6. advice = (cmd_update /\ ~job.noreboot /\ some)
    <3> HIDE DEF some
    <3>1. (cmd_update /\ n_done # 0 /\ ~job.noreboot) = (cmd_update /\ ~job.noreboot /\ some)
      BY <2>5
    <3> QED BY <2>1, <3>1
  <2> QED BY <2>6 DEF AdviceMatches, changed
<1> QED BY <1>1, Inductive, PTL

-------------------------------------------------------------------------------
(* What "... done" reports: the lines of a session, read late, are charged  *)
(* to the operation they were printed in.                                   *)

(* Reading the lines q from the state st, s is the state before line j.     *)
Before(st, q, s, j) ==
  \/ s = st /\ \A k \in 1..(j - 1) : q[k] = "ERROR"
  \/ \E k \in 1..(j - 1) : /\ q[k] = s /\ s # "ERROR"
                           /\ \A m \in (k + 1)..(j - 1) : q[m] = "ERROR"

(* ... it is the last state, and an error is charged to it.                 *)
Ends(st, q, s) == Before(st, q, s, Len(q) + 1)
Charges(st, q, s) == \E j \in 1..Len(q) : q[j] = "ERROR" /\ Before(st, q, s, j)
Holds(q, s) == \E k \in 1..Len(q) : q[k] = s

(* Nothing to read.                                                          *)
LEMMA ReadNothing ==
  ASSUME NEW st, NEW s
  PROVE  /\ Ends(st, <<>>, s) <=> s = st
         /\ ~Charges(st, <<>>, s) /\ ~Holds(<<>>, s)
BY DEF Ends, Charges, Holds, Before

(* A line is appended.                                                       *)
LEMMA LineAppended ==
  ASSUME NEW q \in Seq(Lines), NEW a \in Lines, NEW st, NEW s
  PROVE  LET r == Append(q, a)
         IN  /\ Ends(st, r, s) <=> IF a = "ERROR" THEN Ends(st, q, s) ELSE s = a
             /\ Charges(st, r, s) <=> Charges(st, q, s) \/ (a = "ERROR" /\ Ends(st, q, s))
             /\ Holds(r, s) <=> Holds(q, s) \/ s = a
<1> DEFINE r == Append(q, a)
           n == Len(q)
<1>1. n \in Nat /\ Len(r) = n + 1 /\ r[n + 1] = a /\ \A k \in 1..n : r[k] = q[k]
  OBVIOUS
<1> HIDE DEF r, n
<1>2. \A j \in 1..(n + 1) : Before(st, r, s, j) <=> Before(st, q, s, j)
  <2> TAKE j \in 1..(n + 1)
  <2>1. \A k \in 1..(j - 1) : k \in 1..n /\ r[k] = q[k]
    BY <1>1
  <2>2. \A k \in 1..(j - 1) : \A m \in (k + 1)..(j - 1) : r[m] = q[m]
    BY <1>1
  <2> QED
    BY <2>1, <2>2 DEF Before
<1>3. Holds(r, s) <=> Holds(q, s) \/ s = a
  <2>1. Holds(r, s) => Holds(q, s) \/ s = a
    BY <1>1 DEF Holds, n
  <2>2. Holds(q, s) => Holds(r, s)
    BY <1>1 DEF Holds, n
  <2>3. s = a => Holds(r, s)
    BY <1>1 DEF Holds, n
  <2> QED
    BY <2>1, <2>2, <2>3
<1>4. Charges(st, r, s) <=> Charges(st, q, s) \/ (a = "ERROR" /\ Ends(st, q, s))
  <2>1. ASSUME Charges(st, r, s) PROVE Charges(st, q, s) \/ (a = "ERROR" /\ Ends(st, q, s))
    <3>1. PICK j \in 1..(n + 1) : r[j] = "ERROR" /\ Before(st, r, s, j)
      BY <1>1, <2>1 DEF Charges
    <3>2. Before(st, q, s, j)
      BY <1>2, <3>1
    <3>3. CASE j = n + 1
      BY <1>1, <3>1, <3>2, <3>3 DEF Ends, n
    <3>4. CASE j \in 1..n
      BY <1>1, <3>1, <3>2, <3>4 DEF Charges, n
    <3> QED
      BY <1>1, <3>3, <3>4
  <2>2. ASSUME Charges(st, q, s) PROVE Charges(st, r, s)
    <3>1. PICK j \in 1..n : q[j] = "ERROR" /\ Before(st, q, s, j)
      BY <2>2 DEF Charges, n
    <3>2. j \in 1..Len(r) /\ r[j] = "ERROR" /\ j \in 1..(n + 1)
      BY <1>1, <3>1
    <3> QED
      BY <1>2, <3>1, <3>2 DEF Charges
  <2>3. ASSUME a = "ERROR", Ends(st, q, s) PROVE Charges(st, r, s)
    <3>1. n + 1 \in 1..Len(r) /\ r[n + 1] = "ERROR" /\ n + 1 \in 1..(n + 1)
      BY <1>1, <2>3
    <3>2. Before(st, q, s, n + 1)
      BY <2>3 DEF Ends, n
    <3> QED
      BY <1>2, <3>1, <3>2 DEF Charges
  <2> QED
    BY <2>1, <2>2, <2>3
<1>5. Ends(st, r, s) <=> IF a = "ERROR" THEN Ends(st, q, s) ELSE s = a
  <2>1. Ends(st, r, s) <=> Before(st, r, s, n + 2)
    BY <1>1 DEF Ends
  <2>2. Ends(st, q, s) <=> Before(st, r, s, n + 1)
    BY <1>1, <1>2 DEF Ends, n
  <2>3. CASE a = "ERROR"
    <3>1. ASSUME Before(st, r, s, n + 2) PROVE Before(st, r, s, n + 1)
      <4>1. CASE s = st /\ \A k \in 1..(n + 1) : r[k] = "ERROR"
        BY <1>1, <4>1 DEF Before
      <4>2. CASE \E k \in 1..(n + 1) : /\ r[k] = s /\ s # "ERROR"
                                       /\ \A m \in (k + 1)..(n + 1) : r[m] = "ERROR"
        BY <1>1, <2>3, <4>2 DEF Before
      <4> QED
        BY <1>1, <3>1, <4>1, <4>2 DEF Before
    <3>2. ASSUME Before(st, r, s, n + 1) PROVE Before(st, r, s, n + 2)
      <4>1. CASE s = st /\ \A k \in 1..n : r[k] = "ERROR"
        BY <1>1, <2>3, <4>1 DEF Before
      <4>2. CASE \E k \in 1..n : /\ r[k] = s /\ s # "ERROR"
                                 /\ \A m \in (k + 1)..n : r[m] = "ERROR"
        <5>1. PICK k \in 1..n : /\ r[k] = s /\ s # "ERROR"
                                /\ \A m \in (k + 1)..n : r[m] = "ERROR"
          BY <4>2
        <5>2. k \in 1..(n + 1) /\ \A m \in (k + 1)..(n + 1) : r[m] = "ERROR"
          BY <1>1, <2>3, <5>1
        <5>3. (n + 2) - 1 = n + 1
          BY <1>1
        <5> QED
          BY <5>1, <5>2, <5>3 DEF Before
      <4>3. (n + 1) - 1 = n
        BY <1>1
      <4> QED
        BY <3>2, <4>1, <4>2, <4>3 DEF Before
    <3> QED
      BY <2>1, <2>2, <2>3, <3>1, <3>2
  <2>4. CASE a # "ERROR"
    <3>0. (n + 2) - 1 = n + 1 /\ n + 1 \in 1..(n + 1)
      BY <1>1
    <3>1. ASSUME Before(st, r, s, n + 2) PROVE s = a
      <4>1. ~(\A k \in 1..(n + 1) : r[k] = "ERROR")
        BY <1>1, <2>4, <3>0
      <4>2. PICK k \in 1..(n + 1) : r[k] = s /\ \A m \in (k + 1)..(n + 1) : r[m] = "ERROR"
        BY <3>0, <3>1, <4>1 DEF Before
      <4>3. k = n + 1
        BY <1>1, <2>4, <4>2
      <4> QED
        BY <1>1, <4>2, <4>3
    <3>2. ASSUME s = a PROVE Before(st, r, s, n + 2)
      <4>1. \A m \in (n + 1 + 1)..(n + 1) : r[m] = "ERROR"
        BY <1>1
      <4> QED
        BY <1>1, <2>4, <3>0, <3>2, <4>1 DEF Before
    <3> QED
      BY <2>1, <2>4, <3>1, <3>2
  <2> QED
    BY <2>3, <2>4
<1> QED
  BY <1>3, <1>4, <1>5 DEF r

(* The first line is read: what is left means the same from the next state. *)
LEMMA LineRead ==
  ASSUME NEW q \in Seq(Lines), q # <<>>, NEW st, NEW s
  PROVE  LET a == Head(q)
             next == IF a = "ERROR" THEN st ELSE a
         IN  /\ Ends(next, Tail(q), s) <=> Ends(st, q, s)
             /\ Charges(st, q, s) <=> Charges(next, Tail(q), s) \/ (a = "ERROR" /\ s = st)
             /\ Holds(q, s) <=> Holds(Tail(q), s) \/ s = a
<1> DEFINE r == Tail(q)
           n == Len(r)
           a == Head(q)
           next == IF a = "ERROR" THEN st ELSE a
<1>1. n \in Nat /\ Len(q) = n + 1 /\ q[1] = a /\ \A k \in 1..n : r[k] = q[k + 1]
  OBVIOUS
<1> HIDE DEF r, n, a
<1>2. \A j \in 1..(n + 1) : Before(next, r, s, j) <=> Before(st, q, s, j + 1)
  <2> TAKE j \in 1..(n + 1)
  <2>1. ASSUME Before(next, r, s, j) PROVE Before(st, q, s, j + 1)
    <3>1. CASE s = next /\ \A k \in 1..(j - 1) : r[k] = "ERROR"
      <4>1. \A m \in 2..j : q[m] = "ERROR"
        <5> TAKE m \in 2..j
        <5>1. m - 1 \in 1..(j - 1) /\ m - 1 \in 1..n /\ (m - 1) + 1 = m
          BY <1>1
        <5> QED
          BY <1>1, <3>1, <5>1
      <4>2. (j + 1) - 1 = j /\ 1 \in 1..j /\ \A k \in 1..j : k = 1 \/ k \in 2..j
        BY <1>1
      <4>3. CASE a = "ERROR"
        BY <1>1, <3>1, <4>1, <4>2, <4>3 DEF Before
      <4>4. CASE a # "ERROR"
        <5>1. q[1] = s /\ s # "ERROR" /\ \A m \in (1 + 1)..j : q[m] = "ERROR"
          BY <1>1, <3>1, <4>1, <4>4
        <5> QED
          BY <4>2, <5>1 DEF Before
      <4> QED
        BY <4>3, <4>4
    <3>2. CASE \E k \in 1..(j - 1) : /\ r[k] = s /\ s # "ERROR"
                                     /\ \A m \in (k + 1)..(j - 1) : r[m] = "ERROR"
      <4>1. PICK k \in 1..(j - 1) : /\ r[k] = s /\ s # "ERROR"
                                    /\ \A m \in (k + 1)..(j - 1) : r[m] = "ERROR"
        BY <3>2
      <4>2. k + 1 \in 1..((j + 1) - 1) /\ q[k + 1] = s
        BY <1>1, <4>1
      <4>3. \A m \in ((k + 1) + 1)..((j + 1) - 1) : q[m] = "ERROR"
        <5> TAKE m \in ((k + 1) + 1)..((j + 1) - 1)
        <5>1. m - 1 \in (k + 1)..(j - 1) /\ m - 1 \in 1..n /\ (m - 1) + 1 = m
          BY <1>1
        <5> QED
          BY <1>1, <4>1, <5>1
      <4> QED
        BY <4>1, <4>2, <4>3 DEF Before
    <3> QED
      BY <2>1, <3>1, <3>2 DEF Before
  <2>2. ASSUME Before(st, q, s, j + 1) PROVE Before(next, r, s, j)
    <3>0. (j + 1) - 1 = j
      BY <1>1
    <3>1. CASE s = st /\ \A k \in 1..j : q[k] = "ERROR"
      <4>1. \A k \in 1..(j - 1) : r[k] = "ERROR"
        <5> TAKE k \in 1..(j - 1)
        <5>1. k \in 1..n /\ k + 1 \in 1..j
          BY <1>1
        <5> QED
          BY <1>1, <3>1, <5>1
      <4>2. a = "ERROR"
        BY <1>1, <3>1
      <4> QED
        BY <3>1, <4>1, <4>2 DEF Before
    <3>2. CASE \E k \in 1..j : /\ q[k] = s /\ s # "ERROR"
                               /\ \A m \in (k + 1)..j : q[m] = "ERROR"
      <4>1. PICK k \in 1..j : /\ q[k] = s /\ s # "ERROR"
                              /\ \A m \in (k + 1)..j : q[m] = "ERROR"
        BY <3>2
      <4>2. \A m \in k..(j - 1) : r[m] = "ERROR"
        <5> TAKE m \in k..(j - 1)
        <5>1. m \in 1..n /\ m + 1 \in (k + 1)..j
          BY <1>1
        <5> QED
          BY <1>1, <4>1, <5>1
      <4>3. CASE k = 1
        BY <1>1, <4>1, <4>2, <4>3 DEF Before
      <4>4. CASE k # 1
        <5>1. k - 1 \in 1..(j - 1) /\ k - 1 \in 1..n /\ (k - 1) + 1 = k
          BY <1>1, <4>4
        <5>2. r[k - 1] = s
          BY <1>1, <4>1, <5>1
        <5>3. \A m \in ((k - 1) + 1)..(j - 1) : r[m] = "ERROR"
          BY <4>2, <5>1
        <5> QED
          BY <4>1, <5>1, <5>2, <5>3 DEF Before
      <4> QED
        BY <4>3, <4>4
    <3> QED
      BY <2>2, <3>0, <3>1, <3>2 DEF Before
  <2> QED
    BY <2>1, <2>2
<1>3. Ends(next, r, s) <=> Ends(st, q, s)
  <2>1. n + 1 \in 1..(n + 1)
    BY <1>1
  <2> QED
    BY <1>1, <1>2, <2>1 DEF Ends, n
<1>4. Holds(q, s) <=> Holds(r, s) \/ s = a
  <2>1. ASSUME Holds(q, s) PROVE Holds(r, s) \/ s = a
    <3>1. PICK k \in 1..(n + 1) : q[k] = s
      BY <1>1, <2>1 DEF Holds
    <3>2. CASE k # 1
      <4>1. k - 1 \in 1..n /\ (k - 1) + 1 = k
        BY <1>1, <3>2
      <4> QED
        BY <1>1, <3>1, <4>1 DEF Holds, n
    <3> QED
      BY <1>1, <3>1, <3>2
  <2>2. ASSUME Holds(r, s) PROVE Holds(q, s)
    <3>1. PICK k \in 1..n : r[k] = s
      BY <2>2 DEF Holds, n
    <3>2. k + 1 \in 1..(n + 1) /\ q[k + 1] = s
      BY <1>1, <3>1
    <3> QED
      BY <1>1, <3>2 DEF Holds
  <2>3. s = a => Holds(q, s)
    <3>1. 1 \in 1..(n + 1)
      BY <1>1
    <3> QED
      BY <1>1, <3>1 DEF Holds
  <2> QED
    BY <2>1, <2>2, <2>3
<1>5. Before(st, q, s, 1) <=> s = st
  BY DEF Before
<1>6. Charges(st, q, s) <=> Charges(next, r, s) \/ (a = "ERROR" /\ s = st)
  <2>1. ASSUME Charges(st, q, s) PROVE Charges(next, r, s) \/ (a = "ERROR" /\ s = st)
    <3>1. PICK j \in 1..(n + 1) : q[j] = "ERROR" /\ Before(st, q, s, j)
      BY <1>1, <2>1 DEF Charges
    <3>2. CASE j = 1
      BY <1>1, <1>5, <3>1, <3>2
    <3>3. CASE j # 1
      <4>1. j - 1 \in 1..n /\ j - 1 \in 1..(n + 1) /\ (j - 1) + 1 = j
        BY <1>1, <3>3
      <4>2. r[j - 1] = "ERROR" /\ Before(next, r, s, j - 1)
        BY <1>1, <1>2, <3>1, <4>1
      <4> QED
        BY <4>1, <4>2 DEF Charges, n
    <3> QED
      BY <3>2, <3>3
  <2>2. ASSUME Charges(next, r, s) PROVE Charges(st, q, s)
    <3>1. PICK j \in 1..n : r[j] = "ERROR" /\ Before(next, r, s, j)
      BY <2>2 DEF Charges, n
    <3>2. j \in 1..(n + 1) /\ j + 1 \in 1..(n + 1) /\ q[j + 1] = "ERROR"
      BY <1>1, <3>1
    <3>3. Before(st, q, s, j + 1)
      BY <1>2, <3>1, <3>2
    <3> QED
      BY <1>1, <3>2, <3>3 DEF Charges
  <2>3. ASSUME a = "ERROR", s = st PROVE Charges(st, q, s)
    <3>1. 1 \in 1..(n + 1) /\ q[1] = "ERROR"
      BY <1>1, <2>3
    <3> QED
      BY <1>1, <1>5, <2>3, <3>1 DEF Charges
  <2> QED
    BY <2>1, <2>2, <2>3
<1> QED
  BY <1>3, <1>4, <1>6 DEF r, a

(* The operations a session has begun when it announced p last.              *)
Begun(p) == CASE p = "quiet" -> {}
              [] p = "read" -> {"read"}
              [] p = "update" -> {"read", "update"}
              [] p \in {"smc", "reset"} -> {"read", "update", "smc"}
              [] p = "result" -> {"read"}

(* The slot of a single session that micflash reads.                         *)
Current(i) == IF phase[i] = "quiet" THEN "init" ELSE StateOf(i, phase[i])

(* Every line is read, and the last state the lines lead to is the last one *)
(* announced.                                                                *)
LinesInv(i) == \A s : Ends(state[i], pipe[i], s) <=> s = Current(i)

(* An error printed in an operation has been charged to it, or will be.     *)
ErrorsInv(i) ==
  \A s \in Ops : s \in failed[i] <=> s \in bad[i] \/ Charges(state[i], pipe[i], s)

(* An operation that was begun is shown as done once it was left without an *)
(* error: neither current nor still to be read.                              *)
ShownInv(i) ==
  \A s \in Ops : s \in done[i] <=>
    /\ s \in begun[i] /\ s \notin bad[i]
    /\ s # state[i] /\ ~Holds(pipe[i], s)

(* Operations are announced once, in order, and what is read was begun.     *)
OrderInv(i) ==
  /\ begun[i] \cap Ops \subseteq Begun(phase[i])
  /\ \A s \in Ops : s = state[i] \/ Holds(pipe[i], s) => s \in begun[i]
  /\ \A j, k \in 1..Len(pipe[i]) : pipe[i][j] \in Ops /\ pipe[i][j] = pipe[i][k] => j = k
  /\ \A s \in Ops : s = state[i] => ~Holds(pipe[i], s)

Watched(i) == LinesInv(i) /\ ErrorsInv(i) /\ ShownInv(i) /\ OrderInv(i)

(* The version of a file has no operation to report.                         *)
NoOps(i) ==
  /\ begun[i] \cap Ops = {} /\ done[i] = {} /\ state[i] \notin Ops
  /\ \A s \in Ops : ~Holds(pipe[i], s)

Over(i) == done[i] = (begun[i] \cap Ops) \ failed[i]

DoneInv ==
  \A i \in Cards :
    /\ ~Piped => state[i] = "init"
    /\ Piped /\ ~job.boot =>
         IF job.cmd = "file" THEN NoOps(i)
         ELSE IF state[i] = "exit" THEN Over(i) ELSE Watched(i)

(* What DoneInv says of a card that a step leaves alone.                    *)
DoneOf(i) ==
  <<job, phase[i], round[i], begun[i], failed[i], pipe[i], state[i], bad[i], done[i]>>

LEMMA DoneAlone ==
  ASSUME DoneInv, NEW i \in Cards, UNCHANGED DoneOf(i)
  PROVE  /\ ~Piped' => state'[i] = "init"
         /\ Piped' /\ ~job'.boot =>
              IF job'.cmd = "file" THEN NoOps(i)'
              ELSE IF state'[i] = "exit" THEN Over(i)' ELSE Watched(i)'
<1>1. /\ UNCHANGED <<job, phase[i], round[i], begun[i], failed[i], pipe[i], state[i], bad[i], done[i]>>
  BY DEF DoneOf
<1>2. /\ Piped' = Piped /\ (NoOps(i)' <=> NoOps(i)) /\ (Over(i)' <=> Over(i))
  BY <1>1 DEF Piped, NoOps, Over, Holds, Ops
<1>3. Watched(i)' <=> Watched(i)
  <2>1. Current(i)' = Current(i)
    BY <1>1 DEF Current, StateOf
  <2> QED
    BY <1>1, <2>1 DEF Watched, LinesInv, ErrorsInv, ShownInv, OrderInv, Ends, Charges,
       Holds,
       Before, Ops
<1> QED
  BY <1>1, <1>2, <1>3 DEF DoneInv

(* ... and of a step that changes no card's part.                           *)
LEMMA DoneFrame ==
  ASSUME DoneInv, UNCHANGED <<job, phase, round, begun, failed, pipe, state, bad, done>>
  PROVE  DoneInv'
<1>1. \A i \in Cards : UNCHANGED DoneOf(i)
  BY DEF DoneOf
<1> QED
  BY <1>1, DoneAlone DEF DoneInv, Cards

(* A step of one card.                                                       *)
LEMMA DoneOne ==
  ASSUME DoneInv, NEW i \in Cards, \A k \in Cards \ {i} : UNCHANGED DoneOf(k),
         /\ ~Piped' => state'[i] = "init"
         /\ Piped' /\ ~job'.boot =>
              IF job'.cmd = "file" THEN NoOps(i)'
              ELSE IF state'[i] = "exit" THEN Over(i)' ELSE Watched(i)'
  PROVE  DoneInv'
<1>1. \A k \in Cards : \/ k = i
                       \/ UNCHANGED DoneOf(k)
  OBVIOUS
<1> QED
  BY <1>1, DoneAlone DEF DoneInv, Cards

LEMMA DoneAnnounce ==
  ASSUME IInv, DoneInv, NEW i \in Cards, Announce(i)
  PROVE  DoneInv'
<1>a. ProcType /\ SessionType /\ PipeType /\ SlotType /\ ProcInv /\ ReadInv
  BY DEF IInv, TypeInv
<1>1. PICK p \in Announced(i) :
        /\ phase' = [phase EXCEPT ![i] = p]
        /\ pipe' = Writes(i, StateOf(i, p))
        /\ begun' = [begun EXCEPT ![i] = begun[i] \cup {StateOf(i, p)}]
  BY DEF Announce
<1>2. /\ UNCHANGED <<job, round, failed, state, bad, done, proc>>
      /\ round[i] # 0 /\ proc[i] = "running"
  BY DEF Announce, Awake, slots
<1>3. phase[i] \in {"quiet", "read", "update", "smc", "result", "reset"}
      /\ begun[i] \in SUBSET Lines2 /\ pipe \in [Cards -> Seq(Lines)]
  BY <1>a DEF SessionType, PipeType
<1>4. p \in {"read", "update", "smc", "result", "reset"} /\ StateOf(i, p) \in Lines
      /\ StateOf(i, p) # "ERROR"
  BY <1>a, <1>2, Announcements DEF Lines2
<1>5. p \in Session(i)!Later[phase[i]]
  <2>1. phase'[i] = p
    BY <1>1, <1>a DEF SessionType
  <2> QED
    BY <2>1 DEF Announce, Session!Announce
<1>6. /\ phase'[i] = p /\ begun'[i] = begun[i] \cup {StateOf(i, p)}
      /\ \A k \in Cards \ {i} : UNCHANGED DoneOf(k)
  BY <1>1, <1>2, <1>a DEF SessionType, DoneOf, Writes
<1>7. state[i] # "exit"
  BY <1>a, <1>2 DEF ReadInv
<1>8. CASE ~Piped
  BY <1>2, <1>6, <1>8, DoneOne DEF DoneInv, Piped
<1>9. CASE Piped /\ job.boot
  BY <1>2, <1>6, <1>9, DoneOne DEF DoneInv, Piped
<1>10. CASE Piped /\ ~job.boot
  <2>1. /\ round[i] = 2 /\ StateOf(i, p) = (IF p = "result" THEN "exec" ELSE p)
    BY <1>a, <1>10, <1>4 DEF ProcInv, StateOf
  <2>2. pipe'[i] = Append(pipe[i], StateOf(i, p))
    BY <1>1, <1>3, <1>10 DEF Writes
  <2>3. \A s : /\ Ends(state[i], pipe'[i], s) <=> s = StateOf(i, p)
               /\ Charges(state[i], pipe'[i], s) <=> Charges(state[i], pipe[i], s)
               /\ Holds(pipe'[i], s) <=> Holds(pipe[i], s) \/ s = StateOf(i, p)
    BY <1>3, <1>4, <2>2, LineAppended
  <2>4. CASE job.cmd = "file"
    <3>1. p = "result"
      BY <2>1, <2>4 DEF Announced
    <3>2. NoOps(i)
      BY <1>10, <2>4 DEF DoneInv
    <3>3. NoOps(i)'
      BY <3>1, <3>2, <1>2, <1>6, <2>1, <2>3 DEF NoOps, Ops
    <3> QED
      BY <3>3, <1>2, <1>6, <1>10, <2>4, DoneOne DEF Piped
  <2>5. CASE job.cmd # "file"
    <3>1. Watched(i)
      BY <1>7, <1>10, <2>5 DEF DoneInv
    <3>2. begun[i] \cap Ops \subseteq Begun(phase[i])
      BY <3>1 DEF Watched, OrderInv
    <3>3. StateOf(i, p) \in Ops => StateOf(i, p) \notin begun[i]
      BY <3>2, <1>3, <1>4, <1>5, <2>1 DEF Begun, Session!Later, Ops
    <3>4. begun'[i] \cap Ops \subseteq Begun(p)
      BY <3>2, <1>3, <1>4, <1>5, <1>6, <2>1 DEF Begun, Session!Later, Ops
    <3>5. LinesInv(i)'
      <4>1. Current(i)' = StateOf(i, p)
        BY <1>2, <1>4, <1>6 DEF Current, StateOf
      <4> QED
        BY <4>1, <1>2, <2>3 DEF LinesInv
    <3>6. ErrorsInv(i)'
      BY <3>1, <1>2, <2>3 DEF Watched, ErrorsInv, Ops
    <3>7. ShownInv(i)'
      <4>1. \A s \in Ops : s \in done[i] <=> /\ s \in begun[i] /\ s \notin bad[i]
                                             /\ s # state[i] /\ ~Holds(pipe[i], s)
        BY <3>1 DEF Watched, ShownInv
      <4> QED
        BY <4>1, <3>3, <1>2, <1>6, <2>3 DEF ShownInv, Ops
    <3>8. OrderInv(i)'
      <4>1. \A s \in Ops : s = state[i] \/ Holds(pipe[i], s) => s \in begun[i]
        BY <3>1 DEF Watched, OrderInv
      <4>2. \A s \in Ops : s = state'[i] \/ Holds(pipe'[i], s) => s \in begun'[i]
        BY <4>1, <1>2, <1>6, <2>3
      <4>3. \A s \in Ops : s = state'[i] => ~Holds(pipe'[i], s)
        BY <3>1, <3>3, <4>1, <1>2, <2>3 DEF Watched, OrderInv
      <4>4. ASSUME NEW j \in 1..Len(pipe'[i]), NEW k \in 1..Len(pipe'[i]),
                   pipe'[i][j] \in Ops, pipe'[i][j] = pipe'[i][k]
            PROVE  j = k
        <5>1. /\ Len(pipe'[i]) = Len(pipe[i]) + 1 /\ pipe'[i][Len(pipe[i]) + 1] = StateOf(i, p)
              /\ \A m \in 1..Len(pipe[i]) : pipe'[i][m] = pipe[i][m]
              /\ Len(pipe[i]) \in Nat
          BY <1>3, <1>4, <2>2
        <5>2. \A m \in 1..Len(pipe[i]) : pipe[i][m] \in Ops => pipe[i][m] # StateOf(i, p)
          BY <3>3, <4>1 DEF Holds
        <5>3. CASE j \in 1..Len(pipe[i]) /\ k \in 1..Len(pipe[i])
          BY <3>1, <4>4, <5>1, <5>3 DEF Watched, OrderInv
        <5>4. CASE j = Len(pipe[i]) + 1 /\ k \in 1..Len(pipe[i])
          BY <4>4, <5>1, <5>2, <5>4
        <5>5. CASE k = Len(pipe[i]) + 1 /\ j \in 1..Len(pipe[i])
          BY <4>4, <5>1, <5>2, <5>5
        <5>6. \A m \in 1..Len(pipe'[i]) : m \in 1..Len(pipe[i]) \/ m = Len(pipe[i]) + 1
          BY <5>1
        <5> QED
          BY <5>3, <5>4, <5>5, <5>6
      <4> QED
        BY <3>4, <4>2, <4>3, <4>4, <1>6 DEF OrderInv, Ops
    <3>9. Watched(i)'
      BY <3>5, <3>6, <3>7, <3>8 DEF Watched
    <3> QED
      BY <3>9, <1>2, <1>6, <1>7, <1>10, <2>5, DoneOne DEF Piped
  <2> QED
    BY <2>4, <2>5
<1> QED
  BY <1>8, <1>9, <1>10

LEMMA DoneComplain ==
  ASSUME IInv, DoneInv, NEW i \in Cards, Complain(i)
  PROVE  DoneInv'
<1>a. ProcType /\ SessionType /\ PipeType /\ SlotType /\ ProcInv /\ ReadInv
  BY DEF IInv, TypeInv
<1>1. /\ pipe' = Writes(i, "ERROR")
      /\ failed' = [failed EXCEPT ![i] = failed[i] \cup {StateOf(i, phase[i])}]
  BY DEF Complain
<1>2. /\ UNCHANGED <<job, round, phase, begun, state, bad, done, proc>>
      /\ round[i] # 0 /\ proc[i] = "running"
  BY DEF Complain, Awake, slots
<1>3. phase[i] \in {"quiet", "read", "update", "smc", "result", "reset"}
      /\ pipe \in [Cards -> Seq(Lines)] /\ "ERROR" \in Lines
  BY <1>a DEF SessionType, PipeType, Lines
<1>4. /\ failed'[i] = failed[i] \cup {StateOf(i, phase[i])}
      /\ \A k \in Cards \ {i} : UNCHANGED DoneOf(k)
  BY <1>1, <1>2, <1>a DEF SessionType, DoneOf, Writes
<1>5. state[i] # "exit"
  BY <1>a, <1>2 DEF ReadInv
<1>6. CASE ~Piped
  BY <1>2, <1>4, <1>6, DoneOne DEF DoneInv, Piped
<1>7. CASE Piped /\ job.boot
  BY <1>2, <1>4, <1>7, DoneOne DEF DoneInv, Piped
<1>8. CASE Piped /\ ~job.boot
  <2>1. pipe'[i] = Append(pipe[i], "ERROR")
    BY <1>1, <1>3, <1>8 DEF Writes
  <2>2. \A s : /\ Ends(state[i], pipe'[i], s) <=> Ends(state[i], pipe[i], s)
               /\ Charges(state[i], pipe'[i], s) <=>
                    Charges(state[i], pipe[i], s) \/ Ends(state[i], pipe[i], s)
               /\ Holds(pipe'[i], s) <=> Holds(pipe[i], s) \/ s = "ERROR"
    BY <1>3, <2>1, LineAppended
  <2>3. CASE job.cmd = "file"
    <3>1. NoOps(i)'
      BY <1>2, <1>8, <2>2, <2>3 DEF DoneInv, NoOps, Ops
    <3> QED
      BY <3>1, <1>2, <1>4, <1>8, <2>3, DoneOne DEF Piped
  <2>4. CASE job.cmd # "file"
    <3>1. Watched(i)
      BY <1>5, <1>8, <2>4 DEF DoneInv
    <3>2. LinesInv(i)'
      BY <3>1, <1>2, <2>2 DEF Watched, LinesInv, Current, StateOf
    <3>3. ErrorsInv(i)'
      <4>1. \A s \in Ops : s = Current(i) <=> s = StateOf(i, phase[i])
        BY <1>3 DEF Current, StateOf, Ops
      <4>2. \A s \in Ops : s \in failed[i] <=> s \in bad[i] \/ Charges(state[i], pipe[i], s)
        BY <3>1 DEF Watched, ErrorsInv
      <4>3. \A s \in Ops : Ends(state[i], pipe[i], s) <=> s = StateOf(i, phase[i])
        BY <3>1, <4>1 DEF Watched, LinesInv
      <4> QED
        BY <4>2, <4>3, <1>2, <1>4, <2>2 DEF ErrorsInv, Ops
    <3>4. ShownInv(i)'
      BY <3>1, <1>2, <2>2 DEF Watched, ShownInv, Ops
    <3>5. OrderInv(i)'
      <4>1. /\ Len(pipe'[i]) = Len(pipe[i]) + 1 /\ pipe'[i][Len(pipe[i]) + 1] = "ERROR"
            /\ \A m \in 1..Len(pipe[i]) : pipe'[i][m] = pipe[i][m]
            /\ Len(pipe[i]) \in Nat
        BY <1>3, <2>1
      <4>2. "ERROR" \notin Ops
        BY DEF Ops
      <4>3. \A j, k \in 1..Len(pipe'[i]) :
               pipe'[i][j] \in Ops /\ pipe'[i][j] = pipe'[i][k] => j = k
        <5>1. \A j \in 1..Len(pipe'[i]) : pipe'[i][j] \in Ops => j \in 1..Len(pipe[i])
          BY <4>1, <4>2
        <5> QED
          BY <3>1, <4>1, <5>1 DEF Watched, OrderInv
      <4>4. \A s \in Ops : Holds(pipe'[i], s) <=> Holds(pipe[i], s)
        BY <2>2, <4>2
      <4> QED
        BY <3>1, <4>3, <4>4, <1>2 DEF Watched, OrderInv, Ops
    <3>6. Watched(i)'
      BY <3>2, <3>3, <3>4, <3>5 DEF Watched
    <3> QED
      BY <3>6, <1>2, <1>4, <1>5, <1>8, <2>4, DoneOne DEF Piped
  <2> QED
    BY <2>3, <2>4
<1> QED
  BY <1>6, <1>7, <1>8

LEMMA DoneReadLine ==
  ASSUME IInv, DoneInv, NEW i \in Cards, i = at, ReadLine
  PROVE  DoneInv'
<1>a. ProcType /\ SessionType /\ PipeType /\ SlotType /\ PlaceInv
  BY DEF IInv, TypeInv
<1>0. /\ Piped /\ state[i] # "exit" /\ pipe[i] # <<>>
      /\ UNCHANGED <<job, phase, round, begun, failed>>
  BY <1>a, SlotsAreCards DEF ReadLine, PlaceInv, child
<1> DEFINE a == Head(pipe[i])
           q == Tail(pipe[i])
           next == IF a = "ERROR" THEN state[i] ELSE a
<1>1. /\ pipe \in [Cards -> Seq(Lines)] /\ pipe[i] \in Seq(Lines)
      /\ state \in [Cards -> {"init", "exit"} \cup Lines2]
      /\ bad \in [Cards -> SUBSET Ops] /\ done \in [Cards -> SUBSET Ops]
  BY <1>a, <1>0 DEF PipeType, SlotType
<1>2. a \in Lines /\ a # "exit"
  BY <1>a, <1>0, HeadLine
<1>3. pipe'[i] = q /\ \A k \in Cards \ {i} : pipe'[k] = pipe[k]
  BY <1>0, <1>1 DEF ReadLine
<1>4. state'[i] = next /\ \A k \in Cards \ {i} : state'[k] = state[k]
  BY <1>0, <1>1 DEF ReadLine
<1>5. /\ bad'[i] = (IF a = "ERROR" THEN bad[i] \cup ({state[i]} \cap Ops) ELSE bad[i])
      /\ \A k \in Cards \ {i} : bad'[k] = bad[k]
  <2>1. CASE a = "ERROR"
    BY <1>0, <1>1, <2>1 DEF ReadLine, SetErrorStatus
  <2>2. CASE a # "ERROR"
    BY <1>0, <1>1, <2>2 DEF ReadLine
  <2> QED BY <2>1, <2>2
<1>6. /\ done'[i] = (IF a = "ERROR" THEN done[i]
                      ELSE done[i] \cup (({state[i]} \cap Ops) \ bad[i]))
      /\ \A k \in Cards \ {i} : done'[k] = done[k]
  <2>1. CASE a = "ERROR"
    BY <1>0, <1>1, <2>1 DEF ReadLine
  <2>2. CASE a # "ERROR"
    BY <1>0, <1>1, <2>2 DEF ReadLine, ShowDone
  <2> QED BY <2>1, <2>2
<1>7. \A k \in Cards \ {i} : UNCHANGED DoneOf(k)
  BY <1>0, <1>3, <1>4, <1>5, <1>6 DEF DoneOf
<1>8. \A s : /\ Ends(next, q, s) <=> Ends(state[i], pipe[i], s)
             /\ Charges(state[i], pipe[i], s) <=>
                  Charges(next, q, s) \/ (a = "ERROR" /\ s = state[i])
             /\ Holds(pipe[i], s) <=> Holds(q, s) \/ s = a
  BY <1>0, <1>1, LineRead
<1>9. Piped'
  BY <1>0 DEF Piped
<1> HIDE DEF a, q, next
<1>10. CASE job.boot
  BY <1>0, <1>7, <1>9, <1>10, DoneOne
<1>11. CASE ~job.boot /\ job.cmd = "file"
  <2>1. NoOps(i)
    BY <1>0, <1>11 DEF DoneInv
  <2>2. NoOps(i)'
    <3>1. next \notin Ops /\ \A s \in Ops : ~Holds(q, s)
      BY <2>1, <1>8 DEF NoOps, next
    <3>2. done'[i] = {}
      BY <2>1, <1>6 DEF NoOps
    <3> QED
      BY <2>1, <3>1, <3>2, <1>0, <1>3, <1>4 DEF NoOps, Ops
  <2> QED
    BY <2>2, <1>0, <1>7, <1>9, <1>11, DoneOne
<1>12. CASE ~job.boot /\ job.cmd # "file"
  <2>1. Watched(i)
    BY <1>0, <1>12 DEF DoneInv
  <2>2. LinesInv(i)'
    <3>1. Current(i)' = Current(i)
      BY <1>0 DEF Current, StateOf
    <3> QED
      BY <2>1, <3>1, <1>3, <1>4, <1>8 DEF Watched, LinesInv
  <2>3. ErrorsInv(i)'
    <3>1. \A s \in Ops : s \in failed[i] <=> s \in bad[i] \/ Charges(state[i], pipe[i], s)
      BY <2>1 DEF Watched, ErrorsInv
    <3>2. \A s \in Ops : s \in bad'[i] <=> s \in bad[i] \/ (a = "ERROR" /\ s = state[i])
      BY <1>5
    <3>3. \A s \in Ops : s \in failed'[i] <=> s \in bad'[i] \/ Charges(state'[i], pipe'[i], s)
      BY <3>1, <3>2, <1>0, <1>3, <1>4, <1>8
    <3> QED
      BY <3>3, <1>0 DEF ErrorsInv, Ops
  <2>4. /\ \A s \in Ops : s = state[i] \/ Holds(pipe[i], s) => s \in begun[i]
        /\ \A j, k \in 1..Len(pipe[i]) :
              pipe[i][j] \in Ops /\ pipe[i][j] = pipe[i][k] => j = k
        /\ \A s \in Ops : s = state[i] => ~Holds(pipe[i], s)
    BY <2>1 DEF Watched, OrderInv
  <2>5. /\ Len(q) \in Nat /\ Len(pipe[i]) = Len(q) + 1 /\ pipe[i][1] = a
        /\ \A k \in 1..Len(q) : q[k] = pipe[i][k + 1]
    BY <1>0, <1>1 DEF a, q
  <2>6. a \in Ops => ~Holds(q, a)
    <3>1. ASSUME a \in Ops, NEW k \in 1..Len(q), q[k] = a PROVE FALSE
      <4>1. k + 1 \in 1..Len(pipe[i]) /\ 1 \in 1..Len(pipe[i]) /\ k + 1 # 1
        BY <2>5
      <4> QED
        BY <2>4, <2>5, <3>1, <4>1
    <3> QED
      BY <3>1 DEF Holds
  <2>7. OrderInv(i)'
    <3>1. \A j, k \in 1..Len(q) : q[j] \in Ops /\ q[j] = q[k] => j = k
      <4>1. ASSUME NEW j \in 1..Len(q), NEW k \in 1..Len(q), q[j] \in Ops, q[j] = q[k]
            PROVE  j = k
        <5>1. j + 1 \in 1..Len(pipe[i]) /\ k + 1 \in 1..Len(pipe[i])
          BY <2>5
        <5>2. j + 1 = k + 1
          BY <2>4, <2>5, <4>1, <5>1
        <5> QED
          BY <5>2
      <4> QED
        BY <4>1
    <3>2. \A s \in Ops : s = next => ~Holds(q, s)
      BY <2>4, <2>6, <1>8 DEF next
    <3>3. \A s \in Ops : s = next \/ Holds(q, s) => s \in begun[i]
      BY <2>4, <1>8 DEF next
    <3>4. begun'[i] \cap Ops \subseteq Begun(phase'[i])
      BY <2>1, <1>0 DEF Watched, OrderInv
    <3> QED
      BY <3>1, <3>2, <3>3, <3>4, <1>0, <1>3, <1>4 DEF OrderInv, Ops
  <2>8. ShownInv(i)'
    <3>1. \A s \in Ops : s \in done[i] <=> /\ s \in begun[i] /\ s \notin bad[i]
                                            /\ s # state[i] /\ ~Holds(pipe[i], s)
      BY <2>1 DEF Watched, ShownInv
    <3>2. CASE a = "ERROR"
      <4>1. \A s \in Ops : Holds(pipe[i], s) <=> Holds(q, s)
        BY <3>2, <1>8 DEF Ops
      <4>2. \A s \in Ops : s \in done'[i] <=> /\ s \in begun[i] /\ s \notin bad'[i]
                                               /\ s # next /\ ~Holds(q, s)
        BY <3>1, <3>2, <4>1, <1>5, <1>6 DEF next
      <4> QED
        BY <4>2, <1>0, <1>3, <1>4 DEF ShownInv, Ops
    <3>3. CASE a # "ERROR"
      <4>1. \A s \in Ops : Holds(pipe[i], s) <=> Holds(q, s) \/ s = a
        BY <1>8
      <4>2. \A s \in Ops : s \in done'[i] <=> s \in done[i] \/ (s = state[i] /\ s \notin bad[i])
        BY <3>3, <1>6
      <4>3. \A s \in Ops : s \in done'[i] <=> /\ s \in begun[i] /\ s \notin bad'[i]
                                               /\ s # next /\ ~Holds(q, s)
        <5> TAKE s \in Ops
        <5>1. CASE s = state[i]
          BY <2>4, <3>1, <3>3, <4>1, <4>2, <5>1, <1>5 DEF next
        <5>2. CASE s # state[i]
          BY <2>6, <3>1, <3>3, <4>1, <4>2, <5>2, <1>5 DEF next
        <5> QED
          BY <5>1, <5>2
      <4> QED
        BY <4>3, <1>0, <1>3, <1>4 DEF ShownInv, Ops
    <3> QED
      BY <3>2, <3>3
  <2>9. Watched(i)' /\ state'[i] # "exit"
    BY <2>2, <2>3, <2>7, <2>8, <1>0, <1>2, <1>4 DEF Watched, next
  <2> QED
    BY <2>9, <1>0, <1>7, <1>9, <1>12, DoneOne
<1> QED
  BY <1>10, <1>11, <1>12

LEMMA DoneReap ==
  ASSUME IInv, DoneInv, NEW i \in Cards, i = at, Reap
  PROVE  DoneInv'
<1>a. ProcType /\ SessionType /\ PipeType /\ SlotType /\ PlaceInv
  BY DEF IInv, TypeInv
<1>0. /\ Piped /\ state[i] # "exit" /\ pipe[i] = <<>>
      /\ UNCHANGED <<job, phase, round, begun, failed, pipe, bad>>
  BY <1>a, SlotsAreCards DEF Reap, PlaceInv, child
<1>1. /\ state \in [Cards -> {"init", "exit"} \cup Lines2] /\ done \in [Cards -> SUBSET Ops]
      /\ bad \in [Cards -> SUBSET Ops]
  BY <1>a DEF SlotType
<1>2. state'[i] = "exit" /\ \A k \in Cards \ {i} : state'[k] = state[k]
  BY <1>0, <1>1 DEF Reap
<1>3. /\ done'[i] = done[i] \cup (({state[i]} \cap Ops) \ bad[i])
      /\ \A k \in Cards \ {i} : done'[k] = done[k]
  BY <1>0, <1>1 DEF Reap, ShowDone
<1>4. \A k \in Cards \ {i} : UNCHANGED DoneOf(k)
  BY <1>0, <1>2, <1>3 DEF DoneOf
<1>5. Piped'
  BY <1>0 DEF Piped
<1>6. CASE job.boot
  BY <1>0, <1>4, <1>5, <1>6, DoneOne
<1>7. CASE ~job.boot /\ job.cmd = "file"
  <2>1. NoOps(i)
    BY <1>0, <1>7 DEF DoneInv
  <2>2. done'[i] = {} /\ "exit" \notin Ops
    BY <2>1, <1>3 DEF NoOps, Ops
  <2>3. NoOps(i)'
    BY <2>1, <2>2, <1>0, <1>2 DEF NoOps, Ops
  <2> QED
    BY <2>3, <1>0, <1>4, <1>5, <1>7, DoneOne
<1>8. CASE ~job.boot /\ job.cmd # "file"
  <2>1. Watched(i)
    BY <1>0, <1>8 DEF DoneInv
  <2>2. \A s \in Ops : s \in failed[i] <=> s \in bad[i]
    BY <2>1, <1>0, ReadNothing DEF Watched, ErrorsInv
  <2>3. \A s \in Ops : s \in done[i] <=> s \in begun[i] /\ s \notin bad[i] /\ s # state[i]
    BY <2>1, <1>0, ReadNothing DEF Watched, ShownInv
  <2>4. \A s \in Ops : s = state[i] => s \in begun[i]
    BY <2>1 DEF Watched, OrderInv
  <2>5. \A s \in Ops : s \in done'[i] <=> s \in begun[i] /\ s \notin failed[i]
    BY <2>2, <2>3, <2>4, <1>3
  <2>6. done'[i] \subseteq Ops
    BY <1>0, <1>1, <1>3
  <2>7. done'[i] = (begun[i] \cap Ops) \ failed[i]
    BY <2>5, <2>6
  <2>8. Over(i)'
    BY <2>7, <1>0 DEF Over, Ops
  <2> QED
    BY <2>8, <1>0, <1>2, <1>4, <1>5, <1>8, DoneOne
<1> QED
  BY <1>6, <1>7, <1>8

(* Reading the version of a file drops lines, which name no operation.      *)
LEMMA DonePoll ==
  ASSUME IInv, DoneInv, PollRead \/ PollFile
  PROVE  DoneInv'
<1>a. PipeType /\ PlaceInv /\ N \in Nat \ {0}
  BY SupervisorAssumption DEF IInv, TypeInv
<1>1. /\ Piped /\ job.cmd = "file" /\ 1 \in Cards
      /\ UNCHANGED <<job, phase, round, begun, failed, state, bad, done>>
      /\ pipe' = [pipe EXCEPT ![1] = <<>>]
  BY <1>a DEF PollRead, PollFile, PlaceInv, child, slots, Cards
<1>2. pipe'[1] = <<>> /\ \A k \in Cards \ {1} : pipe'[k] = pipe[k]
  BY <1>a, <1>1 DEF PipeType
<1>3. \A k \in Cards \ {1} : UNCHANGED DoneOf(k)
  BY <1>1, <1>2 DEF DoneOf
<1>4. ~job.boot => NoOps(1)'
  BY <1>1, <1>2, ReadNothing DEF DoneInv, NoOps, Ops
<1> QED
  BY <1>1, <1>3, <1>4, DoneOne DEF Piped

(* A second session is the boot-loader's.                                    *)
LEMMA DoneBoot ==
  ASSUME IInv, DoneInv, NEW i \in Cards, BootNext(i) \/ BootCheck(i)
  PROVE  DoneInv'
<1>1. UNCHANGED <<job, begun, failed, pipe, state, bad, done>>
  BY DEF BootNext, BootCheck, slots
<1>2. job.boot
  BY DEF BootNext, BootCheck, IInv, ProcInv
<1> QED
  BY <1>1, <1>2 DEF DoneInv, Piped

LEMMA DoneStep == IInv /\ DoneInv /\ [Next]_vars => DoneInv'
<1> SUFFICES ASSUME IInv, DoneInv, [Next]_vars PROVE DoneInv'
  OBVIOUS
<1>1. ASSUME NEW i \in Cards, Child(i) PROVE DoneInv'
  <2>1. CASE End(i)
    BY <2>1, DoneFrame DEF End, slots
  <2> QED
    BY <1>1, <2>1, DoneAnnounce, DoneComplain, DoneBoot DEF Child
<1>2. CASE ReadLine \/ Reap \/ PollRead \/ PollFile
  <2>1. ReadLine \/ Reap => at \in Cards
    BY SlotsAreCards DEF IInv, TypeInv, ReadLine, Reap
  <2> QED
    BY <1>2, <2>1, DoneReadLine, DoneReap, DonePoll
<1>3. CASE Refuse \/ StartSlot \/ StartDone
  BY <1>3, DoneFrame DEF Refuse, StartSlot, StartDone, child, slots
<1>4. CASE PassOver \/ ScanDone \/ Show \/ ShowTooSoon \/ ShowVerbose
  BY <1>4, DoneFrame DEF PassOver, ScanDone, Show, ShowTooSoon, ShowVerbose, child, slots
<1>5. CASE CombineSlot \/ CombineDone \/ Wait \/ WaitDone
  BY <1>5, DoneFrame DEF CombineSlot, CombineDone, Wait, WaitDone, child, slots
<1>6. CASE UNCHANGED vars
  BY <1>6, DoneFrame DEF vars, child, slots
<1> QED
  BY <1>1, <1>2, <1>3, <1>4, <1>5, <1>6 DEF Next, Parent

(* For every command line, number of cards, pipe and pace of the children:  *)
(* "... done" is shown for exactly the operations that the session began    *)
(* and left without an error.                                                *)
THEOREM DoneCorrect == Spec => []DoneReports
<1>1. Init => DoneInv
  <2> SUFFICES ASSUME Init, NEW i \in Cards
               PROVE  /\ ~Piped => state[i] = "init"
                      /\ Piped /\ ~job.boot =>
                           IF job.cmd = "file" THEN NoOps(i)
                           ELSE IF state[i] = "exit" THEN Over(i) ELSE Watched(i)
    BY DEF DoneInv
  <2>1. /\ state[i] = "init" /\ pipe[i] = <<>> /\ begun[i] = {} /\ failed[i] = {} /\ bad[i] = {}
        /\ done[i] = {} /\ phase[i] = "quiet"
    BY DEF Init
  <2>2. NoOps(i)
    BY <2>1, ReadNothing DEF NoOps, Ops
  <2>3. \A s \in Ops : s # "init"
    BY DEF Ops
  <2>4. LinesInv(i) /\ ErrorsInv(i) /\ ShownInv(i)
    BY <2>1, ReadNothing DEF LinesInv, ErrorsInv, ShownInv, Current
  <2>5. OrderInv(i)
    <3>1. Len(pipe[i]) = 0
      BY <2>1
    <3> QED
      BY <2>1, <2>3, <3>1, ReadNothing DEF OrderInv
  <2> QED
    BY <2>1, <2>2, <2>4, <2>5 DEF Watched
<1>2. IInv /\ DoneInv => DoneReports
  <2> SUFFICES ASSUME IInv, DoneInv, NEW i \in Slots, state[i] = "exit", ~job.boot
               PROVE  done[i] = (begun[i] \cap Ops) \ failed[i]
    BY DEF DoneReports
  <2>1. i \in Cards
    BY SlotsAreCards DEF IInv, TypeInv
  <2>2. Piped
    BY <2>1 DEF DoneInv
  <2>3. CASE job.cmd = "file"
    BY <2>1, <2>2, <2>3 DEF DoneInv, NoOps
  <2>4. CASE job.cmd # "file"
    BY <2>1, <2>2, <2>4 DEF DoneInv, Over
  <2> QED
    BY <2>3, <2>4
<1> QED
  BY <1>1, <1>2, DoneStep, Inductive, PTL DEF Spec

-------------------------------------------------------------------------------
(* Nobody is stuck. *)

(* A process with one session ends with it.                                  *)
RunInv ==
  \A i \in Cards : ~job.boot /\ proc[i] \in {"none", "running"} => code[i] = Running

LEMMA RunStep == IInv /\ RunInv /\ [Next]_vars => RunInv'
<1> SUFFICES ASSUME IInv, RunInv, [Next]_vars PROVE RunInv'
  OBVIOUS
<1>1. /\ proc \in [Cards -> {"none", "running", "zombie", "reaped"}]
      /\ code \in [Cards -> {Running, Killed} \cup 0..10]
  BY DEF IInv, TypeInv, ProcType
<1>2. ASSUME NEW i \in Cards, Child(i) PROVE RunInv'
  <2>1. CASE Announce(i) \/ Complain(i)
    BY <2>1 DEF Announce, Complain, RunInv
  <2>2. CASE End(i)
    <3>1. CASE job.boot
      BY <2>2, <3>1 DEF End, RunInv
    <3>2. CASE ~job.boot
      <4>1. PICK c : code' = [code EXCEPT ![i] = c]
        BY <2>2 DEF End
      <4>2. proc' = [proc EXCEPT ![i] = "zombie"] /\ job' = job
        BY <2>2, <3>2 DEF End, EndProcess
      <4>3. \A k \in Cards : /\ k = i => proc'[k] = "zombie"
                             /\ k # i => proc'[k] = proc[k] /\ code'[k] = code[k]
        BY <1>1, <4>1, <4>2
      <4> QED
        BY <4>2, <4>3 DEF RunInv
    <3> QED
      BY <3>1, <3>2
  <2>3. CASE BootCheck(i)
    BY <1>1, <2>3 DEF BootCheck, EndProcess, RunInv
  <2>4. CASE BootNext(i)
    BY <2>4 DEF BootNext, RunInv
  <2> QED
    BY <1>2, <2>1, <2>2, <2>3, <2>4 DEF Child
<1>3. CASE StartSlot
  <2>1. code' = code /\ job' = job
    BY <1>3 DEF StartSlot, child
  <2>2. proc[at] = "none"
    BY <1>3, SlotsAreCards DEF StartSlot, IInv, TypeInv, PlaceInv, CountInv, Cards
  <2>3. \A k \in Cards : proc'[k] = proc[k] \/ proc[k] = "none"
    BY <1>1, <1>3, <2>2 DEF StartSlot
  <2> QED
    BY <2>1, <2>3 DEF RunInv
<1>4. CASE Reap \/ PollFile \/ Wait
  <2>1. /\ code' = code /\ job' = job
        /\ \A k \in Cards : proc'[k] = proc[k] \/ proc'[k] = "reaped"
    BY <1>1, <1>4 DEF Reap, PollFile, Wait, child
  <2> QED
    BY <2>1 DEF RunInv
<1>5. CASE \/ Refuse \/ StartDone \/ ReadLine \/ PassOver \/ ScanDone \/ Show \/ ShowTooSoon
           \/ ShowVerbose \/ PollRead \/ CombineSlot \/ CombineDone \/ WaitDone
  BY <1>5 DEF Refuse, StartDone, ReadLine, PassOver, ScanDone, Show, ShowTooSoon,
     ShowVerbose,
              PollRead, CombineSlot, CombineDone, WaitDone, child, RunInv
<1>6. CASE UNCHANGED vars
  BY <1>6 DEF vars, child, RunInv
<1> QED
  BY <1>2, <1>3, <1>4, <1>5, <1>6 DEF Next, Parent

(* Neither front end ever waits for a child that is blocked on its pipe, or  *)
(* for one that it has already reaped: micflash empties every pipe before it *)
(* waits (set_state(), poll_std_out_err()), and the children of mpssflash    *)
(* write to no pipe.                                                         *)
THEOREM WaitCorrect == Spec => []NobodyStuck
<1>1. Init => RunInv
  BY DEF Init, RunInv
<1>2. IInv /\ RunInv => NobodyStuck
  <2> SUFFICES ASSUME IInv, RunInv, place # "ended", ~ParentMoves
               PROVE  \E i \in Started : ChildMoves(i)
    BY DEF NobodyStuck
  <2>1. /\ proc \in [Cards -> {"none", "running", "zombie", "reaped"}]
        /\ place \in {"start", "scan", "show", "combine", "wait", "ended"}
        /\ Started \subseteq Slots /\ Slots \subseteq Cards
    BY SlotsAreCards DEF IInv, TypeInv, ProcType, Places
  <2>2. ASSUME NEW i \in Started, proc[i] = "running", pipe[i] = <<>>
        PROVE  \E j \in Started : ChildMoves(j)
    <3>1. Awake(i)
      BY <2>2, SupervisorAssumption DEF Awake
    <3>2. code[i] = Running \/ job.boot
      BY <2>1, <2>2, SlotsAreCards DEF RunInv, IInv, TypeInv, ProcType, Job
    <3> QED
      BY <3>1, <3>2 DEF ChildMoves
  <2>3. CASE place = "scan"
    <3>1. at \in Started /\ state[at] # "exit" /\ proc[at] \notin {"running", "zombie"}
      BY <2>3 DEF ParentMoves
    <3>2. proc[at] = "reaped" /\ at \in Cards
      BY <2>1, <3>1 DEF Started
    <3> QED
      BY <2>3, <3>1, <3>2 DEF IInv, ReadInv
  <2>4. CASE place = "show"
    <3>1. job.cmd = "file" /\ pipe[1] = <<>> /\ proc[1] \notin {"zombie", "reaped"}
      BY <2>4 DEF ParentMoves
    <3>2. Slots = {1} /\ Started # {}
      BY <2>4, <3>1 DEF Slots, n_procs, IInv, PlaceInv
    <3>3. 1 \in Started /\ proc[1] = "running"
      BY <2>1, <3>1, <3>2 DEF Started
    <3> QED
      BY <2>2, <3>1, <3>3
  <2>5. CASE place = "wait"
    <3>1. PICK i \in Started : proc[i] \notin {"zombie", "reaped"}
      BY <2>5 DEF ParentMoves
    <3>2. proc[i] = "running" /\ i \in Cards
      BY <2>1, <3>1 DEF Started
    <3>3. pipe[i] = <<>>
      BY <2>5, <3>2 DEF IInv, PlaceInv, ReadInv
    <3> QED
      BY <2>2, <3>2, <3>3
  <2> QED
    BY <2>1, <2>3, <2>4, <2>5 DEF ParentMoves
<1> QED
  BY <1>1, <1>2, RunStep, Inductive, PTL DEF Spec
===============================================================================
