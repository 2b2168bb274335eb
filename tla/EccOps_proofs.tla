----------------------------- MODULE EccOps_proofs -----------------------------
(***************************************************************************)
(* What EccOps guarantees for every number of work areas, every assignment *)
(* of them to cards and both status threads.                               *)
(***************************************************************************)
EXTENDS EccOps, FiniteSetTheorems, TLAPS

-------------------------------------------------------------------------------
(* The inductive invariant, in named parts.                                  *)

ThreadType ==
  /\ main \in {"status", "spawn", "report", "ended"}
  /\ pc \in [Areas -> OpPcs]
  /\ step \in [Areas -> Steps] /\ type \in [Areas -> {"INFO", "WARNING", "ERROR"}]
  /\ mtx \in Areas \cup {"free", "status"}
  /\ status \in StatusPcs

SetType == helping \subseteq Areas /\ unread \subseteq Areas
           /\ entered \subseteq Areas /\ left \subseteq Areas
           /\ trusted \subseteq Areas /\ changed \subseteq Areas

BoardType ==
  /\ exit_code \in {0, 1}
  /\ card \in [Cards -> {"ready", "online", "booting", "maint", "resetting"}]
  /\ ecc \in [Cards -> {"none", "running", "full", "completed", "failed"}]

FlagType ==
  verbose \in BOOLEAN /\ at_least_one_success \in BOOLEAN /\ restart \in BOOLEAN

Types == ThreadType /\ SetType /\ BoardType /\ FlagType

(* What step_ says of where a thread is: an area is past its signal exactly *)
(* when it is resetting or has finished with it.                             *)
StepInv ==
  \A a \in Areas :
    /\ pc[a] \in {"new", "start", "enter"} => step[a] \in {"START", "ENTER_MAINT"}
    /\ pc[a] \in {"set", "poll"} => step[a] = "SET_ECC"
    /\ pc[a] \in {"lock", "signal", "unlock"} => step[a] \in {"SET_ECC", "FINISH"}
    /\ pc[a] \in {"leave", "wait"} => step[a] = "RESET"
    /\ pc[a] \in {"done", "exited"} => step[a] = "FINISH"

(* op_complete_mtx_ protects the critical sections of all threads; the       *)
(* status thread does nothing before it is created.                          *)
MutexInv ==
  /\ main = "status" => status = "off"
  /\ \A a \in Areas : pc[a] \in {"signal", "unlock"} <=> mtx = a
  /\ status = "check" <=> mtx = "status"

(* Which status thread runs, and how many lines it has printed.              *)
DisplayInv ==
  /\ status \in {"verbose", "reading"} => verbose
  /\ status \in {"start", "check", "waiting", "woken"} => ~verbose
  /\ shown \in Nat /\ shown <= op_complete
  /\ status \in {"off", "start"} => shown = 0
  /\ status = "check" => shown \in {0, op_complete}
  /\ ~verbose /\ status = "exited" => shown \in {0, N} /\ op_complete = N

(* The ECC operation of an area was seen complete; the area needs its card.  *)
Succeeded(a) == \/ pc[a] = "leave"
                \/ pc[a] \in {"lock", "signal", "unlock"} /\ step[a] = "SET_ECC"
Holding(a) == pc[a] \in {"set", "poll"} \/ Succeeded(a)

(* What becomes of an area: nobody has left maintenance mode without a       *)
(* success, and an area that is over has left it or is an error.             *)
AreaInv ==
  \A a \in Areas :
    /\ pc[a] \in {"new", "start", "enter"} => a \notin entered
    /\ a \in left => pc[a] \in {"wait", "done", "exited"} /\ at_least_one_success
    /\ step[a] = "FINISH" => type[a] = "ERROR" \/ a \in left
    /\ pc[a] = "wait" => a \in left
    /\ Succeeded(a) => at_least_one_success

(* Who works on a card holds it, alone; before the signal its ECC operation  *)
(* has completed or was trusted to at 100 percent; and so it is of every     *)
(* area that has reset its card.                                             *)
HolderInv ==
  /\ \A a \in Areas : Holding(a) => a \in entered \ left
  /\ \A a \in Areas :
       Succeeded(a) => \/ ecc[CardOf[a]] = "completed"
                       \/ ecc[CardOf[a]] \in {"full", "failed"} /\ a \in trusted
  /\ left \subseteq changed \cup trusted
  /\ \A a \in entered \ left : card[CardOf[a]] \in {"booting", "maint"}
  /\ \A a, b \in entered \ left : CardOf[a] = CardOf[b] => a = b

(* What main knows when it is over: no thread was started or all are over.   *)
ReportInv ==
  /\ main = "status" => \A a \in Areas : pc[a] = "new"
  /\ main = "report" => \A a \in Areas : pc[a] = "exited"
  /\ main = "ended" =>
       \/ exit_code = 1 /\ \A a \in Areas : pc[a] = "new"
       \/ /\ \A a \in Areas : pc[a] = "exited"
          /\ exit_code = 0 => \A a \in Areas : type[a] # "ERROR"
          /\ left # {} => restart

-------------------------------------------------------------------------------
(* Every step keeps the parts, one lemma each.                               *)

LEMMA TypesStep == Types /\ [Next]_vars => Types'
  <1> SUFFICES ASSUME Types, [Next]_vars PROVE Types'
    OBVIOUS
  <1> USE EccAssumption DEF Types, ThreadType, SetType, BoardType, FlagType,
          OpPcs, Steps, StatusPcs
  <1> USE DEF Go, NextStep, FinishWithMsg, NeedToSignal,
          master, watch, result, board, past
  <1>1. ASSUME NEW a \in Areas, Begin(a) PROVE Types'
    BY <1>1 DEF Begin
  <1>2. ASSUME NEW a \in Areas, EnterMaint(a) PROVE Types'
    BY <1>2 DEF EnterMaint
  <1>3. ASSUME NEW a \in Areas, SetEcc(a) PROVE Types'
    BY <1>3 DEF SetEcc
  <1>4. ASSUME NEW a \in Areas, PollEcc(a) PROVE Types'
    <2>1. UNCHANGED <<helping, unread, entered, left, changed>> /\ trusted' \subseteq Areas
      BY <1>4 DEF PollEcc
    <2>2. SetType'
      BY <2>1
    <2>3. ThreadType' /\ BoardType' /\ FlagType'
      BY <1>4 DEF PollEcc, Complete
    <2> QED BY <2>2, <2>3
  <1>5. ASSUME NEW a \in Areas, Lock(a) PROVE Types'
    BY <1>5 DEF Lock
  <1>6. ASSUME NEW a \in Areas, Signal(a) PROVE Types'
    BY <1>6 DEF Signal, SignalOne
  <1>7. ASSUME NEW a \in Areas, Unlock(a) PROVE Types'
    BY <1>7 DEF Unlock
  <1>8. ASSUME NEW a \in Areas, LeaveMaint(a) PROVE Types'
    BY <1>8 DEF LeaveMaint
  <1>9. ASSUME NEW a \in Areas, WaitReady(a) PROVE Types'
    BY <1>9 DEF WaitReady
  <1>10. ASSUME NEW a \in Areas, ThreadDone(a) PROVE Types'
    BY <1>10 DEF ThreadDone
  <1>11. CASE StatusLock
    BY <1>11 DEF StatusLock
  <1>12. CASE StatusCheck
    BY <1>12 DEF StatusCheck
  <1>13. CASE SpuriousWakeup
    BY <1>13 DEF SpuriousWakeup
  <1>14. CASE StatusShow
    BY <1>14 DEF StatusShow, ShowComplete
  <1>15. CASE VerboseCheck
    BY <1>15 DEF VerboseCheck, AllThreadsDone
  <1>16. ASSUME NEW a \in Areas, VerboseRead(a) PROVE Types'
    BY <1>16 DEF VerboseRead
  <1>17. CASE SpawnStatus
    BY <1>17 DEF SpawnStatus
  <1>18. ASSUME NEW a \in Areas, SpawnOp(a) PROVE Types'
    BY <1>18 DEF SpawnOp, Free
  <1>19. CASE Join
    BY <1>19 DEF Join, Free, AllJoined
  <1>20. CASE Report
    BY <1>20 DEF Report
  <1>21. ASSUME NEW c \in Cards, CardStep(c) PROVE Types'
    BY <1>21 DEF CardStep
  <1>22. ASSUME NEW c \in Cards, EccStep(c) PROVE Types'
    BY <1>22 DEF EccStep
  <1>23. CASE UNCHANGED vars
    BY <1>23 DEF vars
  <1> QED
    BY <1>1, <1>2, <1>3, <1>4, <1>5, <1>6, <1>7, <1>8, <1>9, <1>10, <1>11,
       <1>12, <1>13, <1>14, <1>15, <1>16, <1>17, <1>18, <1>19, <1>20, <1>21,
       <1>22, <1>23
     DEF Next, MainThread, StatusThread, OpThread

LEMMA StepStep == Types /\ StepInv /\ [Next]_vars => StepInv'
  <1> SUFFICES ASSUME Types, StepInv, [Next]_vars PROVE StepInv'
    OBVIOUS
  <1> USE DEF Types, ThreadType, OpPcs, Steps, StepInv
  <1> USE DEF Go, NextStep, FinishWithMsg, NeedToSignal,
          master, watch, result, board, past
  <1>1. ASSUME NEW a \in Areas, Begin(a) PROVE StepInv'
    BY <1>1 DEF Begin
  <1>2. ASSUME NEW a \in Areas, EnterMaint(a) PROVE StepInv'
    BY <1>2 DEF EnterMaint
  <1>3. ASSUME NEW a \in Areas, SetEcc(a) PROVE StepInv'
    BY <1>3 DEF SetEcc
  <1>4. ASSUME NEW a \in Areas, PollEcc(a) PROVE StepInv'
    <2>1. CASE FinishWithMsg(a, "ERROR") /\ pc[a] = "poll"
      BY <2>1 DEF FinishWithMsg, NeedToSignal, Go
    <2>3. pc[a] = "poll" /\ ((Go(a, "lock") /\ UNCHANGED step) \/ FinishWithMsg(a, "ERROR"))
      BY <1>4 DEF PollEcc
    <2>2. CASE pc[a] = "poll" /\ Go(a, "lock") /\ UNCHANGED step
      BY <2>2 DEF Go
    <2> QED BY <2>1, <2>2, <2>3
  <1>5. ASSUME NEW a \in Areas, Lock(a) PROVE StepInv'
    BY <1>5 DEF Lock
  <1>6. ASSUME NEW a \in Areas, Signal(a) PROVE StepInv'
    BY <1>6 DEF Signal, SignalOne
  <1>7. ASSUME NEW a \in Areas, Unlock(a) PROVE StepInv'
    BY <1>7 DEF Unlock
  <1>8. ASSUME NEW a \in Areas, LeaveMaint(a) PROVE StepInv'
    BY <1>8 DEF LeaveMaint
  <1>9. ASSUME NEW a \in Areas, WaitReady(a) PROVE StepInv'
    BY <1>9 DEF WaitReady
  <1>10. ASSUME NEW a \in Areas, ThreadDone(a) PROVE StepInv'
    BY <1>10 DEF ThreadDone
  <1>11. CASE StatusLock
    BY <1>11 DEF StatusLock
  <1>12. CASE StatusCheck
    BY <1>12 DEF StatusCheck
  <1>13. CASE SpuriousWakeup
    BY <1>13 DEF SpuriousWakeup
  <1>14. CASE StatusShow
    BY <1>14 DEF StatusShow, ShowComplete
  <1>15. CASE VerboseCheck
    BY <1>15 DEF VerboseCheck, AllThreadsDone
  <1>16. ASSUME NEW a \in Areas, VerboseRead(a) PROVE StepInv'
    BY <1>16 DEF VerboseRead
  <1>17. CASE SpawnStatus
    BY <1>17 DEF SpawnStatus
  <1>18. ASSUME NEW a \in Areas, SpawnOp(a) PROVE StepInv'
    BY <1>18 DEF SpawnOp, Free
  <1>19. CASE Join
    BY <1>19 DEF Join, Free, AllJoined
  <1>20. CASE Report
    BY <1>20 DEF Report
  <1>21. ASSUME NEW c \in Cards, CardStep(c) PROVE StepInv'
    BY <1>21 DEF CardStep
  <1>22. ASSUME NEW c \in Cards, EccStep(c) PROVE StepInv'
    BY <1>22 DEF EccStep
  <1>23. CASE UNCHANGED vars
    BY <1>23 DEF vars
  <1> QED
    BY <1>1, <1>2, <1>3, <1>4, <1>5, <1>6, <1>7, <1>8, <1>9, <1>10, <1>11,
       <1>12, <1>13, <1>14, <1>15, <1>16, <1>17, <1>18, <1>19, <1>20, <1>21,
       <1>22, <1>23
     DEF Next, MainThread, StatusThread, OpThread

LEMMA MutexStep == Types /\ MutexInv /\ [Next]_vars => MutexInv'
  <1> SUFFICES ASSUME Types, MutexInv, [Next]_vars PROVE MutexInv'
    OBVIOUS
  <1> USE EccAssumption DEF Types, ThreadType, OpPcs, StatusPcs, MutexInv
  <1> USE DEF Go, NextStep, FinishWithMsg, NeedToSignal,
          master, watch, result, board, past
  <1>1. ASSUME NEW a \in Areas, Begin(a) PROVE MutexInv'
    BY <1>1 DEF Begin
  <1>2. ASSUME NEW a \in Areas, EnterMaint(a) PROVE MutexInv'
    BY <1>2 DEF EnterMaint
  <1>3. ASSUME NEW a \in Areas, SetEcc(a) PROVE MutexInv'
    BY <1>3 DEF SetEcc
  <1>4. ASSUME NEW a \in Areas, PollEcc(a) PROVE MutexInv'
    BY <1>4 DEF PollEcc, Complete
  <1>5. ASSUME NEW a \in Areas, Lock(a) PROVE MutexInv'
    BY <1>5 DEF Lock
  <1>6. ASSUME NEW a \in Areas, Signal(a) PROVE MutexInv'
    BY <1>6 DEF Signal, SignalOne
  <1>7. ASSUME NEW a \in Areas, Unlock(a) PROVE MutexInv'
    BY <1>7 DEF Unlock
  <1>8. ASSUME NEW a \in Areas, LeaveMaint(a) PROVE MutexInv'
    BY <1>8 DEF LeaveMaint
  <1>9. ASSUME NEW a \in Areas, WaitReady(a) PROVE MutexInv'
    BY <1>9 DEF WaitReady
  <1>10. ASSUME NEW a \in Areas, ThreadDone(a) PROVE MutexInv'
    BY <1>10 DEF ThreadDone
  <1>11. CASE StatusLock
    BY <1>11 DEF StatusLock
  <1>12. CASE StatusCheck
    BY <1>12 DEF StatusCheck
  <1>13. CASE SpuriousWakeup
    BY <1>13 DEF SpuriousWakeup
  <1>14. CASE StatusShow
    BY <1>14 DEF StatusShow, ShowComplete
  <1>15. CASE VerboseCheck
    BY <1>15 DEF VerboseCheck, AllThreadsDone
  <1>16. ASSUME NEW a \in Areas, VerboseRead(a) PROVE MutexInv'
    BY <1>16 DEF VerboseRead
  <1>17. CASE SpawnStatus
    BY <1>17 DEF SpawnStatus
  <1>18. ASSUME NEW a \in Areas, SpawnOp(a) PROVE MutexInv'
    BY <1>18 DEF SpawnOp, Free
  <1>19. CASE Join
    BY <1>19 DEF Join, Free, AllJoined
  <1>20. CASE Report
    BY <1>20 DEF Report
  <1>21. ASSUME NEW c \in Cards, CardStep(c) PROVE MutexInv'
    BY <1>21 DEF CardStep
  <1>22. ASSUME NEW c \in Cards, EccStep(c) PROVE MutexInv'
    BY <1>22 DEF EccStep
  <1>23. CASE UNCHANGED vars
    BY <1>23 DEF vars
  <1> QED
    BY <1>1, <1>2, <1>3, <1>4, <1>5, <1>6, <1>7, <1>8, <1>9, <1>10, <1>11,
       <1>12, <1>13, <1>14, <1>15, <1>16, <1>17, <1>18, <1>19, <1>20, <1>21,
       <1>22, <1>23
     DEF Next, MainThread, StatusThread, OpThread

LEMMA AreaStep == Types /\ StepInv /\ AreaInv /\ [Next]_vars => AreaInv'
  <1> SUFFICES ASSUME Types, StepInv, AreaInv, [Next]_vars PROVE AreaInv'
    OBVIOUS
  <1> USE DEF Types, ThreadType, SetType, OpPcs, Steps, StepInv, AreaInv,
          Succeeded
  <1> USE DEF Go, NextStep, FinishWithMsg, NeedToSignal,
          master, watch, result, board, past
  <1>1. ASSUME NEW a \in Areas, Begin(a) PROVE AreaInv'
    BY <1>1 DEF Begin
  <1>2. ASSUME NEW a \in Areas, EnterMaint(a) PROVE AreaInv'
    BY <1>2 DEF EnterMaint
  <1>3. ASSUME NEW a \in Areas, SetEcc(a) PROVE AreaInv'
    BY <1>3 DEF SetEcc
  <1>4. ASSUME NEW a \in Areas, PollEcc(a) PROVE AreaInv'
    BY <1>4 DEF PollEcc, Complete
  <1>5. ASSUME NEW a \in Areas, Lock(a) PROVE AreaInv'
    BY <1>5 DEF Lock
  <1>6. ASSUME NEW a \in Areas, Signal(a) PROVE AreaInv'
    BY <1>6 DEF Signal, SignalOne
  <1>7. ASSUME NEW a \in Areas, Unlock(a) PROVE AreaInv'
    BY <1>7 DEF Unlock
  <1>8. ASSUME NEW a \in Areas, LeaveMaint(a) PROVE AreaInv'
    <2>1. CASE FinishWithMsg(a, "ERROR") /\ UNCHANGED <<board, left, changed>>
      BY <1>8, <2>1 DEF LeaveMaint, FinishWithMsg, NeedToSignal, Go, master, past
    <2>2. CASE left' = left \cup {a} /\ Go(a, "wait") /\ UNCHANGED <<step, type>>
      <3>1. at_least_one_success
        BY <1>8 DEF LeaveMaint
      <3>2. UNCHANGED <<at_least_one_success, entered>> /\ pc[a] = "leave"
        BY <1>8 DEF LeaveMaint, master
      <3> QED BY <2>2, <3>1, <3>2 DEF Go
    <2> QED BY <1>8, <2>1, <2>2 DEF LeaveMaint
  <1>9. ASSUME NEW a \in Areas, WaitReady(a) PROVE AreaInv'
    BY <1>9 DEF WaitReady
  <1>10. ASSUME NEW a \in Areas, ThreadDone(a) PROVE AreaInv'
    BY <1>10 DEF ThreadDone
  <1>11. CASE StatusLock
    BY <1>11 DEF StatusLock
  <1>12. CASE StatusCheck
    BY <1>12 DEF StatusCheck
  <1>13. CASE SpuriousWakeup
    BY <1>13 DEF SpuriousWakeup
  <1>14. CASE StatusShow
    BY <1>14 DEF StatusShow, ShowComplete
  <1>15. CASE VerboseCheck
    BY <1>15 DEF VerboseCheck, AllThreadsDone
  <1>16. ASSUME NEW a \in Areas, VerboseRead(a) PROVE AreaInv'
    BY <1>16 DEF VerboseRead
  <1>17. CASE SpawnStatus
    BY <1>17 DEF SpawnStatus
  <1>18. ASSUME NEW a \in Areas, SpawnOp(a) PROVE AreaInv'
    BY <1>18 DEF SpawnOp, Free
  <1>19. CASE Join
    BY <1>19 DEF Join, Free, AllJoined
  <1>20. CASE Report
    BY <1>20 DEF Report
  <1>21. ASSUME NEW c \in Cards, CardStep(c) PROVE AreaInv'
    BY <1>21 DEF CardStep
  <1>22. ASSUME NEW c \in Cards, EccStep(c) PROVE AreaInv'
    BY <1>22 DEF EccStep
  <1>23. CASE UNCHANGED vars
    BY <1>23 DEF vars
  <1> QED
    BY <1>1, <1>2, <1>3, <1>4, <1>5, <1>6, <1>7, <1>8, <1>9, <1>10, <1>11,
       <1>12, <1>13, <1>14, <1>15, <1>16, <1>17, <1>18, <1>19, <1>20, <1>21,
       <1>22, <1>23
     DEF Next, MainThread, StatusThread, OpThread

LEMMA ReportStep ==
  Types /\ StepInv /\ AreaInv /\ ReportInv /\ [Next]_vars => ReportInv'
  <1> SUFFICES ASSUME Types, StepInv, AreaInv, ReportInv, [Next]_vars
               PROVE  ReportInv'
    OBVIOUS
  <1> USE EccAssumption DEF Types, ThreadType, SetType, BoardType, OpPcs, Steps,
          AreaInv, ReportInv
  <1> USE DEF Go, NextStep, FinishWithMsg, NeedToSignal,
          master, watch, result, board, past
  <1>1. ASSUME NEW a \in Areas, Begin(a) PROVE ReportInv'
    BY <1>1 DEF Begin
  <1>2. ASSUME NEW a \in Areas, EnterMaint(a) PROVE ReportInv'
    BY <1>2 DEF EnterMaint
  <1>3. ASSUME NEW a \in Areas, SetEcc(a) PROVE ReportInv'
    BY <1>3 DEF SetEcc
  <1>4. ASSUME NEW a \in Areas, PollEcc(a) PROVE ReportInv'
    BY <1>4 DEF PollEcc, Complete
  <1>5. ASSUME NEW a \in Areas, Lock(a) PROVE ReportInv'
    BY <1>5 DEF Lock
  <1>6. ASSUME NEW a \in Areas, Signal(a) PROVE ReportInv'
    BY <1>6 DEF Signal, SignalOne
  <1>7. ASSUME NEW a \in Areas, Unlock(a) PROVE ReportInv'
    BY <1>7 DEF Unlock
  <1>8. ASSUME NEW a \in Areas, LeaveMaint(a) PROVE ReportInv'
    BY <1>8 DEF LeaveMaint
  <1>9. ASSUME NEW a \in Areas, WaitReady(a) PROVE ReportInv'
    BY <1>9 DEF WaitReady
  <1>10. ASSUME NEW a \in Areas, ThreadDone(a) PROVE ReportInv'
    BY <1>10 DEF ThreadDone
  <1>11. CASE StatusLock
    BY <1>11 DEF StatusLock
  <1>12. CASE StatusCheck
    BY <1>12 DEF StatusCheck
  <1>13. CASE SpuriousWakeup
    BY <1>13 DEF SpuriousWakeup
  <1>14. CASE StatusShow
    BY <1>14 DEF StatusShow, ShowComplete
  <1>15. CASE VerboseCheck
    BY <1>15 DEF VerboseCheck, AllThreadsDone
  <1>16. ASSUME NEW a \in Areas, VerboseRead(a) PROVE ReportInv'
    BY <1>16 DEF VerboseRead
  <1>17. CASE SpawnStatus
    BY <1>17 DEF SpawnStatus
  <1>18. ASSUME NEW a \in Areas, SpawnOp(a) PROVE ReportInv'
    BY <1>18 DEF SpawnOp, Free
  <1>19. CASE Join
    BY <1>19 DEF Join, Free, AllJoined
  <1>20. CASE Report
    BY <1>20 DEF Report
  <1>21. ASSUME NEW c \in Cards, CardStep(c) PROVE ReportInv'
    BY <1>21 DEF CardStep
  <1>22. ASSUME NEW c \in Cards, EccStep(c) PROVE ReportInv'
    BY <1>22 DEF EccStep
  <1>23. CASE UNCHANGED vars
    BY <1>23 DEF vars
  <1> QED
    BY <1>1, <1>2, <1>3, <1>4, <1>5, <1>6, <1>7, <1>8, <1>9, <1>10, <1>11,
       <1>12, <1>13, <1>14, <1>15, <1>16, <1>17, <1>18, <1>19, <1>20, <1>21,
       <1>22, <1>23
     DEF Next, MainThread, StatusThread, OpThread

(* Areas is finite, and so is each of its parts.                             *)
LEMMA FiniteAreas ==
  /\ N \in Nat
  /\ \A S \in SUBSET Areas : /\ IsFiniteSet(S) /\ Cardinality(S) \in 0..N
                             /\ Cardinality(S) = N => S = Areas
<1>1. IsFiniteSet(Areas)
  BY EccAssumption
<1>2. N \in Nat
  BY <1>1, FS_CardinalityType DEF N
<1>3. ASSUME NEW S \in SUBSET Areas
      PROVE  /\ IsFiniteSet(S) /\ Cardinality(S) <= N
             /\ Cardinality(S) = N => S = Areas
  BY <1>1, FS_Subset DEF N
<1>4. ASSUME NEW S \in SUBSET Areas PROVE Cardinality(S) \in Nat
  BY <1>3, FS_CardinalityType
<1> QED
  BY <1>2, <1>3, <1>4

LEMMA CountedAreas ==
  /\ Counted \in SUBSET Areas /\ Exited \in SUBSET Areas
  /\ Counted' \in SUBSET Areas /\ Exited' \in SUBSET Areas
BY DEF Counted, Exited

LEMMA CountStep == Types /\ StepInv /\ CountExact /\ [Next]_vars => CountExact'
  <1> SUFFICES ASSUME Types, StepInv, CountExact, [Next]_vars PROVE CountExact'
    OBVIOUS
  <1> USE DEF Types, ThreadType, OpPcs, Steps, StepInv
  <1> USE DEF Go, NextStep, FinishWithMsg, NeedToSignal,
          master, watch, result, board, past
  <1>1. ASSUME NEW a \in Areas, Begin(a) PROVE CountExact'
    <2>1. Counted' = Counted /\ Exited' = Exited
      BY <1>1 DEF Begin, Counted, Exited
    <2>2. UNCHANGED <<op_complete, op_threads_done>>
      BY <1>1 DEF Begin
    <2> QED BY <2>1, <2>2 DEF CountExact
  <1>2. ASSUME NEW a \in Areas, EnterMaint(a) PROVE CountExact'
    <2>1. Counted' = Counted /\ Exited' = Exited
      BY <1>2 DEF EnterMaint, Counted, Exited
    <2>2. UNCHANGED <<op_complete, op_threads_done>>
      BY <1>2 DEF EnterMaint
    <2> QED BY <2>1, <2>2 DEF CountExact
  <1>3. ASSUME NEW a \in Areas, SetEcc(a) PROVE CountExact'
    <2>1. Counted' = Counted /\ Exited' = Exited
      BY <1>3 DEF SetEcc, Counted, Exited
    <2>2. UNCHANGED <<op_complete, op_threads_done>>
      BY <1>3 DEF SetEcc
    <2> QED BY <2>1, <2>2 DEF CountExact
  <1>4. ASSUME NEW a \in Areas, PollEcc(a) PROVE CountExact'
    <2>1. Counted' = Counted /\ Exited' = Exited
      BY <1>4 DEF PollEcc, Complete, Counted, Exited
    <2>2. UNCHANGED <<op_complete, op_threads_done>>
      BY <1>4 DEF PollEcc
    <2> QED BY <2>1, <2>2 DEF CountExact
  <1>5. ASSUME NEW a \in Areas, Lock(a) PROVE CountExact'
    <2>1. Counted' = Counted /\ Exited' = Exited
      BY <1>5 DEF Lock, Counted, Exited
    <2>2. UNCHANGED <<op_complete, op_threads_done>>
      BY <1>5 DEF Lock
    <2> QED BY <2>1, <2>2 DEF CountExact
  <1>6. ASSUME NEW a \in Areas, Signal(a) PROVE CountExact'
    <2>1. Counted' = Counted \cup {a} /\ a \notin Counted
      BY <1>6 DEF Signal, Go, Counted
    <2>2. Exited' = Exited
      BY <1>6 DEF Signal, Go, Exited
    <2>3. Cardinality(Counted') = Cardinality(Counted) + 1
      BY <2>1, FiniteAreas, CountedAreas, FS_AddElement
    <2> QED BY <1>6, <2>2, <2>3 DEF Signal, CountExact
  <1>7. ASSUME NEW a \in Areas, Unlock(a) PROVE CountExact'
    <2>1. Counted' = Counted /\ Exited' = Exited
      BY <1>7 DEF Unlock, Counted, Exited
    <2>2. UNCHANGED <<op_complete, op_threads_done>>
      BY <1>7 DEF Unlock
    <2> QED BY <2>1, <2>2 DEF CountExact
  <1>8. ASSUME NEW a \in Areas, LeaveMaint(a) PROVE CountExact'
    <2>1. Counted' = Counted /\ Exited' = Exited
      BY <1>8 DEF LeaveMaint, Counted, Exited
    <2>2. UNCHANGED <<op_complete, op_threads_done>>
      BY <1>8 DEF LeaveMaint
    <2> QED BY <2>1, <2>2 DEF CountExact
  <1>9. ASSUME NEW a \in Areas, WaitReady(a) PROVE CountExact'
    <2>1. Counted' = Counted /\ Exited' = Exited
      BY <1>9 DEF WaitReady, Counted, Exited
    <2>2. UNCHANGED <<op_complete, op_threads_done>>
      BY <1>9 DEF WaitReady
    <2> QED BY <2>1, <2>2 DEF CountExact
  <1>10. ASSUME NEW a \in Areas, ThreadDone(a) PROVE CountExact'
    <2>1. Exited' = Exited \cup {a} /\ a \notin Exited
      BY <1>10 DEF ThreadDone, Go, Exited
    <2>2. Counted' = Counted
      BY <1>10 DEF ThreadDone, Go, Counted
    <2>3. Cardinality(Exited') = Cardinality(Exited) + 1
      BY <2>1, FiniteAreas, CountedAreas, FS_AddElement
    <2> QED BY <1>10, <2>2, <2>3 DEF ThreadDone, CountExact
  <1>11. CASE StatusLock
    <2>1. Counted' = Counted /\ Exited' = Exited
      BY <1>11 DEF StatusLock, Counted, Exited
    <2>2. UNCHANGED <<op_complete, op_threads_done>>
      BY <1>11 DEF StatusLock
    <2> QED BY <2>1, <2>2 DEF CountExact
  <1>12. CASE StatusCheck
    <2>1. Counted' = Counted /\ Exited' = Exited
      BY <1>12 DEF StatusCheck, Counted, Exited
    <2>2. UNCHANGED <<op_complete, op_threads_done>>
      BY <1>12 DEF StatusCheck
    <2> QED BY <2>1, <2>2 DEF CountExact
  <1>13. CASE SpuriousWakeup
    <2>1. Counted' = Counted /\ Exited' = Exited
      BY <1>13 DEF SpuriousWakeup, Counted, Exited
    <2>2. UNCHANGED <<op_complete, op_threads_done>>
      BY <1>13 DEF SpuriousWakeup
    <2> QED BY <2>1, <2>2 DEF CountExact
  <1>14. CASE StatusShow
    <2>1. Counted' = Counted /\ Exited' = Exited
      BY <1>14 DEF StatusShow, ShowComplete, Counted, Exited
    <2>2. UNCHANGED <<op_complete, op_threads_done>>
      BY <1>14 DEF StatusShow
    <2> QED BY <2>1, <2>2 DEF CountExact
  <1>15. CASE VerboseCheck
    <2>1. Counted' = Counted /\ Exited' = Exited
      BY <1>15 DEF VerboseCheck, AllThreadsDone, Counted, Exited
    <2>2. UNCHANGED <<op_complete, op_threads_done>>
      BY <1>15 DEF VerboseCheck
    <2> QED BY <2>1, <2>2 DEF CountExact
  <1>16. ASSUME NEW a \in Areas, VerboseRead(a) PROVE CountExact'
    <2>1. Counted' = Counted /\ Exited' = Exited
      BY <1>16 DEF VerboseRead, Counted, Exited
    <2>2. UNCHANGED <<op_complete, op_threads_done>>
      BY <1>16 DEF VerboseRead
    <2> QED BY <2>1, <2>2 DEF CountExact
  <1>17. CASE SpawnStatus
    <2>1. Counted' = Counted /\ Exited' = Exited
      BY <1>17 DEF SpawnStatus, Counted, Exited
    <2>2. UNCHANGED <<op_complete, op_threads_done>>
      BY <1>17 DEF SpawnStatus
    <2> QED BY <2>1, <2>2 DEF CountExact
  <1>18. ASSUME NEW a \in Areas, SpawnOp(a) PROVE CountExact'
    <2>1. Counted' = Counted /\ Exited' = Exited
      BY <1>18 DEF SpawnOp, Free, Counted, Exited
    <2>2. UNCHANGED <<op_complete, op_threads_done>>
      BY <1>18 DEF SpawnOp
    <2> QED BY <2>1, <2>2 DEF CountExact
  <1>19. CASE Join
    <2>1. Counted' = Counted /\ Exited' = Exited
      BY <1>19 DEF Join, Free, AllJoined, Counted, Exited
    <2>2. UNCHANGED <<op_complete, op_threads_done>>
      BY <1>19 DEF Join
    <2> QED BY <2>1, <2>2 DEF CountExact
  <1>20. CASE Report
    <2>1. Counted' = Counted /\ Exited' = Exited
      BY <1>20 DEF Report, Counted, Exited
    <2>2. UNCHANGED <<op_complete, op_threads_done>>
      BY <1>20 DEF Report
    <2> QED BY <2>1, <2>2 DEF CountExact
  <1>21. ASSUME NEW c \in Cards, CardStep(c) PROVE CountExact'
    <2>1. Counted' = Counted /\ Exited' = Exited
      BY <1>21 DEF CardStep, Counted, Exited
    <2>2. UNCHANGED <<op_complete, op_threads_done>>
      BY <1>21 DEF CardStep
    <2> QED BY <2>1, <2>2 DEF CountExact
  <1>22. ASSUME NEW c \in Cards, EccStep(c) PROVE CountExact'
    <2>1. Counted' = Counted /\ Exited' = Exited
      BY <1>22 DEF EccStep, Counted, Exited
    <2>2. UNCHANGED <<op_complete, op_threads_done>>
      BY <1>22 DEF EccStep
    <2> QED BY <2>1, <2>2 DEF CountExact
  <1>23. CASE UNCHANGED vars
    <2>1. Counted' = Counted /\ Exited' = Exited
      BY <1>23 DEF vars, Counted, Exited
    <2>2. UNCHANGED <<op_complete, op_threads_done>>
      BY <1>23 DEF vars, master
    <2> QED BY <2>1, <2>2 DEF CountExact
  <1> QED
    BY <1>1, <1>2, <1>3, <1>4, <1>5, <1>6, <1>7, <1>8, <1>9, <1>10, <1>11,
       <1>12, <1>13, <1>14, <1>15, <1>16, <1>17, <1>18, <1>19, <1>20, <1>21,
       <1>22, <1>23
     DEF Next, MainThread, StatusThread, OpThread

LEMMA DisplayStep ==
  Types /\ MutexInv /\ CountExact /\ CountExact' /\ DisplayInv /\ [Next]_vars
    => DisplayInv'
  <1> SUFFICES ASSUME Types, MutexInv, CountExact, CountExact', DisplayInv,
                      [Next]_vars
               PROVE  DisplayInv'
    OBVIOUS
  <1>a. op_complete \in 0..N /\ op_complete' \in 0..N /\ N \in Nat
    BY FiniteAreas, CountedAreas DEF CountExact
  <1> USE <1>a, EccAssumption DEF Types, ThreadType, StatusPcs, MutexInv, DisplayInv
  <1> USE DEF Go, NextStep, FinishWithMsg, NeedToSignal,
          master, watch, result, board, past
  <1>1. ASSUME NEW a \in Areas, Begin(a) PROVE DisplayInv'
    BY <1>1 DEF Begin
  <1>2. ASSUME NEW a \in Areas, EnterMaint(a) PROVE DisplayInv'
    BY <1>2 DEF EnterMaint
  <1>3. ASSUME NEW a \in Areas, SetEcc(a) PROVE DisplayInv'
    BY <1>3 DEF SetEcc
  <1>4. ASSUME NEW a \in Areas, PollEcc(a) PROVE DisplayInv'
    BY <1>4 DEF PollEcc, Complete
  <1>5. ASSUME NEW a \in Areas, Lock(a) PROVE DisplayInv'
    BY <1>5 DEF Lock
  <1>6. ASSUME NEW a \in Areas, Signal(a) PROVE DisplayInv'
    BY <1>6 DEF Signal, SignalOne
  <1>7. ASSUME NEW a \in Areas, Unlock(a) PROVE DisplayInv'
    BY <1>7 DEF Unlock
  <1>8. ASSUME NEW a \in Areas, LeaveMaint(a) PROVE DisplayInv'
    BY <1>8 DEF LeaveMaint
  <1>9. ASSUME NEW a \in Areas, WaitReady(a) PROVE DisplayInv'
    BY <1>9 DEF WaitReady
  <1>10. ASSUME NEW a \in Areas, ThreadDone(a) PROVE DisplayInv'
    BY <1>10 DEF ThreadDone
  <1>11. CASE StatusLock
    BY <1>11 DEF StatusLock
  <1>12. CASE StatusCheck
    BY <1>12 DEF StatusCheck
  <1>13. CASE SpuriousWakeup
    BY <1>13 DEF SpuriousWakeup
  <1>14. CASE StatusShow
    BY <1>14 DEF StatusShow, ShowComplete
  <1>15. CASE VerboseCheck
    BY <1>15 DEF VerboseCheck, AllThreadsDone
  <1>16. ASSUME NEW a \in Areas, VerboseRead(a) PROVE DisplayInv'
    BY <1>16 DEF VerboseRead
  <1>17. CASE SpawnStatus
    BY <1>17 DEF SpawnStatus
  <1>18. ASSUME NEW a \in Areas, SpawnOp(a) PROVE DisplayInv'
    BY <1>18 DEF SpawnOp, Free
  <1>19. CASE Join
    BY <1>19 DEF Join, Free, AllJoined
  <1>20. CASE Report
    BY <1>20 DEF Report
  <1>21. ASSUME NEW c \in Cards, CardStep(c) PROVE DisplayInv'
    BY <1>21 DEF CardStep
  <1>22. ASSUME NEW c \in Cards, EccStep(c) PROVE DisplayInv'
    BY <1>22 DEF EccStep
  <1>23. CASE UNCHANGED vars
    BY <1>23 DEF vars
  <1> QED
    BY <1>1, <1>2, <1>3, <1>4, <1>5, <1>6, <1>7, <1>8, <1>9, <1>10, <1>11,
       <1>12, <1>13, <1>14, <1>15, <1>16, <1>17, <1>18, <1>19, <1>20, <1>21,
       <1>22, <1>23
     DEF Next, MainThread, StatusThread, OpThread

LEMMA HolderStep ==
  Types /\ StepInv /\ AreaInv /\ HolderInv /\ [Next]_vars => HolderInv'
  <1> SUFFICES ASSUME Types, StepInv, AreaInv, HolderInv, [Next]_vars
               PROVE  HolderInv'
    OBVIOUS
  <1> USE EccAssumption DEF Types, ThreadType, SetType, BoardType, OpPcs, Steps,
          StepInv, HolderInv, AreaInv, Succeeded, Holding
  <1> USE DEF Go, NextStep, FinishWithMsg, NeedToSignal,
          master, watch, result, board, past
  <1>1. ASSUME NEW a \in Areas, Begin(a) PROVE HolderInv'
    BY <1>1 DEF Begin
  <1>2. ASSUME NEW a \in Areas, EnterMaint(a) PROVE HolderInv'
    BY <1>2 DEF EnterMaint
  <1>3. ASSUME NEW a \in Areas, SetEcc(a) PROVE HolderInv'
    BY <1>3 DEF SetEcc
  <1>4. ASSUME NEW a \in Areas, PollEcc(a) PROVE HolderInv'
    BY <1>4 DEF PollEcc, Complete
  <1>5. ASSUME NEW a \in Areas, Lock(a) PROVE HolderInv'
    BY <1>5 DEF Lock
  <1>6. ASSUME NEW a \in Areas, Signal(a) PROVE HolderInv'
    BY <1>6 DEF Signal, SignalOne
  <1>7. ASSUME NEW a \in Areas, Unlock(a) PROVE HolderInv'
    BY <1>7 DEF Unlock
  <1>8. ASSUME NEW a \in Areas, LeaveMaint(a) PROVE HolderInv'
    BY <1>8 DEF LeaveMaint
  <1>9. ASSUME NEW a \in Areas, WaitReady(a) PROVE HolderInv'
    BY <1>9 DEF WaitReady
  <1>10. ASSUME NEW a \in Areas, ThreadDone(a) PROVE HolderInv'
    BY <1>10 DEF ThreadDone
  <1>11. CASE StatusLock
    BY <1>11 DEF StatusLock
  <1>12. CASE StatusCheck
    BY <1>12 DEF StatusCheck
  <1>13. CASE SpuriousWakeup
    BY <1>13 DEF SpuriousWakeup
  <1>14. CASE StatusShow
    BY <1>14 DEF StatusShow, ShowComplete
  <1>15. CASE VerboseCheck
    BY <1>15 DEF VerboseCheck, AllThreadsDone
  <1>16. ASSUME NEW a \in Areas, VerboseRead(a) PROVE HolderInv'
    BY <1>16 DEF VerboseRead
  <1>17. CASE SpawnStatus
    BY <1>17 DEF SpawnStatus
  <1>18. ASSUME NEW a \in Areas, SpawnOp(a) PROVE HolderInv'
    BY <1>18 DEF SpawnOp, Free
  <1>19. CASE Join
    BY <1>19 DEF Join, Free, AllJoined
  <1>20. CASE Report
    BY <1>20 DEF Report
  <1>21. ASSUME NEW c \in Cards, CardStep(c) PROVE HolderInv'
    BY <1>21 DEF CardStep
  <1>22. ASSUME NEW c \in Cards, EccStep(c) PROVE HolderInv'
    BY <1>22 DEF EccStep
  <1>23. CASE UNCHANGED vars
    BY <1>23 DEF vars
  <1> QED
    BY <1>1, <1>2, <1>3, <1>4, <1>5, <1>6, <1>7, <1>8, <1>9, <1>10, <1>11,
       <1>12, <1>13, <1>14, <1>15, <1>16, <1>17, <1>18, <1>19, <1>20, <1>21,
       <1>22, <1>23
     DEF Next, MainThread, StatusThread, OpThread

-------------------------------------------------------------------------------
(* The theorems.                                                             *)

IInv == /\ Types /\ StepInv /\ MutexInv /\ CountExact
        /\ DisplayInv /\ AreaInv /\ HolderInv /\ ReportInv

LEMMA Inductive == Spec => []IInv
<1>1. Init => IInv
  <2> SUFFICES ASSUME Init PROVE IInv
    OBVIOUS
  <2> USE EccAssumption DEF Init
  <2>1. Types
    BY DEF Types, ThreadType, SetType, BoardType, FlagType, OpPcs, Steps, StatusPcs
  <2>2. StepInv
    BY DEF StepInv
  <2>3. MutexInv
    BY DEF MutexInv
  <2>4. Counted = {} /\ Exited = {}
    BY DEF Counted, Exited
  <2>5. CountExact
    BY <2>4, FS_EmptySet DEF CountExact
  <2>6. DisplayInv
    BY DEF DisplayInv
  <2>7. AreaInv
    BY DEF AreaInv, Succeeded
  <2>8. HolderInv
    BY DEF HolderInv, Holding, Succeeded
  <2>9. ReportInv
    BY DEF ReportInv
  <2> QED
    BY <2>1, <2>2, <2>3, <2>5, <2>6, <2>7, <2>8, <2>9 DEF IInv
<1>2. IInv /\ [Next]_vars => IInv'
  BY TypesStep, StepStep, MutexStep, CountStep, DisplayStep, AreaStep, HolderStep,
     ReportStep DEF IInv
<1> QED
  BY <1>1, <1>2, PTL DEF Spec

(* Every variable keeps its type; no counter passes the number of areas.     *)
THEOREM TypeCorrect == Spec => []TypeOK
<1>1. IInv => TypeOK
  <2> SUFFICES ASSUME IInv PROVE TypeOK
    OBVIOUS
  <2>1. op_complete \in 0..N /\ op_threads_done \in 0..N /\ N \in Nat
    BY FiniteAreas, CountedAreas DEF IInv, CountExact
  <2>2. shown \in 0..N
    BY <2>1 DEF IInv, DisplayInv
  <2> QED
    BY <2>1, <2>2 DEF IInv, Types, ThreadType, SetType, BoardType, FlagType, TypeOK
<1> QED
  BY <1>1, Inductive, PTL

(* Each area is counted exactly once as an operation and once as a thread.   *)
THEOREM CountCorrect == Spec => []CountExact
<1>1. IInv => CountExact
  BY DEF IInv
<1> QED
  BY <1>1, Inductive, PTL

(* The status thread is never asleep when the last operation is over.        *)
THEOREM WakeupCorrect == Spec => []NoLostWakeup
<1>1. Init => NoLostWakeup
  BY DEF Init, NoLostWakeup
<1>2. IInv /\ NoLostWakeup /\ [Next]_vars => NoLostWakeup'
  <2> SUFFICES ASSUME IInv, NoLostWakeup, [Next]_vars PROVE NoLostWakeup'
    OBVIOUS
  <2>a. op_complete \in 0..N /\ N \in Nat
    BY FiniteAreas, CountedAreas DEF IInv, CountExact
  <2> USE <2>a DEF NoLostWakeup
  <2> USE DEF Go, NextStep, FinishWithMsg, NeedToSignal,
          master, watch, result, board, past
  <2>1. ASSUME NEW a \in Areas, Begin(a) PROVE NoLostWakeup'
    BY <2>1 DEF Begin
  <2>2. ASSUME NEW a \in Areas, EnterMaint(a) PROVE NoLostWakeup'
    BY <2>2 DEF EnterMaint
  <2>3. ASSUME NEW a \in Areas, SetEcc(a) PROVE NoLostWakeup'
    BY <2>3 DEF SetEcc
  <2>4. ASSUME NEW a \in Areas, PollEcc(a) PROVE NoLostWakeup'
    BY <2>4 DEF PollEcc, Complete
  <2>5. ASSUME NEW a \in Areas, Lock(a) PROVE NoLostWakeup'
    BY <2>5 DEF Lock
  <2>6. ASSUME NEW a \in Areas, Signal(a) PROVE NoLostWakeup'
    BY <2>6 DEF Signal, SignalOne
  <2>7. ASSUME NEW a \in Areas, Unlock(a) PROVE NoLostWakeup'
    BY <2>7 DEF Unlock
  <2>8. ASSUME NEW a \in Areas, LeaveMaint(a) PROVE NoLostWakeup'
    BY <2>8 DEF LeaveMaint
  <2>9. ASSUME NEW a \in Areas, WaitReady(a) PROVE NoLostWakeup'
    BY <2>9 DEF WaitReady
  <2>10. ASSUME NEW a \in Areas, ThreadDone(a) PROVE NoLostWakeup'
    BY <2>10 DEF ThreadDone
  <2>11. CASE StatusLock
    BY <2>11 DEF StatusLock
  <2>12. CASE StatusCheck
    BY <2>12 DEF StatusCheck
  <2>13. CASE SpuriousWakeup
    BY <2>13 DEF SpuriousWakeup
  <2>14. CASE StatusShow
    BY <2>14 DEF StatusShow, ShowComplete
  <2>15. CASE VerboseCheck
    BY <2>15 DEF VerboseCheck, AllThreadsDone
  <2>16. ASSUME NEW a \in Areas, VerboseRead(a) PROVE NoLostWakeup'
    BY <2>16 DEF VerboseRead
  <2>17. CASE SpawnStatus
    BY <2>17 DEF SpawnStatus
  <2>18. ASSUME NEW a \in Areas, SpawnOp(a) PROVE NoLostWakeup'
    BY <2>18 DEF SpawnOp, Free
  <2>19. CASE Join
    BY <2>19 DEF Join, Free, AllJoined
  <2>20. CASE Report
    BY <2>20 DEF Report
  <2>21. ASSUME NEW c \in Cards, CardStep(c) PROVE NoLostWakeup'
    BY <2>21 DEF CardStep
  <2>22. ASSUME NEW c \in Cards, EccStep(c) PROVE NoLostWakeup'
    BY <2>22 DEF EccStep
  <2>23. CASE UNCHANGED vars
    BY <2>23 DEF vars
  <2> QED
    BY <2>1, <2>2, <2>3, <2>4, <2>5, <2>6, <2>7, <2>8, <2>9, <2>10, <2>11,
       <2>12, <2>13, <2>14, <2>15, <2>16, <2>17, <2>18, <2>19, <2>20, <2>21,
       <2>22, <2>23
     DEF Next, MainThread, StatusThread, OpThread
<1> QED
  BY <1>1, <1>2, Inductive, PTL DEF Spec

(* The progress display shows all the completions or none.                   *)
THEOREM DisplayCorrect == Spec => []AllOrNothing
<1>1. IInv => AllOrNothing
  BY DEF IInv, DisplayInv, AllOrNothing
<1> QED
  BY <1>1, Inductive, PTL

(* An exit code of 0 means that every area has reset its card, after its     *)
(* operation had completed or at 100 percent of it; a card left in           *)
(* maintenance mode is reported.                                             *)
THEOREM ExitCorrect == Spec => []ExitHonest
<1>1. IInv /\ main = "ended" => (exit_code = 0 => left = Areas) /\ (left # {} => restart)
  BY DEF IInv, Types, SetType, StepInv, AreaInv, ReportInv
<1>2. IInv /\ left = Areas => Areas = changed \cup trusted
  BY DEF IInv, Types, SetType, HolderInv
<1>3. IInv /\ main = "ended" => \A a \in entered \ left : type[a] = "ERROR"
  BY DEF IInv, Types, SetType, BoardType, StepInv, AreaInv, ReportInv
<1>4. IInv => ExitHonest
  BY <1>1, <1>2, <1>3 DEF ExitHonest
<1> QED
  BY <1>4, Inductive, PTL

(* A card is only reset by an area whose ECC operation has completed, or has *)
(* been trusted at 100 percent.                                              *)
THEOREM ResetCorrect == Spec => NoResetUnderEcc
<1> DEFINE Over(c) == \/ ecc[c] = "completed"
                      \/ /\ ecc[c] \in {"full", "failed"}
                         /\ \E a \in trusted : pc[a] = "leave" /\ CardOf[a] = c
<1>1. IInv /\ [Next]_vars =>
        [\A c \in Cards : card[c] # "resetting" /\ card'[c] = "resetting" => Over(c)]_board
  <2> SUFFICES ASSUME IInv, [Next]_vars, NEW c \in Cards,
                      card[c] # "resetting", card'[c] = "resetting"
               PROVE  Over(c)
    OBVIOUS
  <2> USE EccAssumption DEF IInv, Types, BoardType
  <2> USE DEF Go, NextStep, FinishWithMsg, NeedToSignal,
          master, watch, result, board, past
  <2>1. ASSUME NEW a \in Areas, Begin(a) PROVE Over(c)
    BY <2>1 DEF Begin
  <2>2. ASSUME NEW a \in Areas, EnterMaint(a) PROVE Over(c)
    BY <2>2 DEF EnterMaint
  <2>3. ASSUME NEW a \in Areas, SetEcc(a) PROVE Over(c)
    BY <2>3 DEF SetEcc
  <2>4. ASSUME NEW a \in Areas, PollEcc(a) PROVE Over(c)
    BY <2>4 DEF PollEcc, Complete
  <2>5. ASSUME NEW a \in Areas, Lock(a) PROVE Over(c)
    BY <2>5 DEF Lock
  <2>6. ASSUME NEW a \in Areas, Signal(a) PROVE Over(c)
    BY <2>6 DEF Signal, SignalOne
  <2>7. ASSUME NEW a \in Areas, Unlock(a) PROVE Over(c)
    BY <2>7 DEF Unlock
  <2>8. ASSUME NEW a \in Areas, LeaveMaint(a) PROVE Over(c)
    <3>1. CardOf[a] = c
      BY <2>8 DEF LeaveMaint, FinishWithMsg, board
    <3>2. Succeeded(a) /\ pc[a] = "leave"
      BY <2>8 DEF LeaveMaint, Succeeded
    <3> QED BY <3>1, <3>2 DEF HolderInv
  <2>9. ASSUME NEW a \in Areas, WaitReady(a) PROVE Over(c)
    BY <2>9 DEF WaitReady
  <2>10. ASSUME NEW a \in Areas, ThreadDone(a) PROVE Over(c)
    BY <2>10 DEF ThreadDone
  <2>11. CASE StatusLock
    BY <2>11 DEF StatusLock
  <2>12. CASE StatusCheck
    BY <2>12 DEF StatusCheck
  <2>13. CASE SpuriousWakeup
    BY <2>13 DEF SpuriousWakeup
  <2>14. CASE StatusShow
    BY <2>14 DEF StatusShow, ShowComplete
  <2>15. CASE VerboseCheck
    BY <2>15 DEF VerboseCheck, AllThreadsDone
  <2>16. ASSUME NEW a \in Areas, VerboseRead(a) PROVE Over(c)
    BY <2>16 DEF VerboseRead
  <2>17. CASE SpawnStatus
    BY <2>17 DEF SpawnStatus
  <2>18. ASSUME NEW a \in Areas, SpawnOp(a) PROVE Over(c)
    BY <2>18 DEF SpawnOp, Free
  <2>19. CASE Join
    BY <2>19 DEF Join, Free, AllJoined
  <2>20. CASE Report
    BY <2>20 DEF Report
  <2>21. ASSUME NEW d \in Cards, CardStep(d) PROVE Over(c)
    BY <2>21 DEF CardStep
  <2>22. ASSUME NEW d \in Cards, EccStep(d) PROVE Over(c)
    BY <2>22 DEF EccStep
  <2>23. CASE UNCHANGED vars
    BY <2>23 DEF vars
  <2> QED
    BY <2>1, <2>2, <2>3, <2>4, <2>5, <2>6, <2>7, <2>8, <2>9, <2>10, <2>11,
       <2>12, <2>13, <2>14, <2>15, <2>16, <2>17, <2>18, <2>19, <2>20, <2>21,
       <2>22, <2>23
     DEF Next, MainThread, StatusThread, OpThread
<1> QED
  BY <1>1, Inductive, PTL DEF Spec, NoResetUnderEcc

-------------------------------------------------------------------------------
(* The three kinds of threads never wait for each other in a circle.         *)

(* An area that main finishes itself is not created any more; the status     *)
(* thread exists while operations run, and reads as long as areas are left.  *)
HelpInv ==
  /\ \A a \in helping : pc[a] # "new"
  /\ main \in {"spawn", "report"} => status # "off"
  /\ status = "reading" => unread # {}

LEMMA HelpStep == Types /\ HelpInv /\ [Next]_vars => HelpInv'
  <1> SUFFICES ASSUME Types, HelpInv, [Next]_vars PROVE HelpInv'
    OBVIOUS
  <1> USE EccAssumption DEF Types, ThreadType, SetType, OpPcs, StatusPcs, HelpInv
  <1> USE DEF Go, NextStep, FinishWithMsg, NeedToSignal,
          master, watch, result, board, past
  <1>1. ASSUME NEW a \in Areas, Begin(a) PROVE HelpInv'
    BY <1>1 DEF Begin
  <1>2. ASSUME NEW a \in Areas, EnterMaint(a) PROVE HelpInv'
    BY <1>2 DEF EnterMaint
  <1>3. ASSUME NEW a \in Areas, SetEcc(a) PROVE HelpInv'
    BY <1>3 DEF SetEcc
  <1>4. ASSUME NEW a \in Areas, PollEcc(a) PROVE HelpInv'
    BY <1>4 DEF PollEcc, Complete
  <1>5. ASSUME NEW a \in Areas, Lock(a) PROVE HelpInv'
    BY <1>5 DEF Lock
  <1>6. ASSUME NEW a \in Areas, Signal(a) PROVE HelpInv'
    BY <1>6 DEF Signal, SignalOne
  <1>7. ASSUME NEW a \in Areas, Unlock(a) PROVE HelpInv'
    BY <1>7 DEF Unlock
  <1>8. ASSUME NEW a \in Areas, LeaveMaint(a) PROVE HelpInv'
    BY <1>8 DEF LeaveMaint
  <1>9. ASSUME NEW a \in Areas, WaitReady(a) PROVE HelpInv'
    BY <1>9 DEF WaitReady
  <1>10. ASSUME NEW a \in Areas, ThreadDone(a) PROVE HelpInv'
    BY <1>10 DEF ThreadDone
  <1>11. CASE StatusLock
    BY <1>11 DEF StatusLock
  <1>12. CASE StatusCheck
    BY <1>12 DEF StatusCheck
  <1>13. CASE SpuriousWakeup
    BY <1>13 DEF SpuriousWakeup
  <1>14. CASE StatusShow
    BY <1>14 DEF StatusShow, ShowComplete
  <1>15. CASE VerboseCheck
    BY <1>15 DEF VerboseCheck, AllThreadsDone
  <1>16. ASSUME NEW a \in Areas, VerboseRead(a) PROVE HelpInv'
    BY <1>16 DEF VerboseRead
  <1>17. CASE SpawnStatus
    BY <1>17 DEF SpawnStatus
  <1>18. ASSUME NEW a \in Areas, SpawnOp(a) PROVE HelpInv'
    BY <1>18 DEF SpawnOp, Free
  <1>19. CASE Join
    BY <1>19 DEF Join, Free, AllJoined
  <1>20. CASE Report
    BY <1>20 DEF Report
  <1>21. ASSUME NEW c \in Cards, CardStep(c) PROVE HelpInv'
    BY <1>21 DEF CardStep
  <1>22. ASSUME NEW c \in Cards, EccStep(c) PROVE HelpInv'
    BY <1>22 DEF EccStep
  <1>23. CASE UNCHANGED vars
    BY <1>23 DEF vars
  <1> QED
    BY <1>1, <1>2, <1>3, <1>4, <1>5, <1>6, <1>7, <1>8, <1>9, <1>10, <1>11,
       <1>12, <1>13, <1>14, <1>15, <1>16, <1>17, <1>18, <1>19, <1>20, <1>21,
       <1>22, <1>23
     DEF Next, MainThread, StatusThread, OpThread

(* Every area is over: either somebody is in the way of main, who then has a  *)
(* step to take, or main can go on.                                          *)
LEMMA SomebodyMoves ==
  ASSUME IInv, HelpInv, NoLostWakeup, main # "ended"
  PROVE  MainMoves \/ StatusMoves \/ \E a \in Areas : OpMoves(a)
<1> SUFFICES ASSUME ~MainMoves, ~StatusMoves, \A a \in Areas : ~OpMoves(a)
             PROVE  FALSE
  OBVIOUS
<1> USE EccAssumption
<1>1. Types /\ MutexInv /\ CountExact
  BY DEF IInv
<1>2. main = "spawn"
  BY <1>1 DEF MainMoves, Types, ThreadType
<1>3. status # "check"
  BY DEF StatusMoves
<1>4. mtx = "free"
  <2>1. ASSUME mtx \in Areas PROVE FALSE
    <3>1. pc[mtx] \in {"signal", "unlock"}
      BY <1>1, <2>1 DEF MutexInv
    <3> QED BY <2>1, <3>1 DEF OpMoves
  <2>2. mtx # "status"
    BY <1>1, <1>3 DEF MutexInv
  <2> QED BY <1>1, <2>1, <2>2 DEF Types, ThreadType
<1>5. \A a \in Areas : pc[a] \in {"new", "exited"}
  BY <1>4 DEF OpMoves
<1>6. Free
  BY <1>1, <1>5 DEF Free, HelpInv, Types, SetType
<1>7. \A a \in Areas : pc[a] = "exited"
  BY <1>2, <1>5, <1>6 DEF MainMoves
<1>8. status = "waiting"
  BY <1>1, <1>2, <1>4, <1>6, <1>7
   DEF MainMoves, AllJoined, StatusMoves, HelpInv, Types, ThreadType, StatusPcs
<1>9. Counted = Areas
  BY <1>7 DEF Counted
<1>10. op_complete = N
  BY <1>1, <1>9 DEF CountExact, N
<1> QED
  BY <1>8, <1>10, FiniteAreas DEF NoLostWakeup

(* Until the command ends one of its threads can go on: no waiting for the   *)
(* mutex, the condition variable or a join is for ever.                      *)
THEOREM WaitCorrect == Spec => []NobodyStuck
<1>1. Init => HelpInv
  BY DEF Init, HelpInv
<1>2. IInv /\ HelpInv /\ [Next]_vars => HelpInv'
  BY HelpStep DEF IInv
<1>3. Spec => []HelpInv
  BY <1>1, <1>2, Inductive, PTL DEF Spec
<1>4. IInv /\ HelpInv /\ NoLostWakeup => NobodyStuck
  BY SomebodyMoves DEF NobodyStuck
<1> QED
  BY <1>3, <1>4, Inductive, WakeupCorrect, PTL
===============================================================================
