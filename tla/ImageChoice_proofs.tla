-------------------------- MODULE ImageChoice_proofs --------------------------
(***************************************************************************)
(* What ImageChoice guarantees for any number of cards, files, command     *)
(* lines and descriptors.                                                  *)
(***************************************************************************)
EXTENDS ImageChoice, TLAPS

-------------------------------------------------------------------------------
(* The inductive invariant, in named parts.                                  *)

Working == {"named", "search", "judge_named", "judge", "start", "popen2"}

(* Whoever works on a slot works on one that is there, with a file.          *)
WorkInv ==
  \A p \in Procs : at[p] \in Working => slot[p] \in Slots /\ file[p] \in Files

(* The tool waits in the middle of a check while a copy of it runs, which    *)
(* only a check of mpssflash becomes, and only once.                         *)
CloneInv ==
  /\ at["tool"] # "none"
  /\ at["clone"] # "none" => job.tool = "mpssflash"
  /\ running = "clone" => at["clone"] # "none" /\ at["tool"] \in {"named", "search"}
  /\ running = "tool" => at["clone"] \in {"none", "exit"}

(* 8 is an exit code of micflash.                                            *)
CodeInv == job.tool = "mpssflash" => \A p \in Procs : ret[p] # 8

(* Sessions are started in the order of the slots.                           *)
TurnInv ==
  \A p \in Procs, i \in Slots :
    session[p][i].file # 0 => i < slot[p] \/ (i = slot[p] /\ at[p] = "popen2")

(* The copy works on the slots that follow the one the tool waits at.        *)
AheadInv ==
  /\ at["clone"] = "none" => \A i \in Slots : session["clone"][i].file = 0
  /\ running = "clone" =>
       /\ \/ slot["clone"] > slot["tool"]
          \/ /\ slot["clone"] = slot["tool"] /\ res["clone"] = -1
             /\ at["clone"] \in {"judge", "judge_named"}
       /\ \A i \in Slots : session["clone"][i].file # 0 => i > slot["tool"]

(* A session that was waited for has ended.                                  *)
EndedInv ==
  /\ \A p \in Procs, i \in Slots :
       /\ session[p][i].waited \in {"check", "tool"} => session[p][i].code # Running
       /\ session[p][i].waited = "popen2" => job.tool = "micflash"
  /\ at["clone"] = "exit" =>
       \A i \in Slots : session["clone"][i].file # 0 => session["clone"][i].code # Running

Trusted(p) == Piped \/ ~blind[p]
InFaults(p) == <<p, slot[p], file[p]>> \in faults

(* dirname() cuts the argument of mpssflash after the first slot.            *)
CutInv ==
  \A p \in Procs : cut[p] =>
    /\ job.tool = "mpssflash" /\ job.path = "file"
    /\ at[p] # "start" => slot[p] > 1

NamedInv ==
  \A p \in Procs : at[p] \in {"named", "judge_named"} =>
    NamedPath /\ ~cut[p] /\ file[p] = job.named

(* The search has passed over a file that is good only if its check failed.  *)
SearchInv ==
  \A p \in Procs : at[p] = "search" \/ (at[p] = "judge" /\ res[p] >= 0) =>
    /\ NamedPath => cut[p]
    /\ \A g \in Files : g > file[p] /\ Good(g, slot[p], FALSE) => <<p, slot[p], g>> \in faults

(* The descriptors that micflash lacks for the next check or session.        *)
Spent == Piped /\ fds + 4 > job.spare

(* What the result of a check says of the file.                              *)
VerdictInv ==
  /\ \A p \in Procs :
       /\ at[p] \in {"judge", "judge_named"} /\ res[p] < 0 => InFaults(p) \/ Spent
       /\ at[p] = "judge" /\ res[p] > 0 /\ Good(file[p], slot[p], FALSE) => InFaults(p)
       /\ at[p] = "judge_named" /\ res[p] > 0 /\ Good(file[p], slot[p], TRUE) => InFaults(p)
       /\ at[p] = "judge" /\ res[p] = 0 /\ Trusted(p) => Good(file[p], slot[p], FALSE)
       /\ at[p] = "judge_named" /\ res[p] = 0 /\ Trusted(p) => Good(file[p], slot[p], TRUE)
  /\ running = "clone" => InFaults("tool")

Chosen(p, i, f) ==
  \/ NamedPath /\ f = job.named /\ Good(f, i, TRUE)
  \/ /\ NamedPath => ~Piped /\ job.path = "file" /\ i > 1
     /\ Good(f, i, FALSE)
     /\ \A g \in Files : g > f /\ Good(g, i, FALSE) => <<p, i, g>> \in faults

(* An image that is about to be used was chosen rightly, and so was that of  *)
(* every session.                                                            *)
StartInv ==
  \A p \in Procs : at[p] = "start" /\ Trusted(p) => Chosen(p, slot[p], file[p])

SessionsInv ==
  \A p \in Procs, i \in Slots, f \in Files :
    session[p][i].file = f /\ (Piped \/ ~session[p][i].blind) => Chosen(p, i, f)

(* Every slot the tool has left behind is accounted for.                     *)
Accounted ==
  {i \in Slots : \/ session["tool"][i].file # 0
                \/ ~HasImage(i) \/ Misled(i)
                \/ \E f \in Files \cup {0} : <<"tool", i, f>> \in faults
                \/ ~Enough(i)}

LeftInv ==
  /\ \A i \in Slots : i < slot["tool"] => i \in Accounted
  /\ at["tool"] = "popen2" => session["tool"][slot["tool"]].file # 0
  /\ at["tool"] \in {"watch", "wait", "exit"} => slot["tool"] > N

(* The descriptors used for the cards before, and for this one.              *)
Base == (slot["tool"] - 1) * Cost
Own  == CASE at["tool"] = "search"      -> 2 * (Checks - file["tool"])
          [] at["tool"] = "judge"       -> 2 * (Checks - file["tool"] + 1)
          [] at["tool"] = "judge_named" -> 2
          [] at["tool"] = "start"       -> 2 * Checks
          [] at["tool"] = "popen2"      -> Cost
          [] OTHER                      -> 0

FdsInv == IF Piped THEN fds <= Base + Own ELSE fds = 0

IInv ==
  /\ TypeOK /\ WorkInv /\ CloneInv /\ CodeInv /\ TurnInv /\ AheadInv /\ EndedInv
  /\ CutInv /\ NamedInv /\ SearchInv /\ VerdictInv /\ StartInv /\ SessionsInv /\ FdsInv /\ LeftInv

-------------------------------------------------------------------------------
(* Every step keeps the parts, one lemma each.                               *)

LEMMA RunningFact == TypeOK => running \in Procs
  BY DEF TypeOK

LEMMA WaitedFacts ==
  ASSUME NEW p \in Procs, NEW i \in Slots, NEW w \in {"no", "check", "tool", "popen2"},
         session \in [Procs -> [Slots -> Session]],
         session' = [session EXCEPT ![p][i].waited = w]
  PROVE  /\ session' \in [Procs -> [Slots -> Session]]
         /\ session'[p][i].waited = w
         /\ \A q \in Procs, j \in Slots :
              /\ session'[q][j].file = session[q][j].file
              /\ session'[q][j].code = session[q][j].code
              /\ session'[q][j].blind = session[q][j].blind
              /\ q # p \/ j # i => session'[q][j] = session[q][j]
<1> DEFINE s == [session[p][i] EXCEPT !.waited = w]
<1>1. session' = [session EXCEPT ![p][i] = s]
  OBVIOUS
<1>2. session[p][i] \in Session
  OBVIOUS
<1>3. /\ s \in Session /\ s.waited = w /\ s.file = session[p][i].file
      /\ s.code = session[p][i].code /\ s.blind = session[p][i].blind
  BY <1>2 DEF Session
<1> HIDE DEF s
<1>4. session' = [session EXCEPT ![p] = [session[p] EXCEPT ![i] = s]]
  BY <1>1
<1>5. session[p] \in [Slots -> Session] /\ [session[p] EXCEPT ![i] = s] \in [Slots -> Session]
  BY <1>3
<1>6. session'[p] = [session[p] EXCEPT ![i] = s] /\ session' \in [Procs -> [Slots -> Session]]
  BY <1>4, <1>5
<1>7. session'[p][i] = s /\ \A j \in Slots : j # i => session'[p][j] = session[p][j]
  BY <1>5, <1>6
<1>8. \A q \in Procs : q # p => session'[q] = session[q]
  BY <1>4
<1> QED BY <1>3, <1>6, <1>7, <1>8

(* What a step that forks a session does to the sessions.                    *)
LEMMA ForkedFacts ==
  ASSUME TypeOK, WorkInv, NEW p \in Procs, at[p] = "start",
         NEW w \in {"no", "popen2"}, Forked(p, w)
  PROVE  /\ session' \in [Procs -> [Slots -> Session]] /\ slot[p] \in Slots
         /\ session'[p][slot[p]].waited = w /\ session'[p][slot[p]].code = Running
         /\ session'[p][slot[p]].file = file[p] /\ session'[p][slot[p]].blind = blind[p]
         /\ \A q \in Procs, j \in Slots :
              q # p \/ j # slot[p] => session'[q][j] = session[q][j]
<1> DEFINE s == [file |-> file[p], blind |-> blind[p], code |-> Running, waited |-> w]
<1>1. session' = [session EXCEPT ![p][slot[p]] = s]
  BY DEF Forked
<1>2. slot[p] \in Slots /\ file[p] \in Files
  BY DEF WorkInv, Working
<1>4. s \in Session
  BY <1>2 DEF Session, TypeOK
<1>5. s \in Session /\ s.waited = w /\ s.code = Running /\ s.file = file[p] /\ s.blind = blind[p]
  BY <1>4
<1>6. session' = [session EXCEPT ![p] = [session[p] EXCEPT ![slot[p]] = s]]
  BY <1>1
<1> HIDE DEF s
<1>7. session[p] \in [Slots -> Session] /\ session \in [Procs -> [Slots -> Session]]
  BY DEF TypeOK
<1>8. [session[p] EXCEPT ![slot[p]] = s] \in [Slots -> Session]
  BY <1>2, <1>5, <1>7
<1>9. /\ session'[p] = [session[p] EXCEPT ![slot[p]] = s]
      /\ session' \in [Procs -> [Slots -> Session]]
  BY <1>6, <1>7, <1>8
<1>10. session'[p][slot[p]] = s /\ \A j \in Slots : j # slot[p] => session'[p][j] = session[p][j]
  BY <1>2, <1>7, <1>9
<1>11. \A q \in Procs : q # p => session'[q] = session[q]
  BY <1>6, <1>7
<1> QED BY <1>2, <1>5, <1>9, <1>10, <1>11

(* What a step that takes the status of an ended session does to them.       *)
LEMMA EndedFacts ==
  ASSUME TypeOK, NEW p \in Procs, NEW i \in Ended(p)
  PROVE  /\ i \in Slots /\ session[p][i].file # 0 /\ session[p][i].waited = "no"
         /\ session[p][i].code \in {Killed, 0, 1}
<1>1. i \in Slots /\ session[p][i] \in Session
  BY DEF Ended, Waiting, Started, TypeOK
<1> QED BY <1>1 DEF Ended, Waiting, Started, Session

(* What the end of a session does to them.                                   *)
LEMMA EndsFacts ==
  ASSUME TypeOK, NEW p \in Procs, NEW i \in Slots, SessionEnds(p, i)
  PROVE  /\ session' \in [Procs -> [Slots -> Session]]
         /\ session'[p][i].code \in {0, 1, Killed}
         /\ \A q \in Procs, j \in Slots :
              /\ session'[q][j].file = session[q][j].file
              /\ session'[q][j].waited = session[q][j].waited
              /\ session'[q][j].blind = session[q][j].blind
              /\ q # p \/ j # i => session'[q][j] = session[q][j]
<1>1. PICK c \in {0, 1, Killed} : session' = [session EXCEPT ![p][i].code = c]
  BY DEF SessionEnds
<1>2. session \in [Procs -> [Slots -> Session]] /\ session[p][i] \in Session
  BY DEF TypeOK
<1> DEFINE s == [session[p][i] EXCEPT !.code = c]
<1>3. /\ s \in Session /\ s.code = c /\ s.file = session[p][i].file
      /\ s.waited = session[p][i].waited /\ s.blind = session[p][i].blind
  BY <1>2 DEF Session
<1>4. session' = [session EXCEPT ![p] = [session[p] EXCEPT ![i] = s]]
  BY <1>1
<1> HIDE DEF s
<1>5. session[p] \in [Slots -> Session] /\ [session[p] EXCEPT ![i] = s] \in [Slots -> Session]
  BY <1>2, <1>3
<1>6. session'[p] = [session[p] EXCEPT ![i] = s] /\ session' \in [Procs -> [Slots -> Session]]
  BY <1>2, <1>4, <1>5
<1>7. session'[p][i] = s /\ \A j \in Slots : j # i => session'[p][j] = session[p][j]
  BY <1>5, <1>6
<1>8. \A q \in Procs : q # p => session'[q] = session[q]
  BY <1>2, <1>4
<1> QED BY <1>1, <1>3, <1>6, <1>7, <1>8

LEMMA ChosenKept ==
  ASSUME NEW p, NEW i, NEW f, job' = job, faults \subseteq faults', Chosen(p, i, f)
  PROVE  Chosen(p, i, f)'
BY DEF Chosen, NamedPath, Good, Piped, Files

(* What no step takes back, and the one way a session comes about.           *)
Grows ==
  /\ job' = job /\ faults \subseteq faults' /\ fds <= fds' /\ fds' \in Int
  /\ \A q \in Procs, j \in Slots :
       \/ /\ session'[q][j].file = session[q][j].file
          /\ session'[q][j].blind = session[q][j].blind
       \/ /\ session[q][j].file = 0 /\ session'[q][j].file # 0
          /\ at[q] = "start" /\ j = slot[q]
          /\ session'[q][j].file = file[q] /\ session'[q][j].blind = blind[q]

LEMMA TypeStep == TypeOK /\ WorkInv /\ CloneInv /\ CodeInv /\ [Next]_vars => TypeOK'
<1> SUFFICES ASSUME TypeOK, WorkInv, CloneInv, CodeInv, [Next]_vars PROVE TypeOK'
  OBVIOUS
<1> USE ImageAssumption DEF Job, Image, Session, Places, Files, Procs, Set, Slots,
    Piped, Running, Killed, TypeOK, WorkInv, Working, CloneInv, CodeInv
<1>1. ASSUME NEW p \in Procs, p = running, Look(p) PROVE TypeOK'
  BY <1>1 DEF Look, NextSlot, Blame, IsNamed
<1>2. ASSUME NEW p \in Procs, p = running, CheckEnds(p) PROVE TypeOK'
  BY SMTT(60), <1>2 DEF CheckEnds, Checking, CanPipe, Leak, Returns, Blame, IsGood
<1>3. ASSUME NEW p \in Procs, p = running, CheckNotStarted(p) PROVE TypeOK'
  BY SMTT(60), <1>3 DEF CheckNotStarted, Checking, CanPipe, Returns, Blame
<1>4. ASSUME NEW p \in Procs, p = running, CheckNotForked(p) PROVE TypeOK'
  <2>1. CASE Waiting(p) = {} /\ UNCHANGED session
    <3> HIDE DEF Session
    <3> QED BY SMTT(60), <1>4, <2>1 DEF CheckNotForked, Checking, Returns, Blame, Ended
  <2>2. ASSUME NEW i \in Ended(p),
               Returns(p, IF session[p][i].code = Killed THEN 1 ELSE session[p][i].code),
               session' = [session EXCEPT ![p][i].waited = "check"]
        PROVE  TypeOK'
    <3>1. /\ i \in Slots /\ session[p][i].file # 0 /\ session[p][i].waited = "no"
          /\ session[p][i].code \in {Killed, 0, 1}
      BY EndedFacts
    <3>2. session \in [Procs -> [Slots -> Session]]
      BY SMTT(60)
    <3>3. /\ session' \in [Procs -> [Slots -> Session]]
          /\ session'[p][i].waited = "check"
          /\ \A q \in Procs, j \in Slots :
               /\ session'[q][j].file = session[q][j].file
               /\ session'[q][j].code = session[q][j].code
               /\ session'[q][j].blind = session[q][j].blind
               /\ q # p \/ j # i => session'[q][j] = session[q][j]
      BY ZenonT(60), <2>2, <3>1, <3>2, WaitedFacts
    <3> HIDE DEF Session
    <3> QED BY SMTT(60), <1>4, <2>2, <3>1, <3>3 DEF CheckNotForked, Checking, Returns, Blame
  <2> QED BY <1>4, <2>1, <2>2 DEF CheckNotForked
<1>5. ASSUME NEW p \in Procs, p = running, CheckNotQuiet(p) PROVE TypeOK'
  BY <1>5 DEF CheckNotQuiet, Checking
<1>6. ASSUME NEW p \in Procs, p = running, JudgeNamed(p) PROVE TypeOK'
  BY SMTT(60), <1>6 DEF JudgeNamed, NextSlot
<1>7. ASSUME NEW p \in Procs, p = running, Judge(p) PROVE TypeOK'
  BY SMTT(60), <1>7 DEF Judge, NextSlot
<1>8. ASSUME NEW p \in Procs, p = running, Start(p) PROVE TypeOK'
  <2>1. /\ session' \in [Procs -> [Slots -> Session]] /\ slot[p] \in Slots
        /\ session'[p][slot[p]].waited = "no" /\ session'[p][slot[p]].code = Running
        /\ session'[p][slot[p]].file = file[p] /\ session'[p][slot[p]].blind = blind[p]
        /\ \A q \in Procs, j \in Slots :
             q # p \/ j # slot[p] => session'[q][j] = session[q][j]
    BY <1>8, ForkedFacts DEF Start
  <2> HIDE DEF Session
  <2> QED BY SMTT(60), <1>8, <2>1 DEF Start, CanPipe, Leak, NextSlot
<1>9. ASSUME NEW p \in Procs, p = running, StartUnseen(p) PROVE TypeOK'
  <2>1. /\ session' \in [Procs -> [Slots -> Session]] /\ slot[p] \in Slots
        /\ session'[p][slot[p]].waited = "popen2" /\ session'[p][slot[p]].code = Running
        /\ session'[p][slot[p]].file = file[p] /\ session'[p][slot[p]].blind = blind[p]
        /\ \A q \in Procs, j \in Slots :
             q # p \/ j # slot[p] => session'[q][j] = session[q][j]
    BY <1>9, ForkedFacts DEF StartUnseen
  <2> HIDE DEF Session
  <2> QED BY <1>9, <2>1 DEF StartUnseen, CanPipe, Blame
<1>10. ASSUME NEW p \in Procs, p = running, UnseenEnds(p) PROVE TypeOK'
  BY SMTT(60), <1>10 DEF UnseenEnds, NextSlot
<1>11. ASSUME NEW p \in Procs, p = running, StartFails(p) PROVE TypeOK'
  BY SMTT(60), <1>11 DEF StartFails, NextSlot, CanPipe, Leak, Blame
<1>12. ASSUME NEW p \in Procs, p = running, AllTried(p) PROVE TypeOK'
  BY <1>12 DEF AllTried, Counted, Started
<1>13. ASSUME NEW p \in Procs, p = running, Wait(p) PROVE TypeOK'
  <2>1. PICK i \in Ended(p) :
          /\ session' = [session EXCEPT ![p][i].waited = "tool"]
          /\ ret' = IF ret[p] = 0 /\ session[p][i].code # Killed
                    THEN Set(ret, p, session[p][i].code) ELSE ret
    BY <1>13 DEF Wait
  <2>2. /\ i \in Slots /\ session[p][i].file # 0 /\ session[p][i].waited = "no"
        /\ session[p][i].code \in {Killed, 0, 1}
    BY EndedFacts
  <2>3. session \in [Procs -> [Slots -> Session]]
    OBVIOUS
  <2>4. /\ session' \in [Procs -> [Slots -> Session]]
        /\ session'[p][i].waited = "tool"
        /\ \A q \in Procs, j \in Slots :
             /\ session'[q][j].file = session[q][j].file
             /\ session'[q][j].code = session[q][j].code
             /\ session'[q][j].blind = session[q][j].blind
             /\ q # p \/ j # i => session'[q][j] = session[q][j]
    BY ZenonT(60), <2>1, <2>2, <2>3, WaitedFacts
  <2> HIDE DEF Session
  <2> QED BY <1>13, <2>1, <2>2, <2>4 DEF Wait
<1>14. ASSUME NEW p \in Procs, p = running, WaitDone(p) PROVE TypeOK'
  BY <1>14 DEF WaitDone, Waiting, Started
<1>15. ASSUME CloneExits PROVE TypeOK'
  BY <1>15 DEF CloneExits
<1>16. ASSUME NEW p \in Procs, NEW i \in Slots, SessionEnds(p, i) PROVE TypeOK'
  <2>1. /\ session' \in [Procs -> [Slots -> Session]]
        /\ session'[p][i].code \in {0, 1, Killed}
        /\ \A q \in Procs, j \in Slots :
             /\ session'[q][j].file = session[q][j].file
             /\ session'[q][j].waited = session[q][j].waited
             /\ session'[q][j].blind = session[q][j].blind
             /\ q # p \/ j # i => session'[q][j] = session[q][j]
    <3> HIDE DEF TypeOK, Session, Procs, Killed
    <3> QED BY <1>16, EndsFacts
  <2> HIDE DEF Session
  <2> QED BY <1>16, <2>1 DEF SessionEnds
<1>17. CASE UNCHANGED vars
  BY <1>17 DEF vars
<1> QED BY <1>1, <1>2, <1>3, <1>4, <1>5, <1>6, <1>7, <1>8, <1>9, <1>10, <1>11, <1>12,
    <1>13, <1>14, <1>15, <1>16, <1>17, RunningFact DEF Next, Step

LEMMA WorkStep == TypeOK /\ WorkInv /\ CloneInv /\ [Next]_vars => WorkInv'
<1> SUFFICES ASSUME TypeOK, WorkInv, CloneInv, [Next]_vars PROVE WorkInv'
  OBVIOUS
<1> USE ImageAssumption DEF Job, Session, Files, Procs, Set, Slots, Piped, Running,
    Killed, TypeOK, Places, WorkInv, Working, CloneInv
<1>1. ASSUME NEW p \in Procs, p = running, Look(p) PROVE WorkInv'
  BY SMTT(60), <1>1 DEF Look, NextSlot, Blame, IsNamed
<1>2. ASSUME NEW p \in Procs, p = running, CheckEnds(p) PROVE WorkInv'
  BY <1>2 DEF CheckEnds, Checking, CanPipe, Leak, Returns, Blame, IsGood
<1>3. ASSUME NEW p \in Procs, p = running, CheckNotStarted(p) PROVE WorkInv'
  BY <1>3 DEF CheckNotStarted, Checking, CanPipe, Returns, Blame
<1>4. ASSUME NEW p \in Procs, p = running, CheckNotForked(p) PROVE WorkInv'
  BY <1>4 DEF CheckNotForked, Checking, Returns, Blame, Ended, Waiting, Started
<1>5. ASSUME NEW p \in Procs, p = running, CheckNotQuiet(p) PROVE WorkInv'
  BY <1>5 DEF CheckNotQuiet, Checking
<1>6. ASSUME NEW p \in Procs, p = running, JudgeNamed(p) PROVE WorkInv'
  BY <1>6 DEF JudgeNamed, NextSlot
<1>7. ASSUME NEW p \in Procs, p = running, Judge(p) PROVE WorkInv'
  BY <1>7 DEF Judge, NextSlot
<1>8. ASSUME NEW p \in Procs, p = running, Start(p) PROVE WorkInv'
  BY <1>8 DEF Start, CanPipe, Leak, NextSlot
<1>9. ASSUME NEW p \in Procs, p = running, StartUnseen(p) PROVE WorkInv'
  BY <1>9 DEF StartUnseen, CanPipe, Blame
<1>10. ASSUME NEW p \in Procs, p = running, UnseenEnds(p) PROVE WorkInv'
  BY <1>10 DEF UnseenEnds, NextSlot
<1>11. ASSUME NEW p \in Procs, p = running, StartFails(p) PROVE WorkInv'
  BY <1>11 DEF StartFails, NextSlot, CanPipe, Leak, Blame
<1>12. ASSUME NEW p \in Procs, p = running, AllTried(p) PROVE WorkInv'
  BY SMTT(60), <1>12 DEF AllTried, Counted, Started
<1>13. ASSUME NEW p \in Procs, p = running, Wait(p) PROVE WorkInv'
  BY <1>13 DEF Wait, Ended, Waiting, Started
<1>14. ASSUME NEW p \in Procs, p = running, WaitDone(p) PROVE WorkInv'
  BY <1>14 DEF WaitDone, Waiting, Started
<1>15. ASSUME CloneExits PROVE WorkInv'
  BY <1>15 DEF CloneExits
<1>16. ASSUME NEW p \in Procs, NEW i \in Slots, SessionEnds(p, i) PROVE WorkInv'
  BY <1>16 DEF SessionEnds
<1>17. CASE UNCHANGED vars
  BY <1>17 DEF vars
<1> QED BY <1>1, <1>2, <1>3, <1>4, <1>5, <1>6, <1>7, <1>8, <1>9, <1>10, <1>11, <1>12,
    <1>13, <1>14, <1>15, <1>16, <1>17, RunningFact DEF Next, Step

LEMMA CloneStep == TypeOK /\ CloneInv /\ [Next]_vars => CloneInv'
<1> SUFFICES ASSUME TypeOK, CloneInv, [Next]_vars PROVE CloneInv'
  OBVIOUS
<1> USE ImageAssumption DEF Job, Session, Files, Procs, Set, Slots, Piped, Running,
    Killed, TypeOK, Places, CloneInv
<1>1. ASSUME NEW p \in Procs, p = running, Look(p) PROVE CloneInv'
  BY <1>1 DEF Look, NextSlot, Blame, IsNamed
<1>2. ASSUME NEW p \in Procs, p = running, CheckEnds(p) PROVE CloneInv'
  BY <1>2 DEF CheckEnds, Checking, CanPipe, Leak, Returns, Blame, IsGood
<1>3. ASSUME NEW p \in Procs, p = running, CheckNotStarted(p) PROVE CloneInv'
  BY <1>3 DEF CheckNotStarted, Checking, CanPipe, Returns, Blame
<1>4. ASSUME NEW p \in Procs, p = running, CheckNotForked(p) PROVE CloneInv'
  BY <1>4 DEF CheckNotForked, Checking, Returns, Blame, Ended, Waiting, Started
<1>5. ASSUME NEW p \in Procs, p = running, CheckNotQuiet(p) PROVE CloneInv'
  BY <1>5 DEF CheckNotQuiet, Checking
<1>6. ASSUME NEW p \in Procs, p = running, JudgeNamed(p) PROVE CloneInv'
  BY <1>6 DEF JudgeNamed, NextSlot
<1>7. ASSUME NEW p \in Procs, p = running, Judge(p) PROVE CloneInv'
  BY <1>7 DEF Judge, NextSlot
<1>8. ASSUME NEW p \in Procs, p = running, Start(p) PROVE CloneInv'
  BY <1>8 DEF Start, CanPipe, Leak, NextSlot
<1>9. ASSUME NEW p \in Procs, p = running, StartUnseen(p) PROVE CloneInv'
  BY <1>9 DEF StartUnseen, CanPipe, Blame
<1>10. ASSUME NEW p \in Procs, p = running, UnseenEnds(p) PROVE CloneInv'
  BY <1>10 DEF UnseenEnds, NextSlot
<1>11. ASSUME NEW p \in Procs, p = running, StartFails(p) PROVE CloneInv'
  BY <1>11 DEF StartFails, NextSlot, CanPipe, Leak, Blame
<1>12. ASSUME NEW p \in Procs, p = running, AllTried(p) PROVE CloneInv'
  BY <1>12 DEF AllTried, Counted, Started
<1>13. ASSUME NEW p \in Procs, p = running, Wait(p) PROVE CloneInv'
  BY <1>13 DEF Wait, Ended, Waiting, Started
<1>14. ASSUME NEW p \in Procs, p = running, WaitDone(p) PROVE CloneInv'
  BY <1>14 DEF WaitDone, Waiting, Started
<1>15. ASSUME CloneExits PROVE CloneInv'
  BY <1>15 DEF CloneExits
<1>16. ASSUME NEW p \in Procs, NEW i \in Slots, SessionEnds(p, i) PROVE CloneInv'
  BY <1>16 DEF SessionEnds
<1>17. CASE UNCHANGED vars
  BY <1>17 DEF vars
<1> QED BY <1>1, <1>2, <1>3, <1>4, <1>5, <1>6, <1>7, <1>8, <1>9, <1>10, <1>11, <1>12,
    <1>13, <1>14, <1>15, <1>16, <1>17, RunningFact DEF Next, Step

LEMMA CodeStep == TypeOK /\ CodeInv /\ [Next]_vars => CodeInv'
<1> SUFFICES ASSUME TypeOK, CodeInv, [Next]_vars PROVE CodeInv'
  OBVIOUS
<1> USE ImageAssumption DEF Job, Session, Files, Procs, Set, Slots, Piped, Running,
    Killed, TypeOK, Places, CodeInv
<1>1. ASSUME NEW p \in Procs, p = running, Look(p) PROVE CodeInv'
  BY <1>1 DEF Look, NextSlot, Blame, IsNamed
<1>2. ASSUME NEW p \in Procs, p = running, CheckEnds(p) PROVE CodeInv'
  BY <1>2 DEF CheckEnds, Checking, CanPipe, Leak, Returns, Blame, IsGood
<1>3. ASSUME NEW p \in Procs, p = running, CheckNotStarted(p) PROVE CodeInv'
  BY <1>3 DEF CheckNotStarted, Checking, CanPipe, Returns, Blame
<1>4. ASSUME NEW p \in Procs, p = running, CheckNotForked(p) PROVE CodeInv'
  BY <1>4 DEF CheckNotForked, Checking, Returns, Blame, Ended, Waiting, Started
<1>5. ASSUME NEW p \in Procs, p = running, CheckNotQuiet(p) PROVE CodeInv'
  BY <1>5 DEF CheckNotQuiet, Checking
<1>6. ASSUME NEW p \in Procs, p = running, JudgeNamed(p) PROVE CodeInv'
  BY <1>6 DEF JudgeNamed, NextSlot
<1>7. ASSUME NEW p \in Procs, p = running, Judge(p) PROVE CodeInv'
  BY <1>7 DEF Judge, NextSlot
<1>8. ASSUME NEW p \in Procs, p = running, Start(p) PROVE CodeInv'
  BY <1>8 DEF Start, CanPipe, Leak, NextSlot
<1>9. ASSUME NEW p \in Procs, p = running, StartUnseen(p) PROVE CodeInv'
  BY <1>9 DEF StartUnseen, CanPipe, Blame
<1>10. ASSUME NEW p \in Procs, p = running, UnseenEnds(p) PROVE CodeInv'
  BY <1>10 DEF UnseenEnds, NextSlot
<1>11. ASSUME NEW p \in Procs, p = running, StartFails(p) PROVE CodeInv'
  BY <1>11 DEF StartFails, NextSlot, CanPipe, Leak, Blame
<1>12. ASSUME NEW p \in Procs, p = running, AllTried(p) PROVE CodeInv'
  BY <1>12 DEF AllTried, Counted, Started
<1>13. ASSUME NEW p \in Procs, p = running, Wait(p) PROVE CodeInv'
  BY <1>13 DEF Wait, Ended, Waiting, Started
<1>14. ASSUME NEW p \in Procs, p = running, WaitDone(p) PROVE CodeInv'
  BY <1>14 DEF WaitDone, Waiting, Started
<1>15. ASSUME CloneExits PROVE CodeInv'
  BY <1>15 DEF CloneExits
<1>16. ASSUME NEW p \in Procs, NEW i \in Slots, SessionEnds(p, i) PROVE CodeInv'
  BY <1>16 DEF SessionEnds
<1>17. CASE UNCHANGED vars
  BY <1>17 DEF vars
<1> QED BY <1>1, <1>2, <1>3, <1>4, <1>5, <1>6, <1>7, <1>8, <1>9, <1>10, <1>11, <1>12,
    <1>13, <1>14, <1>15, <1>16, <1>17, RunningFact DEF Next, Step

LEMMA TurnStep ==
  TypeOK /\ WorkInv /\ CloneInv /\ AheadInv /\ TurnInv
    /\ [Next]_vars => TurnInv'
<1> SUFFICES ASSUME TypeOK, WorkInv, CloneInv, AheadInv, TurnInv, [Next]_vars PROVE TurnInv'
  OBVIOUS
<1> USE ImageAssumption DEF Job, Session, Files, Procs, Set, Slots, Piped, Running,
    Killed, TypeOK, Places, WorkInv, Working, CloneInv, AheadInv, TurnInv
<1>1. ASSUME NEW p \in Procs, p = running, Look(p) PROVE TurnInv'
  BY SMTT(60), <1>1 DEF Look, NextSlot, Blame, IsNamed
<1>2. ASSUME NEW p \in Procs, p = running, CheckEnds(p) PROVE TurnInv'
  BY <1>2 DEF CheckEnds, Checking, CanPipe, Leak, Returns, Blame, IsGood
<1>3. ASSUME NEW p \in Procs, p = running, CheckNotStarted(p) PROVE TurnInv'
  BY <1>3 DEF CheckNotStarted, Checking, CanPipe, Returns, Blame
<1>4. ASSUME NEW p \in Procs, p = running, CheckNotForked(p) PROVE TurnInv'
  <2>1. CASE Waiting(p) = {} /\ UNCHANGED session
    <3> HIDE DEF Session
    <3> QED BY SMTT(60), <1>4, <2>1 DEF CheckNotForked, Checking, Returns, Blame, Ended
  <2>2. ASSUME NEW i \in Ended(p),
               Returns(p, IF session[p][i].code = Killed THEN 1 ELSE session[p][i].code),
               session' = [session EXCEPT ![p][i].waited = "check"]
        PROVE  TurnInv'
    <3>1. /\ i \in Slots /\ session[p][i].file # 0 /\ session[p][i].waited = "no"
          /\ session[p][i].code \in {Killed, 0, 1}
      BY EndedFacts
    <3>2. session \in [Procs -> [Slots -> Session]]
      BY SMTT(60)
    <3>3. /\ session' \in [Procs -> [Slots -> Session]]
          /\ session'[p][i].waited = "check"
          /\ \A q \in Procs, j \in Slots :
               /\ session'[q][j].file = session[q][j].file
               /\ session'[q][j].code = session[q][j].code
               /\ session'[q][j].blind = session[q][j].blind
               /\ q # p \/ j # i => session'[q][j] = session[q][j]
      BY ZenonT(60), <2>2, <3>1, <3>2, WaitedFacts
    <3> HIDE DEF Session
    <3> QED BY SMTT(60), <1>4, <2>2, <3>1, <3>3 DEF CheckNotForked, Checking, Returns, Blame
  <2> QED BY <1>4, <2>1, <2>2 DEF CheckNotForked
<1>5. ASSUME NEW p \in Procs, p = running, CheckNotQuiet(p) PROVE TurnInv'
  BY <1>5 DEF CheckNotQuiet, Checking
<1>6. ASSUME NEW p \in Procs, p = running, JudgeNamed(p) PROVE TurnInv'
  BY <1>6 DEF JudgeNamed, NextSlot
<1>7. ASSUME NEW p \in Procs, p = running, Judge(p) PROVE TurnInv'
  BY SMTT(60), <1>7 DEF Judge, NextSlot
<1>8. ASSUME NEW p \in Procs, p = running, Start(p) PROVE TurnInv'
  <2>1. /\ session' \in [Procs -> [Slots -> Session]] /\ slot[p] \in Slots
        /\ session'[p][slot[p]].waited = "no" /\ session'[p][slot[p]].code = Running
        /\ session'[p][slot[p]].file = file[p] /\ session'[p][slot[p]].blind = blind[p]
        /\ \A q \in Procs, j \in Slots :
             q # p \/ j # slot[p] => session'[q][j] = session[q][j]
    BY <1>8, ForkedFacts DEF Start
  <2> HIDE DEF Session
  <2> QED BY SMTT(60), <1>8, <2>1 DEF Start, CanPipe, Leak, NextSlot
<1>9. ASSUME NEW p \in Procs, p = running, StartUnseen(p) PROVE TurnInv'
  <2>1. /\ session' \in [Procs -> [Slots -> Session]] /\ slot[p] \in Slots
        /\ session'[p][slot[p]].waited = "popen2" /\ session'[p][slot[p]].code = Running
        /\ session'[p][slot[p]].file = file[p] /\ session'[p][slot[p]].blind = blind[p]
        /\ \A q \in Procs, j \in Slots :
             q # p \/ j # slot[p] => session'[q][j] = session[q][j]
    BY <1>9, ForkedFacts DEF StartUnseen
  <2> HIDE DEF Session
  <2>2. at'[p] = "popen2" /\ slot' = slot /\ \A q \in Procs : q # p => at'[q] = at[q]
    BY <1>9 DEF StartUnseen
  <2>3. at[p] # "popen2"
    BY <1>9 DEF StartUnseen
  <2>4. ASSUME NEW q \in Procs, NEW i \in Slots, session'[q][i].file # 0
        PROVE  i < slot'[q] \/ (i = slot'[q] /\ at'[q] = "popen2")
    <3>1. CASE q = p /\ i = slot[p]
      BY <2>2, <3>1
    <3>2. CASE q # p \/ i # slot[p]
      <4>1. session[q][i].file # 0
        BY <2>1, <2>4, <3>2
      <4>2. i < slot[q] \/ (i = slot[q] /\ at[q] = "popen2")
        BY <4>1 DEF TurnInv
      <4> QED BY <2>2, <2>3, <3>2, <4>2
    <3> QED BY <3>1, <3>2
  <2> QED BY <2>4 DEF TurnInv
<1>10. ASSUME NEW p \in Procs, p = running, UnseenEnds(p) PROVE TurnInv'
  BY <1>10 DEF UnseenEnds, NextSlot
<1>11. ASSUME NEW p \in Procs, p = running, StartFails(p) PROVE TurnInv'
  BY SMTT(60), <1>11 DEF StartFails, NextSlot, CanPipe, Leak, Blame
<1>12. ASSUME NEW p \in Procs, p = running, AllTried(p) PROVE TurnInv'
  BY <1>12 DEF AllTried, Counted, Started
<1>13. ASSUME NEW p \in Procs, p = running, Wait(p) PROVE TurnInv'
  <2>1. PICK i \in Ended(p) :
          /\ session' = [session EXCEPT ![p][i].waited = "tool"]
          /\ ret' = IF ret[p] = 0 /\ session[p][i].code # Killed
                    THEN Set(ret, p, session[p][i].code) ELSE ret
    BY <1>13 DEF Wait
  <2>2. /\ i \in Slots /\ session[p][i].file # 0 /\ session[p][i].waited = "no"
        /\ session[p][i].code \in {Killed, 0, 1}
    BY EndedFacts
  <2>3. session \in [Procs -> [Slots -> Session]]
    OBVIOUS
  <2>4. /\ session' \in [Procs -> [Slots -> Session]]
        /\ session'[p][i].waited = "tool"
        /\ \A q \in Procs, j \in Slots :
             /\ session'[q][j].file = session[q][j].file
             /\ session'[q][j].code = session[q][j].code
             /\ session'[q][j].blind = session[q][j].blind
             /\ q # p \/ j # i => session'[q][j] = session[q][j]
    BY ZenonT(60), <2>1, <2>2, <2>3, WaitedFacts
  <2> HIDE DEF Session
  <2> QED BY SMTT(60), <1>13, <2>1, <2>2, <2>4 DEF Wait
<1>14. ASSUME NEW p \in Procs, p = running, WaitDone(p) PROVE TurnInv'
  BY <1>14 DEF WaitDone, Waiting, Started
<1>15. ASSUME CloneExits PROVE TurnInv'
  BY <1>15 DEF CloneExits
<1>16. ASSUME NEW p \in Procs, NEW i \in Slots, SessionEnds(p, i) PROVE TurnInv'
  <2>1. /\ session' \in [Procs -> [Slots -> Session]]
        /\ session'[p][i].code \in {0, 1, Killed}
        /\ \A q \in Procs, j \in Slots :
             /\ session'[q][j].file = session[q][j].file
             /\ session'[q][j].waited = session[q][j].waited
             /\ session'[q][j].blind = session[q][j].blind
             /\ q # p \/ j # i => session'[q][j] = session[q][j]
    <3> HIDE DEF TypeOK, Session, Procs, Killed
    <3> QED BY <1>16, EndsFacts
  <2> HIDE DEF Session
  <2> QED BY <1>16, <2>1 DEF SessionEnds
<1>17. CASE UNCHANGED vars
  BY <1>17 DEF vars
<1> QED BY <1>1, <1>2, <1>3, <1>4, <1>5, <1>6, <1>7, <1>8, <1>9, <1>10, <1>11, <1>12,
    <1>13, <1>14, <1>15, <1>16, <1>17, RunningFact DEF Next, Step

LEMMA AheadStep ==
  TypeOK /\ WorkInv /\ CloneInv /\ TurnInv /\ AheadInv
    /\ [Next]_vars => AheadInv'
<1> SUFFICES ASSUME TypeOK, WorkInv, CloneInv, TurnInv, AheadInv, [Next]_vars PROVE AheadInv'
  OBVIOUS
<1> USE ImageAssumption DEF Job, Session, Files, Procs, Set, Slots, Piped, Running,
    Killed, TypeOK, Places, WorkInv, Working, CloneInv, TurnInv, AheadInv
<1>1. ASSUME NEW p \in Procs, p = running, Look(p) PROVE AheadInv'
  BY SMTT(60), <1>1 DEF Look, NextSlot, Blame, IsNamed
<1>2. ASSUME NEW p \in Procs, p = running, CheckEnds(p) PROVE AheadInv'
  BY <1>2 DEF CheckEnds, Checking, CanPipe, Leak, Returns, Blame, IsGood
<1>3. ASSUME NEW p \in Procs, p = running, CheckNotStarted(p) PROVE AheadInv'
  BY <1>3 DEF CheckNotStarted, Checking, CanPipe, Returns, Blame
<1>4. ASSUME NEW p \in Procs, p = running, CheckNotForked(p) PROVE AheadInv'
  <2>1. CASE Waiting(p) = {} /\ UNCHANGED session
    <3> HIDE DEF Session
    <3> QED BY SMTT(60), <1>4, <2>1 DEF CheckNotForked, Checking, Returns, Blame, Ended
  <2>2. ASSUME NEW i \in Ended(p),
               Returns(p, IF session[p][i].code = Killed THEN 1 ELSE session[p][i].code),
               session' = [session EXCEPT ![p][i].waited = "check"]
        PROVE  AheadInv'
    <3>1. /\ i \in Slots /\ session[p][i].file # 0 /\ session[p][i].waited = "no"
          /\ session[p][i].code \in {Killed, 0, 1}
      BY EndedFacts
    <3>2. session \in [Procs -> [Slots -> Session]]
      BY SMTT(60)
    <3>3. /\ session' \in [Procs -> [Slots -> Session]]
          /\ session'[p][i].waited = "check"
          /\ \A q \in Procs, j \in Slots :
               /\ session'[q][j].file = session[q][j].file
               /\ session'[q][j].code = session[q][j].code
               /\ session'[q][j].blind = session[q][j].blind
               /\ q # p \/ j # i => session'[q][j] = session[q][j]
      BY ZenonT(60), <2>2, <3>1, <3>2, WaitedFacts
    <3> HIDE DEF Session
    <3> QED BY SMTT(60), <1>4, <2>2, <3>1, <3>3 DEF CheckNotForked, Checking, Returns, Blame
  <2> QED BY <1>4, <2>1, <2>2 DEF CheckNotForked
<1>5. ASSUME NEW p \in Procs, p = running, CheckNotQuiet(p) PROVE AheadInv'
  BY <1>5 DEF CheckNotQuiet, Checking
<1>6. ASSUME NEW p \in Procs, p = running, JudgeNamed(p) PROVE AheadInv'
  BY SMTT(60), <1>6 DEF JudgeNamed, NextSlot
<1>7. ASSUME NEW p \in Procs, p = running, Judge(p) PROVE AheadInv'
  BY SMTT(60), <1>7 DEF Judge, NextSlot
<1>8. ASSUME NEW p \in Procs, p = running, Start(p) PROVE AheadInv'
  <2>1. /\ session' \in [Procs -> [Slots -> Session]] /\ slot[p] \in Slots
        /\ session'[p][slot[p]].waited = "no" /\ session'[p][slot[p]].code = Running
        /\ session'[p][slot[p]].file = file[p] /\ session'[p][slot[p]].blind = blind[p]
        /\ \A q \in Procs, j \in Slots :
             q # p \/ j # slot[p] => session'[q][j] = session[q][j]
    BY <1>8, ForkedFacts DEF Start
  <2> HIDE DEF Session
  <2>2. /\ at' = [at EXCEPT ![p] = "slot"] /\ slot' = [slot EXCEPT ![p] = slot[p] + 1]
        /\ running' = running /\ res' = res /\ at[p] = "start"
    BY <1>8 DEF Start, NextSlot
  <2>3. CASE p = "tool"
    <3>1. running' = "tool" /\ at'["clone"] = at["clone"]
      BY <2>2, <2>3, <1>8
    <3>2. \A i \in Slots : session'["clone"][i] = session["clone"][i]
      BY <2>1, <2>3
    <3> QED BY <3>1, <3>2
  <2>4. CASE p = "clone"
    <3>1. running' = "clone" /\ at'["clone"] = "slot" /\ slot'["clone"] = slot["clone"] + 1
      BY <2>2, <2>4, <1>8
    <3>2. slot["clone"] > slot["tool"] /\ slot'["tool"] = slot["tool"]
      BY <2>2, <2>4, <1>8
    <3>3. slot["clone"] \in Int /\ slot["tool"] \in Int
      OBVIOUS
    <3>4. slot'["clone"] > slot'["tool"]
      BY <3>1, <3>2, <3>3
    <3>5. ASSUME NEW i \in Slots, session'["clone"][i].file # 0 PROVE i > slot["tool"]
      <4>1. CASE i = slot["clone"]
        BY <3>2, <4>1
      <4>2. CASE i # slot["clone"]
        <5>1. session["clone"][i].file # 0
          BY <2>1, <2>4, <3>5, <4>2
        <5> QED BY <5>1, <2>4, <1>8 DEF AheadInv
      <4> QED BY <4>1, <4>2
    <3> QED BY <3>1, <3>2, <3>4, <3>5
  <2> QED BY <2>3, <2>4
<1>9. ASSUME NEW p \in Procs, p = running, StartUnseen(p) PROVE AheadInv'
  <2>1. /\ session' \in [Procs -> [Slots -> Session]] /\ slot[p] \in Slots
        /\ session'[p][slot[p]].waited = "popen2" /\ session'[p][slot[p]].code = Running
        /\ session'[p][slot[p]].file = file[p] /\ session'[p][slot[p]].blind = blind[p]
        /\ \A q \in Procs, j \in Slots :
             q # p \/ j # slot[p] => session'[q][j] = session[q][j]
    BY <1>9, ForkedFacts DEF StartUnseen
  <2> HIDE DEF Session
  <2> QED BY <1>9, <2>1 DEF StartUnseen, CanPipe, Blame
<1>10. ASSUME NEW p \in Procs, p = running, UnseenEnds(p) PROVE AheadInv'
  <2>1. /\ at' = [at EXCEPT ![p] = "slot"] /\ slot' = [slot EXCEPT ![p] = slot[p] + 1]
        /\ running' = running /\ res' = res /\ session' = session /\ at[p] = "popen2"
    BY <1>10 DEF UnseenEnds, NextSlot
  <2>2. CASE p = "tool"
    <3>1. running' = "tool" /\ at'["clone"] = at["clone"]
      BY <2>1, <2>2, <1>10
    <3> QED BY <2>1, <3>1
  <2>3. CASE p = "clone"
    <3>1. running = "clone" /\ at'["clone"] = "slot" /\ slot["tool"] < slot["clone"]
      BY <2>1, <2>3, <1>10
    <3>2. slot'["clone"] = slot["clone"] + 1 /\ slot'["tool"] = slot["tool"]
      BY <2>1, <2>3
    <3>3. slot["clone"] \in Int /\ slot["tool"] \in Int
      OBVIOUS
    <3>4. slot'["clone"] > slot'["tool"]
      BY <3>1, <3>2, <3>3
    <3> QED BY <2>1, <3>1, <3>2, <3>4
  <2> QED BY <2>2, <2>3
<1>11. ASSUME NEW p \in Procs, p = running, StartFails(p) PROVE AheadInv'
  BY SMTT(60), <1>11 DEF StartFails, NextSlot, CanPipe, Leak, Blame
<1>12. ASSUME NEW p \in Procs, p = running, AllTried(p) PROVE AheadInv'
  BY <1>12 DEF AllTried, Counted, Started
<1>13. ASSUME NEW p \in Procs, p = running, Wait(p) PROVE AheadInv'
  <2>1. PICK i \in Ended(p) :
          /\ session' = [session EXCEPT ![p][i].waited = "tool"]
          /\ ret' = IF ret[p] = 0 /\ session[p][i].code # Killed
                    THEN Set(ret, p, session[p][i].code) ELSE ret
    BY <1>13 DEF Wait
  <2>2. /\ i \in Slots /\ session[p][i].file # 0 /\ session[p][i].waited = "no"
        /\ session[p][i].code \in {Killed, 0, 1}
    BY EndedFacts
  <2>3. session \in [Procs -> [Slots -> Session]]
    OBVIOUS
  <2>4. /\ session' \in [Procs -> [Slots -> Session]]
        /\ session'[p][i].waited = "tool"
        /\ \A q \in Procs, j \in Slots :
             /\ session'[q][j].file = session[q][j].file
             /\ session'[q][j].code = session[q][j].code
             /\ session'[q][j].blind = session[q][j].blind
             /\ q # p \/ j # i => session'[q][j] = session[q][j]
    BY ZenonT(60), <2>1, <2>2, <2>3, WaitedFacts
  <2> HIDE DEF Session
  <2> QED BY SMTT(60), <1>13, <2>1, <2>2, <2>4 DEF Wait
<1>14. ASSUME NEW p \in Procs, p = running, WaitDone(p) PROVE AheadInv'
  BY <1>14 DEF WaitDone, Waiting, Started
<1>15. ASSUME CloneExits PROVE AheadInv'
  BY <1>15 DEF CloneExits
<1>16. ASSUME NEW p \in Procs, NEW i \in Slots, SessionEnds(p, i) PROVE AheadInv'
  <2>1. /\ session' \in [Procs -> [Slots -> Session]]
        /\ session'[p][i].code \in {0, 1, Killed}
        /\ \A q \in Procs, j \in Slots :
             /\ session'[q][j].file = session[q][j].file
             /\ session'[q][j].waited = session[q][j].waited
             /\ session'[q][j].blind = session[q][j].blind
             /\ q # p \/ j # i => session'[q][j] = session[q][j]
    <3> HIDE DEF TypeOK, Session, Procs, Killed
    <3> QED BY <1>16, EndsFacts
  <2> HIDE DEF Session
  <2> QED BY SMTT(60), <1>16, <2>1 DEF SessionEnds
<1>17. CASE UNCHANGED vars
  BY <1>17 DEF vars
<1> QED BY <1>1, <1>2, <1>3, <1>4, <1>5, <1>6, <1>7, <1>8, <1>9, <1>10, <1>11, <1>12,
    <1>13, <1>14, <1>15, <1>16, <1>17, RunningFact DEF Next, Step

LEMMA EndedStep == TypeOK /\ WorkInv /\ CloneInv /\ EndedInv /\ [Next]_vars => EndedInv'
<1> SUFFICES ASSUME TypeOK, WorkInv, CloneInv, EndedInv, [Next]_vars PROVE EndedInv'
  OBVIOUS
<1> USE ImageAssumption DEF Job, Session, Files, Procs, Set, Slots, Piped, Running,
    Killed, TypeOK, Places, WorkInv, Working, CloneInv, EndedInv
<1>1. ASSUME NEW p \in Procs, p = running, Look(p) PROVE EndedInv'
  BY <1>1 DEF Look, NextSlot, Blame, IsNamed
<1>2. ASSUME NEW p \in Procs, p = running, CheckEnds(p) PROVE EndedInv'
  BY <1>2 DEF CheckEnds, Checking, CanPipe, Leak, Returns, Blame, IsGood
<1>3. ASSUME NEW p \in Procs, p = running, CheckNotStarted(p) PROVE EndedInv'
  BY <1>3 DEF CheckNotStarted, Checking, CanPipe, Returns, Blame
<1>4. ASSUME NEW p \in Procs, p = running, CheckNotForked(p) PROVE EndedInv'
  <2>1. CASE Waiting(p) = {} /\ UNCHANGED session
    <3> HIDE DEF Session
    <3> QED BY SMTT(60), <1>4, <2>1 DEF CheckNotForked, Checking, Returns, Blame, Ended
  <2>2. ASSUME NEW i \in Ended(p),
               Returns(p, IF session[p][i].code = Killed THEN 1 ELSE session[p][i].code),
               session' = [session EXCEPT ![p][i].waited = "check"]
        PROVE  EndedInv'
    <3>1. /\ i \in Slots /\ session[p][i].file # 0 /\ session[p][i].waited = "no"
          /\ session[p][i].code \in {Killed, 0, 1}
      BY SMTT(60), EndedFacts
    <3>2. session \in [Procs -> [Slots -> Session]]
      OBVIOUS
    <3>3. /\ session' \in [Procs -> [Slots -> Session]]
          /\ session'[p][i].waited = "check"
          /\ \A q \in Procs, j \in Slots :
               /\ session'[q][j].file = session[q][j].file
               /\ session'[q][j].code = session[q][j].code
               /\ session'[q][j].blind = session[q][j].blind
               /\ q # p \/ j # i => session'[q][j] = session[q][j]
      BY ZenonT(60), <2>2, <3>1, <3>2, WaitedFacts
    <3> HIDE DEF Session
    <3>4. /\ job' = job /\ (at'["clone"] = "exit" => at["clone"] = "exit")
      BY <1>4, <2>2 DEF CheckNotForked, Checking, Returns
    <3>5. ASSUME NEW q \in Procs, NEW j \in Slots
          PROVE  /\ session'[q][j].waited \in {"check", "tool"} => session'[q][j].code # Running
                 /\ session'[q][j].waited = "popen2" => job'.tool = "micflash"
      <4>1. CASE q = p /\ j = i
        BY <3>1, <3>3, <4>1
      <4>2. CASE q # p \/ j # i
        <5>1. session'[q][j] = session[q][j]
          BY ZenonT(60), <3>3, <4>2
        <5> QED BY <5>1, <3>4 DEF EndedInv
      <4> QED BY <4>1, <4>2
    <3>6. ASSUME at'["clone"] = "exit", NEW j \in Slots, session'["clone"][j].file # 0
          PROVE  session'["clone"][j].code # Running
      BY ZenonT(60), <3>3, <3>4, <3>6 DEF EndedInv
    <3> QED BY <3>5, <3>6 DEF EndedInv
  <2> QED BY <1>4, <2>1, <2>2 DEF CheckNotForked
<1>5. ASSUME NEW p \in Procs, p = running, CheckNotQuiet(p) PROVE EndedInv'
  BY ZenonT(60), <1>5 DEF CheckNotQuiet, Checking
<1>6. ASSUME NEW p \in Procs, p = running, JudgeNamed(p) PROVE EndedInv'
  BY <1>6 DEF JudgeNamed, NextSlot
<1>7. ASSUME NEW p \in Procs, p = running, Judge(p) PROVE EndedInv'
  BY <1>7 DEF Judge, NextSlot
<1>8. ASSUME NEW p \in Procs, p = running, Start(p) PROVE EndedInv'
  <2>1. /\ session' \in [Procs -> [Slots -> Session]] /\ slot[p] \in Slots
        /\ session'[p][slot[p]].waited = "no" /\ session'[p][slot[p]].code = Running
        /\ session'[p][slot[p]].file = file[p] /\ session'[p][slot[p]].blind = blind[p]
        /\ \A q \in Procs, j \in Slots :
             q # p \/ j # slot[p] => session'[q][j] = session[q][j]
    BY <1>8, ForkedFacts DEF Start
  <2> HIDE DEF Session
  <2>2. (job' = job /\ at'["clone"] # "exit") \/ (at'["clone"] = at["clone"] /\ p = "tool" /\ job' = job)
    BY <1>8 DEF Start, NextSlot
  <2>3. ASSUME NEW q \in Procs, NEW j \in Slots
        PROVE  /\ session'[q][j].waited \in {"check", "tool"} => session'[q][j].code # Running
               /\ session'[q][j].waited = "popen2" => job'.tool = "micflash"
    <3>1. CASE q = p /\ j = slot[p]
      BY <2>1, <3>1, <1>8 DEF Start, NextSlot
    <3>2. CASE q # p \/ j # slot[p]
      <4>1. session'[q][j] = session[q][j]
        BY <2>1, <3>2
      <4> QED BY <4>1, <1>8 DEF Start, NextSlot, EndedInv
    <3> QED BY <3>1, <3>2
  <2>4. ASSUME at'["clone"] = "exit", NEW j \in Slots, session'["clone"][j].file # 0
        PROVE  session'["clone"][j].code # Running
    BY <2>1, <2>2, <2>4 DEF EndedInv
  <2> QED BY <2>3, <2>4 DEF EndedInv
<1>9. ASSUME NEW p \in Procs, p = running, StartUnseen(p) PROVE EndedInv'
  <2>1. /\ session' \in [Procs -> [Slots -> Session]] /\ slot[p] \in Slots
        /\ session'[p][slot[p]].waited = "popen2" /\ session'[p][slot[p]].code = Running
        /\ session'[p][slot[p]].file = file[p] /\ session'[p][slot[p]].blind = blind[p]
        /\ \A q \in Procs, j \in Slots :
             q # p \/ j # slot[p] => session'[q][j] = session[q][j]
    BY <1>9, ForkedFacts DEF StartUnseen
  <2> HIDE DEF Session
  <2>2. (job' = job /\ at'["clone"] # "exit") \/ (at'["clone"] = at["clone"] /\ p = "tool" /\ job' = job)
    BY <1>9 DEF StartUnseen
  <2>3. ASSUME NEW q \in Procs, NEW j \in Slots
        PROVE  /\ session'[q][j].waited \in {"check", "tool"} => session'[q][j].code # Running
               /\ session'[q][j].waited = "popen2" => job'.tool = "micflash"
    <3>1. CASE q = p /\ j = slot[p]
      BY <2>1, <3>1, <1>9 DEF StartUnseen
    <3>2. CASE q # p \/ j # slot[p]
      <4>1. session'[q][j] = session[q][j]
        BY <2>1, <3>2
      <4> QED BY <4>1, <1>9 DEF StartUnseen, EndedInv
    <3> QED BY <3>1, <3>2
  <2>4. ASSUME at'["clone"] = "exit", NEW j \in Slots, session'["clone"][j].file # 0
        PROVE  session'["clone"][j].code # Running
    BY <2>1, <2>2, <2>4 DEF EndedInv
  <2> QED BY <2>3, <2>4 DEF EndedInv
<1>10. ASSUME NEW p \in Procs, p = running, UnseenEnds(p) PROVE EndedInv'
  BY <1>10 DEF UnseenEnds, NextSlot
<1>11. ASSUME NEW p \in Procs, p = running, StartFails(p) PROVE EndedInv'
  BY <1>11 DEF StartFails, NextSlot, CanPipe, Leak, Blame
<1>12. ASSUME NEW p \in Procs, p = running, AllTried(p) PROVE EndedInv'
  <2>1. ASSUME at'["clone"] = "exit", NEW i \in Slots, session["clone"][i].file # 0
        PROVE  session["clone"][i].code # Running
    <3>1. CASE at["clone"] = "exit"
      BY <3>1, <2>1
    <3>2. CASE at["clone"] # "exit"
      <4>1. p = "clone" /\ Counted("clone") = {}
        BY <1>12, <2>1, <3>2 DEF AllTried
      <4>2. session["clone"][i].waited = "popen2"
        BY <4>1, <2>1 DEF Counted, Started
      <4> QED BY <4>2, <1>12, <4>1 DEF AllTried
    <3> QED BY <3>1, <3>2
  <2> QED BY <1>12, <2>1 DEF AllTried
<1>13. ASSUME NEW p \in Procs, p = running, Wait(p) PROVE EndedInv'
  <2>1. PICK i \in Ended(p) :
          /\ session' = [session EXCEPT ![p][i].waited = "tool"]
          /\ ret' = IF ret[p] = 0 /\ session[p][i].code # Killed
                    THEN Set(ret, p, session[p][i].code) ELSE ret
    BY <1>13 DEF Wait
  <2>2. /\ i \in Slots /\ session[p][i].file # 0 /\ session[p][i].waited = "no"
        /\ session[p][i].code \in {Killed, 0, 1}
    BY EndedFacts
  <2>3. session \in [Procs -> [Slots -> Session]]
    OBVIOUS
  <2>4. /\ session' \in [Procs -> [Slots -> Session]]
        /\ session'[p][i].waited = "tool"
        /\ \A q \in Procs, j \in Slots :
             /\ session'[q][j].file = session[q][j].file
             /\ session'[q][j].code = session[q][j].code
             /\ session'[q][j].blind = session[q][j].blind
             /\ q # p \/ j # i => session'[q][j] = session[q][j]
    BY ZenonT(60), <2>1, <2>2, <2>3, WaitedFacts
  <2> HIDE DEF Session
  <2> QED BY SMTT(60), <1>13, <2>1, <2>2, <2>4 DEF Wait
<1>14. ASSUME NEW p \in Procs, p = running, WaitDone(p) PROVE EndedInv'
  <2>1. ASSUME at'["clone"] = "exit", NEW i \in Slots, session["clone"][i].file # 0
        PROVE  session["clone"][i].code # Running
    <3>1. CASE at["clone"] = "exit"
      BY <3>1, <2>1
    <3>2. CASE at["clone"] # "exit"
      <4>1. p = "clone" /\ Waiting("clone") = {}
        BY <1>14, <2>1, <3>2 DEF WaitDone
      <4>2. session["clone"][i].waited # "no"
        BY <4>1, <2>1 DEF Waiting, Started
      <4>3. session["clone"][i].waited \in {"check", "tool", "popen2"}
        BY <4>2
      <4>4. job.tool = "mpssflash"
        BY <4>1, <1>14 DEF WaitDone
      <4> QED BY <4>3, <4>4
    <3> QED BY <3>1, <3>2
  <2> QED BY <1>14, <2>1 DEF WaitDone
<1>15. ASSUME CloneExits PROVE EndedInv'
  BY <1>15 DEF CloneExits
<1>16. ASSUME NEW p \in Procs, NEW i \in Slots, SessionEnds(p, i) PROVE EndedInv'
  <2>1. /\ session' \in [Procs -> [Slots -> Session]]
        /\ session'[p][i].code \in {0, 1, Killed}
        /\ \A q \in Procs, j \in Slots :
             /\ session'[q][j].file = session[q][j].file
             /\ session'[q][j].waited = session[q][j].waited
             /\ session'[q][j].blind = session[q][j].blind
             /\ q # p \/ j # i => session'[q][j] = session[q][j]
    <3> HIDE DEF TypeOK, Session, Procs, Killed
    <3> QED BY <1>16, EndsFacts
  <2> HIDE DEF Session
  <2> QED BY SMTT(60), <1>16, <2>1 DEF SessionEnds
<1>17. CASE UNCHANGED vars
  BY <1>17 DEF vars
<1> QED BY <1>1, <1>2, <1>3, <1>4, <1>5, <1>6, <1>7, <1>8, <1>9, <1>10, <1>11, <1>12,
    <1>13, <1>14, <1>15, <1>16, <1>17, RunningFact DEF Next, Step

LEMMA CutStep == TypeOK /\ WorkInv /\ CloneInv /\ CutInv /\ NamedInv /\ [Next]_vars => CutInv'
<1> SUFFICES ASSUME TypeOK, WorkInv, CloneInv, CutInv, NamedInv, [Next]_vars PROVE CutInv'
  OBVIOUS
<1> USE ImageAssumption DEF Job, Files, Procs, Set, Slots, Piped, TypeOK, Places,
    Trusted, InFaults, NamedPath, WorkInv, Working, CloneInv, CutInv, NamedInv
<1>1. ASSUME NEW p \in Procs, p = running, Look(p) PROVE CutInv'
  BY <1>1 DEF Look, NextSlot, Blame, IsNamed
<1>2. ASSUME NEW p \in Procs, p = running, CheckEnds(p) PROVE CutInv'
  BY <1>2 DEF CheckEnds, Checking, CanPipe, Leak, Returns, Blame, IsGood
<1>3. ASSUME NEW p \in Procs, p = running, CheckNotStarted(p) PROVE CutInv'
  BY <1>3 DEF CheckNotStarted, Checking, CanPipe, Returns, Blame
<1>4. ASSUME NEW p \in Procs, p = running, CheckNotForked(p) PROVE CutInv'
  BY <1>4 DEF CheckNotForked, Checking, Returns, Blame, Ended, Waiting, Started
<1>5. ASSUME NEW p \in Procs, p = running, CheckNotQuiet(p) PROVE CutInv'
  BY <1>5 DEF CheckNotQuiet, Checking
<1>6. ASSUME NEW p \in Procs, p = running, JudgeNamed(p) PROVE CutInv'
  BY <1>6 DEF JudgeNamed, NextSlot
<1>7. ASSUME NEW p \in Procs, p = running, Judge(p) PROVE CutInv'
  BY <1>7 DEF Judge, NextSlot
<1>8. ASSUME NEW p \in Procs, p = running, Start(p) PROVE CutInv'
  BY <1>8 DEF Start, CanPipe, Leak, NextSlot
<1>9. ASSUME NEW p \in Procs, p = running, StartUnseen(p) PROVE CutInv'
  BY <1>9 DEF StartUnseen, CanPipe, Blame
<1>10. ASSUME NEW p \in Procs, p = running, UnseenEnds(p) PROVE CutInv'
  BY <1>10 DEF UnseenEnds, NextSlot
<1>11. ASSUME NEW p \in Procs, p = running, StartFails(p) PROVE CutInv'
  BY <1>11 DEF StartFails, NextSlot, CanPipe, Leak, Blame
<1>12. ASSUME NEW p \in Procs, p = running, AllTried(p) PROVE CutInv'
  BY <1>12 DEF AllTried, Counted, Started
<1>13. ASSUME NEW p \in Procs, p = running, Wait(p) PROVE CutInv'
  BY <1>13 DEF Wait, Ended, Waiting, Started
<1>14. ASSUME NEW p \in Procs, p = running, WaitDone(p) PROVE CutInv'
  BY <1>14 DEF WaitDone, Waiting, Started
<1>15. ASSUME CloneExits PROVE CutInv'
  BY <1>15 DEF CloneExits
<1>16. ASSUME NEW p \in Procs, NEW i \in Slots, SessionEnds(p, i) PROVE CutInv'
  BY <1>16 DEF SessionEnds
<1>17. CASE UNCHANGED vars
  BY <1>17 DEF vars
<1> QED BY <1>1, <1>2, <1>3, <1>4, <1>5, <1>6, <1>7, <1>8, <1>9, <1>10, <1>11, <1>12,
    <1>13, <1>14, <1>15, <1>16, <1>17, RunningFact DEF Next, Step

LEMMA NamedStep == TypeOK /\ WorkInv /\ CloneInv /\ NamedInv /\ [Next]_vars => NamedInv'
<1> SUFFICES ASSUME TypeOK, WorkInv, CloneInv, NamedInv, [Next]_vars PROVE NamedInv'
  OBVIOUS
<1> USE ImageAssumption DEF Job, Files, Procs, Set, Slots, Piped, TypeOK, Places,
    Trusted, InFaults, NamedPath, WorkInv, Working, CloneInv, NamedInv
<1>1. ASSUME NEW p \in Procs, p = running, Look(p) PROVE NamedInv'
  BY <1>1 DEF Look, NextSlot, Blame, IsNamed
<1>2. ASSUME NEW p \in Procs, p = running, CheckEnds(p) PROVE NamedInv'
  BY <1>2 DEF CheckEnds, Checking, CanPipe, Leak, Returns, Blame, IsGood
<1>3. ASSUME NEW p \in Procs, p = running, CheckNotStarted(p) PROVE NamedInv'
  BY <1>3 DEF CheckNotStarted, Checking, CanPipe, Returns, Blame
<1>4. ASSUME NEW p \in Procs, p = running, CheckNotForked(p) PROVE NamedInv'
  BY <1>4 DEF CheckNotForked, Checking, Returns, Blame, Ended, Waiting, Started
<1>5. ASSUME NEW p \in Procs, p = running, CheckNotQuiet(p) PROVE NamedInv'
  BY <1>5 DEF CheckNotQuiet, Checking
<1>6. ASSUME NEW p \in Procs, p = running, JudgeNamed(p) PROVE NamedInv'
  BY <1>6 DEF JudgeNamed, NextSlot
<1>7. ASSUME NEW p \in Procs, p = running, Judge(p) PROVE NamedInv'
  BY <1>7 DEF Judge, NextSlot
<1>8. ASSUME NEW p \in Procs, p = running, Start(p) PROVE NamedInv'
  BY <1>8 DEF Start, CanPipe, Leak, NextSlot
<1>9. ASSUME NEW p \in Procs, p = running, StartUnseen(p) PROVE NamedInv'
  BY <1>9 DEF StartUnseen, CanPipe, Blame
<1>10. ASSUME NEW p \in Procs, p = running, UnseenEnds(p) PROVE NamedInv'
  BY <1>10 DEF UnseenEnds, NextSlot
<1>11. ASSUME NEW p \in Procs, p = running, StartFails(p) PROVE NamedInv'
  BY <1>11 DEF StartFails, NextSlot, CanPipe, Leak, Blame
<1>12. ASSUME NEW p \in Procs, p = running, AllTried(p) PROVE NamedInv'
  BY <1>12 DEF AllTried, Counted, Started
<1>13. ASSUME NEW p \in Procs, p = running, Wait(p) PROVE NamedInv'
  BY <1>13 DEF Wait, Ended, Waiting, Started
<1>14. ASSUME NEW p \in Procs, p = running, WaitDone(p) PROVE NamedInv'
  BY <1>14 DEF WaitDone, Waiting, Started
<1>15. ASSUME CloneExits PROVE NamedInv'
  BY <1>15 DEF CloneExits
<1>16. ASSUME NEW p \in Procs, NEW i \in Slots, SessionEnds(p, i) PROVE NamedInv'
  BY SMTT(60), <1>16 DEF SessionEnds
<1>17. CASE UNCHANGED vars
  BY <1>17 DEF vars
<1> QED BY <1>1, <1>2, <1>3, <1>4, <1>5, <1>6, <1>7, <1>8, <1>9, <1>10, <1>11, <1>12,
    <1>13, <1>14, <1>15, <1>16, <1>17, RunningFact DEF Next, Step

LEMMA SearchStep ==
  TypeOK /\ WorkInv /\ CloneInv /\ CutInv /\ NamedInv /\ VerdictInv /\ SearchInv
    /\ [Next]_vars => SearchInv'
<1> SUFFICES ASSUME TypeOK, WorkInv, CloneInv, CutInv, NamedInv, VerdictInv, SearchInv, [Next]_vars PROVE SearchInv'
  OBVIOUS
<1> USE ImageAssumption DEF Job, Files, Procs, Set, Slots, Piped, TypeOK, Places,
    Trusted, InFaults, NamedPath, WorkInv, Working, CloneInv, CutInv, NamedInv,
    VerdictInv, SearchInv, Good
<1>1. ASSUME NEW p \in Procs, p = running, Look(p) PROVE SearchInv'
  <2>1. /\ job' = job /\ res' = res /\ cut' = cut /\ faults \subseteq faults'
        /\ \A q \in Procs : q # p => at'[q] = at[q] /\ slot'[q] = slot[q] /\ file'[q] = file[q]
    BY <1>1 DEF Look, NextSlot, Blame
  <2>2. at'[p] # "judge"
    BY <1>1 DEF Look, NextSlot
  <2>3. at'[p] = "search" => /\ NamedPath => cut[p]
                            /\ file'[p] = NFiles
    BY <1>1 DEF Look, NextSlot, IsNamed
  <2>4. \A g \in Files : ~(g > NFiles)
    BY ImageAssumption
  <2>5. ASSUME NEW q \in Procs, at'[q] = "search" \/ (at'[q] = "judge" /\ res'[q] >= 0)
        PROVE  /\ NamedPath => cut[q]
               /\ \A g \in Files : g > file'[q] /\ Good(g, slot'[q], FALSE)
                                   => <<q, slot'[q], g>> \in faults'
    <3> HIDE DEF Good, NamedPath, TypeOK, Files
    <3>1. CASE q = p
      BY <2>2, <2>3, <2>4, <2>5, <3>1
    <3>2. CASE q # p
      BY <2>1, <2>5, <3>2 DEF SearchInv
    <3> QED BY <3>1, <3>2
  <2> HIDE DEF TypeOK
  <2> QED BY <2>1, <2>5 DEF SearchInv
<1>2. ASSUME NEW p \in Procs, p = running, CheckEnds(p) PROVE SearchInv'
  BY SMTT(60), <1>2 DEF CheckEnds, Checking, CanPipe, Leak, Returns, Blame, IsGood
<1>3. ASSUME NEW p \in Procs, p = running, CheckNotStarted(p) PROVE SearchInv'
  BY <1>3 DEF CheckNotStarted, Checking, CanPipe, Returns, Blame
<1>4. ASSUME NEW p \in Procs, p = running, CheckNotForked(p) PROVE SearchInv'
  BY SMTT(60), <1>4 DEF CheckNotForked, Checking, Returns, Blame, Ended, Waiting, Started
<1>5. ASSUME NEW p \in Procs, p = running, CheckNotQuiet(p) PROVE SearchInv'
  <2>1. /\ job' = job /\ at["tool"] \in {"named", "search"} /\ res'["clone"] = -1
        /\ at'["tool"] = at["tool"] /\ at'["clone"] # "search"
        /\ slot'["tool"] = slot["tool"] /\ file'["tool"] = file["tool"] /\ cut'["tool"] = cut["tool"]
        /\ faults \subseteq faults'
    BY <1>5 DEF CheckNotQuiet, Checking
  <2>2. ~(res'["clone"] >= 0) /\ at'["tool"] # "judge"
    BY <2>1
  <2> QED BY ZenonT(60), <2>1, <2>2 DEF SearchInv
<1>6. ASSUME NEW p \in Procs, p = running, JudgeNamed(p) PROVE SearchInv'
  <2>1. /\ job' = job /\ res' = res /\ faults' = faults /\ at'[p] \notin {"search", "judge"}
        /\ \A q \in Procs : q # p => /\ at'[q] = at[q] /\ slot'[q] = slot[q]
                                     /\ file'[q] = file[q] /\ cut'[q] = cut[q]
    BY <1>6 DEF JudgeNamed, NextSlot
  <2>2. \A f, i, k : Good(f, i, k)' <=> Good(f, i, k)
    BY <2>1 DEF Good
  <2> HIDE DEF Good, TypeOK
  <2> QED BY <2>1, <2>2 DEF SearchInv
<1>7. ASSUME NEW p \in Procs, p = running, Judge(p) PROVE SearchInv'
  <2>1. /\ job' = job /\ running' = running /\ fds' = fds /\ blind' = blind /\ res' = res
        /\ \A q \in Procs : q # p => at'[q] = at[q] /\ slot'[q] = slot[q] /\ file'[q] = file[q]
        /\ faults' = faults /\ cut' = cut
    BY <1>7 DEF Judge, NextSlot
  <2>2. ASSUME at'[p] = "search" \/ at'[p] = "judge"
        PROVE  /\ at[p] = "judge" /\ res[p] > 0 /\ slot'[p] = slot[p]
               /\ file'[p] = file[p] - 1 /\ file[p] \in Int
    BY SMTT(60), <2>2, <1>7 DEF Judge, NextSlot
  <2>3. ASSUME at'[p] = "search" \/ at'[p] = "judge",
               NEW g \in Files, g > file'[p], Good(g, slot[p], FALSE)
        PROVE  <<p, slot[p], g>> \in faults
    <3>1. g \in Int /\ (g = file[p] \/ g > file[p])
      BY SMTT(60), <2>2, <2>3
    <3>2. CASE g = file[p]
      BY <2>2, <2>3, <3>2 DEF VerdictInv
    <3>3. CASE g > file[p]
      <4>1. res[p] >= 0
        BY SMTT(60), <2>2, <2>3
      <4> QED BY <2>2, <2>3, <3>3, <4>1 DEF SearchInv
    <3> QED BY <3>1, <3>2, <3>3
  <2>4. at'[p] = "search" \/ at'[p] = "judge" => (NamedPath => cut[p])
    <3>1. res[p] > 0 => res[p] >= 0
      OBVIOUS
    <3> QED BY <2>2, <3>1 DEF SearchInv
  <2>5. \A q \in Procs : q # p => (at'[q] = at[q] /\ slot'[q] = slot[q] /\ file'[q] = file[q])
    BY <2>1
  <2>6. ASSUME NEW q \in Procs, at'[q] = "search" \/ (at'[q] = "judge" /\ res'[q] >= 0)
        PROVE  /\ NamedPath => cut[q]
               /\ \A g \in Files : g > file'[q] /\ Good(g, slot'[q], FALSE) => <<q, slot'[q], g>> \in faults
    <3> HIDE DEF Good, NamedPath, TypeOK
    <3>1. CASE q = p
      BY <2>2, <2>3, <2>4, <2>6, <3>1
    <3>2. CASE q # p
      BY <2>1, <2>5, <2>6, <3>2 DEF SearchInv
    <3> QED BY <3>1, <3>2
  <2> HIDE DEF TypeOK
  <2> QED BY <2>1, <2>6 DEF SearchInv
<1>8. ASSUME NEW p \in Procs, p = running, Start(p) PROVE SearchInv'
  BY ZenonT(60), <1>8 DEF Start, CanPipe, Leak, NextSlot
<1>9. ASSUME NEW p \in Procs, p = running, StartUnseen(p) PROVE SearchInv'
  BY <1>9 DEF StartUnseen, CanPipe, Blame
<1>10. ASSUME NEW p \in Procs, p = running, UnseenEnds(p) PROVE SearchInv'
  BY ZenonT(60), <1>10 DEF UnseenEnds, NextSlot
<1>11. ASSUME NEW p \in Procs, p = running, StartFails(p) PROVE SearchInv'
  BY ZenonT(60), <1>11 DEF StartFails, NextSlot, CanPipe, Leak, Blame
<1>12. ASSUME NEW p \in Procs, p = running, AllTried(p) PROVE SearchInv'
  BY SMTT(60), <1>12 DEF AllTried, Counted, Started
<1>13. ASSUME NEW p \in Procs, p = running, Wait(p) PROVE SearchInv'
  BY ZenonT(60), <1>13 DEF Wait, Ended, Waiting, Started
<1>14. ASSUME NEW p \in Procs, p = running, WaitDone(p) PROVE SearchInv'
  BY SMTT(60), <1>14 DEF WaitDone, Waiting, Started
<1>15. ASSUME CloneExits PROVE SearchInv'
  BY <1>15 DEF CloneExits
<1>16. ASSUME NEW p \in Procs, NEW i \in Slots, SessionEnds(p, i) PROVE SearchInv'
  BY <1>16 DEF SessionEnds
<1>17. CASE UNCHANGED vars
  BY <1>17 DEF vars
<1> QED BY <1>1, <1>2, <1>3, <1>4, <1>5, <1>6, <1>7, <1>8, <1>9, <1>10, <1>11, <1>12,
    <1>13, <1>14, <1>15, <1>16, <1>17, RunningFact DEF Next, Step

LEMMA VerdictStep ==
  TypeOK /\ WorkInv /\ CloneInv /\ NamedInv /\ VerdictInv
    /\ [Next]_vars => VerdictInv'
<1> SUFFICES ASSUME TypeOK, WorkInv, CloneInv, NamedInv, VerdictInv, [Next]_vars PROVE VerdictInv'
  OBVIOUS
<1> USE ImageAssumption DEF Job, Files, Procs, Set, Slots, Piped, TypeOK, Places,
    Trusted, InFaults, NamedPath, WorkInv, Working, CloneInv, NamedInv, VerdictInv,
    Good, Spent
<1>1. ASSUME NEW p \in Procs, p = running, Look(p) PROVE VerdictInv'
  <2>1. /\ job' = job /\ running' = running /\ fds' = fds /\ blind' = blind /\ res' = res
        /\ \A q \in Procs : q # p => at'[q] = at[q] /\ slot'[q] = slot[q] /\ file'[q] = file[q]
        /\ faults \subseteq faults' /\ at'[p] \notin {"judge", "judge_named"}
    BY <1>1 DEF Look, NextSlot, Blame
  <2>2. running = "clone" => p # "tool"
    BY <1>1 DEF Look
  <2>3. running' = "clone" => InFaults("tool")'
    BY <2>1, <2>2
  <2>4. ASSUME NEW q \in Procs, at'[q] \in {"judge", "judge_named"}
        PROVE  /\ at'[q] = at[q] /\ slot'[q] = slot[q] /\ file'[q] = file[q] /\ res'[q] = res[q]
               /\ InFaults(q) => InFaults(q)'
               /\ Trusted(q)' <=> Trusted(q)
    BY <2>1, <2>4
  <2>5. \A f, i, k : Good(f, i, k)' <=> Good(f, i, k)
    BY <2>1 DEF Good
  <2> HIDE DEF InFaults, Trusted, Good, TypeOK
  <2> QED BY ZenonT(60), <2>1, <2>3, <2>4, <2>5 DEF VerdictInv
<1>2. ASSUME NEW p \in Procs, p = running, CheckEnds(p) PROVE VerdictInv'
  BY SMTT(60), <1>2 DEF CheckEnds, Checking, CanPipe, Leak, Returns, Blame, IsGood
<1>3. ASSUME NEW p \in Procs, p = running, CheckNotStarted(p) PROVE VerdictInv'
  BY SMTT(60), <1>3 DEF CheckNotStarted, Checking, CanPipe, Returns, Blame
<1>4. ASSUME NEW p \in Procs, p = running, CheckNotForked(p) PROVE VerdictInv'
  BY SMTT(60), <1>4 DEF CheckNotForked, Checking, Returns, Blame, Ended, Waiting, Started
<1>5. ASSUME NEW p \in Procs, p = running, CheckNotQuiet(p) PROVE VerdictInv'
  <2>1. /\ running' = "clone" /\ job' = job /\ fds' = fds /\ blind' = blind
        /\ at'["tool"] \in {"named", "search"} /\ res'["clone"] = -1
        /\ slot'["tool"] = slot["tool"] /\ slot'["clone"] = slot["tool"]
        /\ file'["tool"] = file["tool"] /\ file'["clone"] = file["tool"]
    BY <1>5 DEF CheckNotQuiet, Checking
  <2>2. faults' = faults \cup {<<q, slot["tool"], file["tool"]>> : q \in Procs}
    BY <1>5 DEF CheckNotQuiet
  <2>3. InFaults("tool")' /\ InFaults("clone")'
    BY <2>1, <2>2
  <2> HIDE DEF InFaults, TypeOK
  <2> QED BY <2>1, <2>3 DEF VerdictInv
<1>6. ASSUME NEW p \in Procs, p = running, JudgeNamed(p) PROVE VerdictInv'
  <2>1. /\ job' = job /\ running' = running /\ fds' = fds /\ blind' = blind /\ res' = res
        /\ \A q \in Procs : q # p => at'[q] = at[q] /\ slot'[q] = slot[q] /\ file'[q] = file[q]
        /\ faults \subseteq faults' /\ at'[p] \notin {"judge", "judge_named"}
    BY <1>6 DEF JudgeNamed, NextSlot
  <2>2. running = "clone" => p # "tool"
    BY <1>6 DEF JudgeNamed
  <2>3. running' = "clone" => InFaults("tool")'
    BY <2>1, <2>2
  <2>4. ASSUME NEW q \in Procs, at'[q] \in {"judge", "judge_named"}
        PROVE  /\ at'[q] = at[q] /\ slot'[q] = slot[q] /\ file'[q] = file[q] /\ res'[q] = res[q]
               /\ InFaults(q) => InFaults(q)'
               /\ Trusted(q)' <=> Trusted(q)
    BY <2>1, <2>4
  <2>5. \A f, i, k : Good(f, i, k)' <=> Good(f, i, k)
    BY <2>1 DEF Good
  <2> HIDE DEF InFaults, Trusted, Good, TypeOK
  <2> QED BY <2>1, <2>3, <2>4, <2>5 DEF VerdictInv
<1>7. ASSUME NEW p \in Procs, p = running, Judge(p) PROVE VerdictInv'
  <2>1. /\ job' = job /\ running' = running /\ fds' = fds /\ blind' = blind /\ res' = res
        /\ \A q \in Procs : q # p => at'[q] = at[q] /\ slot'[q] = slot[q] /\ file'[q] = file[q]
        /\ faults \subseteq faults' /\ at'[p] \notin {"judge", "judge_named"}
    BY <1>7 DEF Judge, NextSlot
  <2>2. running = "clone" => p # "tool"
    BY <1>7 DEF Judge
  <2>3. running' = "clone" => InFaults("tool")'
    BY <2>1, <2>2
  <2>4. ASSUME NEW q \in Procs, at'[q] \in {"judge", "judge_named"}
        PROVE  /\ at'[q] = at[q] /\ slot'[q] = slot[q] /\ file'[q] = file[q] /\ res'[q] = res[q]
               /\ InFaults(q) => InFaults(q)'
               /\ Trusted(q)' <=> Trusted(q)
    BY <2>1, <2>4
  <2>5. \A f, i, k : Good(f, i, k)' <=> Good(f, i, k)
    BY <2>1 DEF Good
  <2> HIDE DEF InFaults, Trusted, Good, TypeOK
  <2> QED BY <2>1, <2>3, <2>4, <2>5 DEF VerdictInv
<1>8. ASSUME NEW p \in Procs, p = running, Start(p) PROVE VerdictInv'
  BY ZenonT(60), <1>8 DEF Start, CanPipe, Leak, NextSlot
<1>9. ASSUME NEW p \in Procs, p = running, StartUnseen(p) PROVE VerdictInv'
  BY <1>9 DEF StartUnseen, CanPipe, Blame
<1>10. ASSUME NEW p \in Procs, p = running, UnseenEnds(p) PROVE VerdictInv'
  BY ZenonT(60), <1>10 DEF UnseenEnds, NextSlot
<1>11. ASSUME NEW p \in Procs, p = running, StartFails(p) PROVE VerdictInv'
  BY ZenonT(60), <1>11 DEF StartFails, NextSlot, CanPipe, Leak, Blame
<1>12. ASSUME NEW p \in Procs, p = running, AllTried(p) PROVE VerdictInv'
  BY <1>12 DEF AllTried, Counted, Started
<1>13. ASSUME NEW p \in Procs, p = running, Wait(p) PROVE VerdictInv'
  BY <1>13 DEF Wait, Ended, Waiting, Started
<1>14. ASSUME NEW p \in Procs, p = running, WaitDone(p) PROVE VerdictInv'
  BY <1>14 DEF WaitDone, Waiting, Started
<1>15. ASSUME CloneExits PROVE VerdictInv'
  BY <1>15 DEF CloneExits
<1>16. ASSUME NEW p \in Procs, NEW i \in Slots, SessionEnds(p, i) PROVE VerdictInv'
  BY <1>16 DEF SessionEnds
<1>17. CASE UNCHANGED vars
  BY SMTT(60), <1>17 DEF vars
<1> QED BY ZenonT(60), <1>1, <1>2, <1>3, <1>4, <1>5, <1>6, <1>7, <1>8, <1>9, <1>10, <1>11, <1>12,
    <1>13, <1>14, <1>15, <1>16, <1>17, RunningFact DEF Next, Step

LEMMA StartStep ==
  TypeOK /\ WorkInv /\ CloneInv /\ CutInv /\ NamedInv /\ SearchInv /\ VerdictInv /\ StartInv
    /\ [Next]_vars => StartInv'
<1> SUFFICES ASSUME TypeOK, WorkInv, CloneInv, CutInv, NamedInv, SearchInv, VerdictInv, StartInv, [Next]_vars PROVE StartInv'
  OBVIOUS
<1> USE ImageAssumption DEF Job, Files, Procs, Set, Slots, Piped, TypeOK, Places,
    Trusted, InFaults, NamedPath, WorkInv, Working, CloneInv, CutInv, NamedInv,
    SearchInv, VerdictInv, StartInv, Chosen, Good
<1>1. ASSUME NEW p \in Procs, p = running, Look(p) PROVE StartInv'
  BY SMTT(60), <1>1 DEF Look, NextSlot, Blame, IsNamed
<1>2. ASSUME NEW p \in Procs, p = running, CheckEnds(p) PROVE StartInv'
  <2>1. /\ job' = job /\ slot' = slot /\ file' = file /\ faults \subseteq faults' /\ at'[p] # "start"
        /\ \A q \in Procs : q # p => at'[q] = at[q] /\ blind'[q] = blind[q]
    BY <1>2 DEF CheckEnds, Checking, Returns, Blame
  <2>2. ASSUME NEW q \in Procs, at'[q] = "start", Trusted(q)'
        PROVE  q # p /\ Chosen(q, slot[q], file[q])
    BY <2>1, <2>2 DEF StartInv
  <2>3. ASSUME NEW q \in Procs, at'[q] = "start", Trusted(q)'
        PROVE  Chosen(q, slot[q], file[q])'
    <3> HIDE DEF Chosen
    <3> QED BY <2>1, <2>2, <2>3, ChosenKept
  <2> HIDE DEF Chosen
  <2> QED BY <2>3 DEF StartInv
<1>3. ASSUME NEW p \in Procs, p = running, CheckNotStarted(p) PROVE StartInv'
  BY <1>3 DEF CheckNotStarted, Checking, CanPipe, Returns, Blame
<1>4. ASSUME NEW p \in Procs, p = running, CheckNotForked(p) PROVE StartInv'
  BY SMTT(60), <1>4 DEF CheckNotForked, Checking, Returns, Blame, Ended, Waiting, Started
<1>5. ASSUME NEW p \in Procs, p = running, CheckNotQuiet(p) PROVE StartInv'
  BY <1>5 DEF CheckNotQuiet, Checking
<1>6. ASSUME NEW p \in Procs, p = running, JudgeNamed(p) PROVE StartInv'
  BY SMTT(60), <1>6 DEF JudgeNamed, NextSlot
<1>7. ASSUME NEW p \in Procs, p = running, Judge(p) PROVE StartInv'
  BY SMTT(60), <1>7 DEF Judge, NextSlot
<1>8. ASSUME NEW p \in Procs, p = running, Start(p) PROVE StartInv'
  BY <1>8 DEF Start, CanPipe, Leak, NextSlot
<1>9. ASSUME NEW p \in Procs, p = running, StartUnseen(p) PROVE StartInv'
  BY <1>9 DEF StartUnseen, CanPipe, Blame
<1>10. ASSUME NEW p \in Procs, p = running, UnseenEnds(p) PROVE StartInv'
  BY <1>10 DEF UnseenEnds, NextSlot
<1>11. ASSUME NEW p \in Procs, p = running, StartFails(p) PROVE StartInv'
  BY <1>11 DEF StartFails, NextSlot, CanPipe, Leak, Blame
<1>12. ASSUME NEW p \in Procs, p = running, AllTried(p) PROVE StartInv'
  BY <1>12 DEF AllTried, Counted, Started
<1>13. ASSUME NEW p \in Procs, p = running, Wait(p) PROVE StartInv'
  BY SMTT(60), <1>13 DEF Wait, Ended, Waiting, Started
<1>14. ASSUME NEW p \in Procs, p = running, WaitDone(p) PROVE StartInv'
  BY SMTT(60), <1>14 DEF WaitDone, Waiting, Started
<1>15. ASSUME CloneExits PROVE StartInv'
  BY <1>15 DEF CloneExits
<1>16. ASSUME NEW p \in Procs, NEW i \in Slots, SessionEnds(p, i) PROVE StartInv'
  BY SMTT(60), <1>16 DEF SessionEnds
<1>17. CASE UNCHANGED vars
  BY SMTT(60), <1>17 DEF vars
<1> QED BY ZenonT(60), <1>1, <1>2, <1>3, <1>4, <1>5, <1>6, <1>7, <1>8, <1>9, <1>10, <1>11, <1>12,
    <1>13, <1>14, <1>15, <1>16, <1>17, RunningFact DEF Next, Step

LEMMA GrowsStep == TypeOK /\ WorkInv /\ TurnInv /\ [Next]_vars => Grows
<1> SUFFICES ASSUME TypeOK, WorkInv, TurnInv, [Next]_vars PROVE Grows
  OBVIOUS
<1> USE ImageAssumption DEF Procs, Set, Slots, Piped, TypeOK, Grows
<1>1. ASSUME NEW p \in Procs, p = running, Look(p) PROVE Grows
  BY <1>1 DEF Look, NextSlot, Blame, IsNamed
<1>2. ASSUME NEW p \in Procs, p = running, CheckEnds(p) PROVE Grows
  BY <1>2 DEF CheckEnds, Checking, CanPipe, Leak, Returns, Blame, IsGood
<1>3. ASSUME NEW p \in Procs, p = running, CheckNotStarted(p) PROVE Grows
  BY <1>3 DEF CheckNotStarted, Checking, CanPipe, Returns, Blame
<1>4. ASSUME NEW p \in Procs, p = running, CheckNotForked(p) PROVE Grows
  <2>1. CASE Waiting(p) = {} /\ UNCHANGED session
    <3> HIDE DEF Session
    <3> QED BY <1>4, <2>1 DEF CheckNotForked, Checking, Returns, Blame, Ended
  <2>2. ASSUME NEW i \in Ended(p),
               Returns(p, IF session[p][i].code = Killed THEN 1 ELSE session[p][i].code),
               session' = [session EXCEPT ![p][i].waited = "check"]
        PROVE  Grows
    <3>1. /\ i \in Slots /\ session[p][i].file # 0 /\ session[p][i].waited = "no"
          /\ session[p][i].code \in {Killed, 0, 1}
      BY EndedFacts
    <3>2. session \in [Procs -> [Slots -> Session]]
      OBVIOUS
    <3>3. /\ session' \in [Procs -> [Slots -> Session]]
          /\ session'[p][i].waited = "check"
          /\ \A q \in Procs, j \in Slots :
               /\ session'[q][j].file = session[q][j].file
               /\ session'[q][j].code = session[q][j].code
               /\ session'[q][j].blind = session[q][j].blind
               /\ q # p \/ j # i => session'[q][j] = session[q][j]
      BY ZenonT(60), <2>2, <3>1, <3>2, WaitedFacts
    <3> HIDE DEF Session
    <3> QED BY SMTT(60), <1>4, <2>2, <3>1, <3>3 DEF CheckNotForked, Checking, Returns, Blame
  <2> QED BY <1>4, <2>1, <2>2 DEF CheckNotForked
<1>5. ASSUME NEW p \in Procs, p = running, CheckNotQuiet(p) PROVE Grows
  BY <1>5 DEF CheckNotQuiet, Checking
<1>6. ASSUME NEW p \in Procs, p = running, JudgeNamed(p) PROVE Grows
  BY <1>6 DEF JudgeNamed, NextSlot
<1>7. ASSUME NEW p \in Procs, p = running, Judge(p) PROVE Grows
  BY <1>7 DEF Judge, NextSlot
<1>8. ASSUME NEW p \in Procs, p = running, Start(p) PROVE Grows
  <2>1. /\ session' \in [Procs -> [Slots -> Session]] /\ slot[p] \in Slots
        /\ session'[p][slot[p]].waited = "no" /\ session'[p][slot[p]].code = Running
        /\ session'[p][slot[p]].file = file[p] /\ session'[p][slot[p]].blind = blind[p]
        /\ \A q \in Procs, j \in Slots :
             q # p \/ j # slot[p] => session'[q][j] = session[q][j]
    BY <1>8, ForkedFacts DEF Start
  <2> HIDE DEF Session
  <2>2. file[p] # 0 /\ session[p][slot[p]].file = 0
    BY <2>1, <1>8 DEF Start, WorkInv, Working, TurnInv, Files
  <2>3. /\ at[p] = "start" /\ job' = job /\ faults \subseteq faults'
        /\ fds <= fds' /\ fds' \in Int
    BY <1>8 DEF Start, CanPipe, Leak, NextSlot, Blame
  <2> HIDE DEF TypeOK, Procs
  <2> QED BY <2>1, <2>2, <2>3
<1>9. ASSUME NEW p \in Procs, p = running, StartUnseen(p) PROVE Grows
  <2>1. /\ session' \in [Procs -> [Slots -> Session]] /\ slot[p] \in Slots
        /\ session'[p][slot[p]].waited = "popen2" /\ session'[p][slot[p]].code = Running
        /\ session'[p][slot[p]].file = file[p] /\ session'[p][slot[p]].blind = blind[p]
        /\ \A q \in Procs, j \in Slots :
             q # p \/ j # slot[p] => session'[q][j] = session[q][j]
    BY <1>9, ForkedFacts DEF StartUnseen
  <2> HIDE DEF Session
  <2>2. file[p] # 0 /\ session[p][slot[p]].file = 0
    BY <2>1, <1>9 DEF StartUnseen, WorkInv, Working, TurnInv, Files
  <2>3. /\ at[p] = "start" /\ job' = job /\ faults \subseteq faults'
        /\ fds <= fds' /\ fds' \in Int
    BY <1>9 DEF StartUnseen, CanPipe, Leak, NextSlot, Blame
  <2> HIDE DEF TypeOK, Procs
  <2> QED BY <2>1, <2>2, <2>3
<1>10. ASSUME NEW p \in Procs, p = running, UnseenEnds(p) PROVE Grows
  BY <1>10 DEF UnseenEnds, NextSlot
<1>11. ASSUME NEW p \in Procs, p = running, StartFails(p) PROVE Grows
  BY <1>11 DEF StartFails, NextSlot, CanPipe, Leak, Blame
<1>12. ASSUME NEW p \in Procs, p = running, AllTried(p) PROVE Grows
  BY <1>12 DEF AllTried, Counted, Started
<1>13. ASSUME NEW p \in Procs, p = running, Wait(p) PROVE Grows
  <2>1. PICK i \in Ended(p) :
          /\ session' = [session EXCEPT ![p][i].waited = "tool"]
          /\ ret' = IF ret[p] = 0 /\ session[p][i].code # Killed
                    THEN Set(ret, p, session[p][i].code) ELSE ret
    BY <1>13 DEF Wait
  <2>2. /\ i \in Slots /\ session[p][i].file # 0 /\ session[p][i].waited = "no"
        /\ session[p][i].code \in {Killed, 0, 1}
    BY EndedFacts
  <2>3. session \in [Procs -> [Slots -> Session]]
    OBVIOUS
  <2>4. /\ session' \in [Procs -> [Slots -> Session]]
        /\ session'[p][i].waited = "tool"
        /\ \A q \in Procs, j \in Slots :
             /\ session'[q][j].file = session[q][j].file
             /\ session'[q][j].code = session[q][j].code
             /\ session'[q][j].blind = session[q][j].blind
             /\ q # p \/ j # i => session'[q][j] = session[q][j]
    BY ZenonT(60), <2>1, <2>2, <2>3, WaitedFacts
  <2> HIDE DEF Session
  <2> QED BY <1>13, <2>1, <2>2, <2>4 DEF Wait
<1>14. ASSUME NEW p \in Procs, p = running, WaitDone(p) PROVE Grows
  BY <1>14 DEF WaitDone, Waiting, Started
<1>15. ASSUME CloneExits PROVE Grows
  BY <1>15 DEF CloneExits
<1>16. ASSUME NEW p \in Procs, NEW i \in Slots, SessionEnds(p, i) PROVE Grows
  <2>1. /\ session' \in [Procs -> [Slots -> Session]]
        /\ session'[p][i].code \in {0, 1, Killed}
        /\ \A q \in Procs, j \in Slots :
             /\ session'[q][j].file = session[q][j].file
             /\ session'[q][j].waited = session[q][j].waited
             /\ session'[q][j].blind = session[q][j].blind
             /\ q # p \/ j # i => session'[q][j] = session[q][j]
    <3> HIDE DEF TypeOK, Session, Procs, Killed
    <3> QED BY <1>16, EndsFacts
  <2> HIDE DEF Session
  <2> QED BY <1>16, <2>1 DEF SessionEnds
<1>17. CASE UNCHANGED vars
  BY <1>17 DEF vars
<1> QED BY <1>1, <1>2, <1>3, <1>4, <1>5, <1>6, <1>7, <1>8, <1>9, <1>10, <1>11, <1>12,
    <1>13, <1>14, <1>15, <1>16, <1>17, RunningFact DEF Next, Step

LEMMA SessionsStep ==
  TypeOK /\ WorkInv /\ TurnInv /\ StartInv /\ SessionsInv /\ [Next]_vars => SessionsInv'
<1> SUFFICES ASSUME TypeOK, WorkInv, TurnInv, StartInv, SessionsInv, [Next]_vars,
                    NEW q \in Procs, NEW j \in Slots, NEW f \in Files, session'[q][j].file = f,
                    Piped' \/ ~session'[q][j].blind
             PROVE  Chosen(q, j, f)'
  BY DEF SessionsInv
<1>1. job' = job /\ faults \subseteq faults'
  BY GrowsStep DEF Grows
<1>2. Piped' <=> Piped
  BY <1>1 DEF Piped
<1>3. Chosen(q, j, f)
  <2>1. CASE session'[q][j].file = session[q][j].file /\ session'[q][j].blind = session[q][j].blind
    BY <1>2, <2>1 DEF SessionsInv
  <2>2. CASE /\ at[q] = "start" /\ j = slot[q]
             /\ session'[q][j].file = file[q] /\ session'[q][j].blind = blind[q]
    BY <1>2, <2>2 DEF StartInv, Trusted
  <2> QED BY <2>1, <2>2, GrowsStep DEF Grows
<1> QED BY <1>1, <1>3, ChosenKept

(* The argument stays cut.                                                   *)
LEMMA CutGrows == TypeOK /\ CutInv /\ [Next]_vars /\ cut["tool"] => cut'["tool"]
<1> SUFFICES ASSUME TypeOK, CutInv, [Next]_vars, cut["tool"] PROVE cut'["tool"]
  OBVIOUS
<1>1. job.tool = "mpssflash" /\ job.path = "file" /\ cut \in [Procs -> BOOLEAN]
  BY DEF CutInv, Procs, TypeOK
<1>2. ASSUME NEW p \in Procs, JudgeNamed(p) PROVE cut'["tool"]
  BY <1>1, <1>2 DEF JudgeNamed, Set, Piped, Procs
<1>3. ASSUME NEW p \in Procs, CheckNotQuiet(p) PROVE cut'["tool"]
  BY <1>1, <1>3 DEF CheckNotQuiet, Set, Procs
<1>4. CASE cut' = cut
  BY <1>4
<1>5. \/ cut' = cut
      \/ \E p \in Procs : JudgeNamed(p) \/ CheckNotQuiet(p)
  BY RunningFact DEF Next, Step, vars, Look, CheckEnds, CheckNotStarted, CheckNotForked,
    CloneExits, Judge, Start, StartUnseen, UnseenEnds, StartFails, AllTried, Wait, WaitDone,
    SessionEnds
<1> QED BY <1>2, <1>3, <1>4, <1>5

LEMMA CostFacts ==
  ASSUME TypeOK
  PROVE  /\ Checks \in Nat /\ Checks >= 1 /\ Cost \in Nat /\ Cost = 2 * Checks + 2
         /\ Base \in Int /\ Base + Cost = slot["tool"] * Cost
         /\ slot["tool"] \in Int /\ job.spare \in Nat /\ job.spare >= 1 /\ fds \in Nat
<1>1. Checks \in Nat /\ Checks >= 1
  BY ImageAssumption DEF Checks
<1>2. Cost \in Nat /\ Cost = 2 * Checks + 2
  BY <1>1 DEF Cost
<1>3. slot["tool"] \in Int
  BY DEF TypeOK, Procs
<1>4. Base \in Int /\ Base + Cost = slot["tool"] * Cost
  <2>1. \A s, c \in Int : (s - 1) * c \in Int /\ (s - 1) * c + c = s * c
    OBVIOUS
  <2> QED BY <1>2, <1>3, <2>1 DEF Base
<1>5. job.spare \in Nat /\ job.spare >= 1
  BY ImageAssumption DEF TypeOK, Job
<1>6. fds \in Nat
  BY <1>5 DEF TypeOK
<1> QED BY <1>1, <1>2, <1>3, <1>4, <1>5, <1>6

(* The turn of a card costs micflash at most two descriptors for each check  *)
(* and for its session.                                                      *)
LEMMA FdsStep ==
  TypeOK /\ WorkInv /\ CloneInv /\ TurnInv /\ CutInv /\ NamedInv /\ SearchInv /\ VerdictInv
    /\ FdsInv /\ [Next]_vars => FdsInv'
<1> SUFFICES ASSUME TypeOK, WorkInv, CloneInv, TurnInv, CutInv, NamedInv, SearchInv,
                    VerdictInv, FdsInv, [Next]_vars
             PROVE  FdsInv'
  OBVIOUS
<1>a. job' = job /\ Piped' = Piped /\ Checks' = Checks /\ Cost' = Cost
  BY GrowsStep DEF Grows, Piped, Checks, Cost, NamedPath
<1>b. slot'["tool"] = slot["tool"] => Base' = Base
  BY <1>a DEF Base
<1>c. slot'["tool"] = slot["tool"] + 1 => Base' = Base + Cost
  <2>1. \A s, c \in Int : ((s + 1) - 1) * c = (s - 1) * c + c
    OBVIOUS
  <2> QED BY <1>a, <2>1, CostFacts DEF Base
<1>d. CASE ~Piped
  <2>1. fds' = fds
    BY <1>d, RunningFact DEF Next, Step, vars, Look, CheckEnds, CheckNotStarted, CheckNotForked,
      CheckNotQuiet, JudgeNamed, CloneExits, Judge, Start, StartUnseen, UnseenEnds, StartFails,
      AllTried, Wait, WaitDone, SessionEnds, Leak
  <2> QED BY <1>a, <1>d, <2>1 DEF FdsInv
<1>e. CASE Piped
  <2>a. running = "tool" /\ fds <= Base + Own /\ job.tool # "mpssflash"
    BY <1>e, RunningFact DEF CloneInv, FdsInv, Piped, Procs
  <2>b. at["tool"] \in {"search", "judge"} => file["tool"] \in Int /\ file["tool"] >= 1
    BY ImageAssumption DEF WorkInv, Working, Files, Procs
  <2>c. SUFFICES fds' <= Base' + Own'
    BY <1>a, <1>e DEF FdsInv
  <2> USE <1>a, <1>b, <1>c, <1>e, <2>a, <2>b, CostFacts
  <2>d. /\ at \in [Procs -> Places \cup {"none"}] /\ slot \in [Procs -> 1..(N + 1)]
        /\ file \in [Procs -> Files \cup {0}] /\ "tool" \in Procs
    BY DEF TypeOK, Procs
  <2>1. ASSUME Look("tool") PROVE fds' <= Base' + Own'
    <3>1. at["tool"] = "slot" /\ fds' = fds /\ fds <= Base
      BY <2>1 DEF Look, Own
    <3>2. CASE NextSlot("tool")
      BY <2>d, <3>1, <3>2 DEF NextSlot, Set, Own
    <3>3. CASE at' = Set(at, "tool", "named") /\ slot' = slot
      BY <2>d, <3>1, <3>3 DEF Set, Own
    <3>4. CASE ~IsNamed("tool") /\ slot' = slot /\ at' = Set(at, "tool", "search")
               /\ file' = Set(file, "tool", NFiles)
      <4>1. Checks = NFiles
        BY <3>4 DEF IsNamed, CutInv, Checks, NamedPath, Procs
      <4>2. file'["tool"] = NFiles /\ at'["tool"] = "search" /\ NFiles \in Int
        BY <2>d, <3>4, ImageAssumption DEF Set
      <4> QED BY <3>1, <3>4, <4>1, <4>2 DEF Own
    <3> QED BY <2>1, <3>2, <3>3, <3>4 DEF Look
  <2>2. ASSUME CheckEnds("tool") PROVE fds' <= Base' + Own'
    BY <2>2, <2>d DEF CheckEnds, Checking, Returns, Set, Own, Leak
  <2>3. ASSUME CheckNotStarted("tool") PROVE fds' <= Base' + Own'
    BY <2>3, <2>d DEF CheckNotStarted, Checking, Returns, Set, Own
  <2>4. ASSUME JudgeNamed("tool") PROVE fds' <= Base' + Own'
    BY <2>4, <2>d DEF JudgeNamed, NextSlot, Set, Own
  <2>5. ASSUME Judge("tool") PROVE fds' <= Base' + Own'
    BY <2>5, <2>d DEF Judge, NextSlot, Set, Own
  <2>6. ASSUME Start("tool") PROVE fds' <= Base' + Own'
    BY <2>6, <2>d DEF Start, Leak, NextSlot, Set, Own
  <2>7. ASSUME StartUnseen("tool") PROVE fds' <= Base' + Own'
    BY <2>7, <2>d DEF StartUnseen, Set, Own
  <2>8. ASSUME UnseenEnds("tool") PROVE fds' <= Base' + Own'
    BY <2>8, <2>d DEF UnseenEnds, NextSlot, Set, Own
  <2>9. ASSUME StartFails("tool") PROVE fds' <= Base' + Own'
    BY <2>9, <2>d DEF StartFails, Leak, NextSlot, Set, Own
  <2>10. ASSUME AllTried("tool") PROVE fds' <= Base' + Own'
    BY <2>10, <2>d DEF AllTried, Set, Own
  <2>11. ASSUME WaitDone("tool") PROVE fds' <= Base' + Own'
    BY <2>11, <2>d DEF WaitDone, Set, Own
  <2>12. CASE UNCHANGED <<at, slot, file, fds>>
    BY <2>12 DEF Own
  <2>13. ~CheckNotForked("tool") /\ ~CheckNotQuiet("tool") /\ ~CloneExits
    BY DEF CheckNotForked, CheckNotQuiet, CloneExits
  <2> QED BY <2>1, <2>2, <2>3, <2>4, <2>5, <2>6, <2>7, <2>8, <2>9, <2>10, <2>11, <2>12, <2>13
          DEF Next, Step, Wait, SessionEnds, vars
<1> QED BY <1>d, <1>e

(* Whoever lacks descriptors in a turn did not have enough for the cards up  *)
(* to this one.                                                              *)
LEMMA SpentFacts ==
  ASSUME TypeOK, WorkInv, NamedInv, SearchInv, CutInv, FdsInv, Spent,
         at["tool"] \in {"slot", "named", "search", "judge_named", "judge", "start"}
  PROVE  ~Enough(slot["tool"])
<1>1. fds <= Base + Own /\ fds + 4 > job.spare /\ Piped
  BY DEF FdsInv, Spent
<1>2. at["tool"] \in {"search", "judge"} => file["tool"] \in 1..NFiles
  BY DEF WorkInv, Working, Files, Procs
<1>3. Own <= 2 * Checks /\ Own \in Int
  <2>1. CASE at["tool"] = "search"
    <3>1. ~NamedPath
      BY <1>1, <2>1 DEF SearchInv, CutInv, Piped, Procs
    <3> QED BY <1>2, <2>1, <3>1, CostFacts, ImageAssumption DEF Own
  <2>2. CASE at["tool"] = "judge"
    BY <1>2, <2>2, CostFacts, ImageAssumption DEF Own
  <2>3. CASE at["tool"] \in {"slot", "named", "judge_named", "start"}
    BY <2>3, CostFacts DEF Own
  <2> QED BY <2>1, <2>2, <2>3
<1>4. slot["tool"] * Cost + 2 > job.spare
  BY <1>1, <1>3, CostFacts
<1> QED BY <1>1, <1>4, CostFacts DEF Enough

LEMMA AccountedGrows ==
  TypeOK /\ WorkInv /\ TurnInv /\ CutInv /\ [Next]_vars => Accounted \subseteq Accounted'
<1> SUFFICES ASSUME TypeOK, WorkInv, TurnInv, CutInv, [Next]_vars, NEW i \in Accounted
             PROVE  i \in Accounted'
  OBVIOUS
<1>1. job' = job /\ faults \subseteq faults' /\ i \in Slots
  BY GrowsStep DEF Grows, Accounted
<1>2. session["tool"][i].file # 0 => session'["tool"][i].file # 0
  BY <1>1, GrowsStep DEF Grows, Procs
<1>3. HasImage(i)' = HasImage(i) /\ Enough(i)' = Enough(i)
  BY <1>1 DEF HasImage, Enough, Cost, Checks, NamedPath, Good, Piped
<1>4. Misled(i) => Misled(i)'
  BY <1>1, CutGrows DEF Misled, Good
<1> QED BY <1>1, <1>2, <1>3, <1>4 DEF Accounted

(* What a step leaves of LeftInv that does not end the turn of a slot of the *)
(* tool, and what one that does has to show.                                 *)
LEMMA TurnGoesOn ==
  ASSUME TypeOK, WorkInv, TurnInv, CutInv, LeftInv, [Next]_vars,
         slot'["tool"] = slot["tool"],
         at'["tool"] # at["tool"] => at'["tool"] \notin {"popen2", "watch", "wait", "exit"}
  PROVE  LeftInv'
<1>1. Accounted \subseteq Accounted'
  BY AccountedGrows
<1>2. /\ job' = job /\ slot["tool"] \in Int
      /\ \A j \in Slots : session["tool"][j].file # 0 => session'["tool"][j].file # 0
  BY GrowsStep DEF Grows, Procs, TypeOK
<1>3. at["tool"] = "popen2" => slot["tool"] \in Slots
  BY ImageAssumption DEF WorkInv, Working, Procs, TypeOK, Job
<1> QED BY <1>1, <1>2, <1>3 DEF LeftInv

LEMMA TurnEnds ==
  ASSUME TypeOK, WorkInv, TurnInv, CutInv, LeftInv, [Next]_vars,
         NEW p \in Procs, at[p] \in Working \cup {"slot"}, slot[p] \in Slots, NextSlot(p),
         p = "tool" => slot[p] \in Accounted'
  PROVE  LeftInv'
<1>1. at' = [at EXCEPT ![p] = "slot"] /\ slot' = [slot EXCEPT ![p] = slot[p] + 1]
  BY DEF NextSlot, Set
<1>2. CASE p = "tool"
  <2>1. Accounted \subseteq Accounted'
    BY AccountedGrows
  <2>2. at'["tool"] = "slot" /\ slot'["tool"] = slot["tool"] + 1 /\ slot["tool"] \in Int
    BY <1>1, <1>2 DEF TypeOK, Procs
  <2>3. job' = job
    BY GrowsStep DEF Grows
  <2>4. ASSUME NEW i \in Slots, i < slot'["tool"] PROVE i \in Accounted'
    <3>1. i < slot["tool"] \/ i = slot["tool"]
      BY <2>2, <2>4, ImageAssumption DEF Slots
    <3> QED BY <1>2, <2>1, <2>4, <3>1 DEF LeftInv
  <2> QED BY <2>2, <2>3, <2>4 DEF LeftInv
<1>3. CASE p # "tool"
  <2>1. slot'["tool"] = slot["tool"] /\ at'["tool"] = at["tool"]
    BY <1>1, <1>3 DEF TypeOK, Procs
  <2> QED BY <2>1, TurnGoesOn
<1> QED BY <1>2, <1>3

(* A turn that something ended, or the want of descriptors.                  *)
LEMMA Excused ==
  ASSUME TypeOK, WorkInv, TurnInv, CutInv, NamedInv, SearchInv, FdsInv, [Next]_vars,
         slot["tool"] \in Slots,
         \/ \E f \in Files \cup {0} : <<"tool", slot["tool"], f>> \in faults'
         \/ /\ Spent
            /\ at["tool"] \in {"slot", "named", "search", "judge_named", "judge", "start"}
  PROVE  slot["tool"] \in Accounted'
<1>1. CASE \E f \in Files \cup {0} : <<"tool", slot["tool"], f>> \in faults'
  BY <1>1 DEF Accounted
<1>2. CASE /\ Spent
           /\ at["tool"] \in {"slot", "named", "search", "judge_named", "judge", "start"}
  <2>1. slot["tool"] \in Accounted
    BY <1>2, SpentFacts DEF Accounted
  <2> QED BY <2>1, AccountedGrows
<1> QED BY <1>1, <1>2

LEMMA LeftStep ==
  TypeOK /\ WorkInv /\ CloneInv /\ TurnInv /\ CutInv /\ NamedInv /\ SearchInv /\ VerdictInv
    /\ FdsInv /\ LeftInv /\ [Next]_vars => LeftInv'
<1> SUFFICES ASSUME TypeOK, WorkInv, CloneInv, TurnInv, CutInv, NamedInv, SearchInv,
                    VerdictInv, FdsInv, LeftInv, [Next]_vars
             PROVE  LeftInv'
  OBVIOUS
<1>a. \A q \in Procs : at[q] \in Working => slot[q] \in Slots /\ slot[q] \in Slots
  BY ImageAssumption DEF WorkInv, Working, Slots, TypeOK, Job
<1>b. Slots \subseteq Slots
  BY ImageAssumption DEF Slots, TypeOK, Job
<1>c. \A q \in Procs : at[q] \in Working => file[q] \in Files
  BY DEF WorkInv
<1> USE DEF Procs
<1>1. ASSUME NEW p \in Procs, p = running, Look(p) PROVE LeftInv'
  <2>1. CASE NextSlot(p)
    <3>1. at[p] \in Working \cup {"slot"} /\ slot[p] \in Slots
      BY <1>1 DEF Look
    <3>2. CASE Blame(p, 0)
      <4>1. <<p, slot[p], 0>> \in faults' /\ 0 \in Files \cup {0}
        BY <3>2 DEF Blame
      <4> QED BY <1>b, <2>1, <3>1, <4>1, TurnEnds, Excused
    <3>3. CASE fds = job.spare
      <4>1. Spent
        BY <3>3, CostFacts DEF FdsInv, Spent
      <4>2. at[p] = "slot"
        BY <1>1 DEF Look
      <4> QED BY <1>b, <2>1, <3>1, <4>1, <4>2, TurnEnds, Excused
    <3>4. Blame(p, 0) \/ fds = job.spare
      <4>1. at'[p] = "slot"
        BY <2>1 DEF NextSlot, Set, TypeOK
      <4> QED BY <1>1, <4>1 DEF Look, Set, TypeOK
    <3> QED BY <3>2, <3>3, <3>4
  <2>2. CASE ~NextSlot(p)
    <3>1. slot' = slot /\ (at' = [at EXCEPT ![p] = "named"] \/ at' = [at EXCEPT ![p] = "search"])
      BY <1>1, <2>2 DEF Look, Set
    <3> QED BY <3>1, TurnGoesOn DEF TypeOK
  <2> QED BY <2>1, <2>2
<1>2. ASSUME NEW p \in Procs, p = running, CheckEnds(p) PROVE LeftInv'
  BY <1>2, TurnGoesOn DEF CheckEnds, Returns, Set, TypeOK
<1>3. ASSUME NEW p \in Procs, p = running, CheckNotStarted(p) PROVE LeftInv'
  BY <1>3, TurnGoesOn DEF CheckNotStarted, Returns, Set, TypeOK
<1>4. ASSUME NEW p \in Procs, p = running, CheckNotForked(p) PROVE LeftInv'
  BY <1>4, TurnGoesOn DEF CheckNotForked, Returns, Set, TypeOK
<1>5. ASSUME NEW p \in Procs, p = running, CheckNotQuiet(p) PROVE LeftInv'
  BY <1>5, TurnGoesOn DEF CheckNotQuiet, Set, TypeOK
<1>6. ASSUME NEW p \in Procs, p = running, JudgeNamed(p) PROVE LeftInv'
  <2>1. CASE res[p] = 0
    BY <1>6, <2>1, TurnGoesOn DEF JudgeNamed, Set, TypeOK
  <2>2. CASE res[p] # 0
    <3>1. at[p] = "judge_named" /\ NextSlot(p) /\ faults' = faults /\ fds' = fds /\ job' = job
      BY <1>6, <2>2 DEF JudgeNamed
    <3>2. at[p] \in Working /\ slot[p] \in Slots /\ slot[p] \in Slots /\ file[p] \in Files
      BY <1>a, <1>c, <3>1 DEF Working
    <3>3. ASSUME p = "tool" PROVE slot[p] \in Accounted'
      <4>1. CASE InFaults(p)
        BY <3>1, <3>2, <3>3, <4>1, Excused DEF InFaults
      <4>2. CASE Spent
        BY <3>1, <3>2, <3>3, <4>2, Excused
      <4>3. CASE ~InFaults(p) /\ ~Spent
        <5>1. res[p] > 0
          BY <2>2, <3>1, <4>3 DEF VerdictInv, TypeOK
        <5>2. ~Good(file[p], slot[p], TRUE) /\ NamedPath /\ file[p] = job.named
          BY <3>1, <4>3, <5>1 DEF VerdictInv, NamedInv
        <5>3. ~HasImage(slot[p])
          BY <5>2 DEF HasImage
        <5>4. slot[p] \in Accounted
          BY <3>2, <3>3, <5>3 DEF Accounted
        <5> QED BY <5>4, AccountedGrows
      <4> QED BY <4>1, <4>2, <4>3
    <3> QED BY <3>1, <3>2, <3>3, TurnEnds
  <2> QED BY <2>1, <2>2
<1>7. ASSUME NEW p \in Procs, p = running, Judge(p) PROVE LeftInv'
  <2>1. CASE slot' = slot
    <3>1. at' = [at EXCEPT ![p] = "start"] \/ at' = [at EXCEPT ![p] = "search"]
      BY <1>7, <2>1 DEF Judge, NextSlot, Set, TypeOK
    <3> QED BY <2>1, <3>1, TurnGoesOn DEF TypeOK
  <2>2. CASE slot' # slot
    <3>1. at[p] = "judge" /\ NextSlot(p) /\ faults' = faults /\ (res[p] < 0 \/ (res[p] > 0 /\ file[p] = 1))
      BY <1>7, <2>2 DEF Judge
    <3>2. at[p] \in Working /\ slot[p] \in Slots /\ slot[p] \in Slots /\ file[p] \in Files
      BY <1>a, <1>c, <3>1 DEF Working
    <3>3. ASSUME p = "tool" PROVE slot[p] \in Accounted'
      <4>1. CASE \E f \in Files : <<p, slot[p], f>> \in faults
        BY <3>1, <3>2, <3>3, <4>1, Excused
      <4>2. CASE Spent
        BY <3>1, <3>2, <3>3, <4>2, Excused
      <4>3. CASE ~(\E f \in Files : <<p, slot[p], f>> \in faults) /\ ~Spent
        <5>1. ~InFaults(p)
          BY <3>2, <4>3 DEF InFaults
        <5>2. res[p] > 0 /\ file[p] = 1
          BY <3>1, <4>3, <5>1 DEF VerdictInv
        <5>3. ~Good(file[p], slot[p], FALSE)
          BY <3>1, <5>1, <5>2 DEF VerdictInv
        <5>4. res[p] >= 0 /\ \A g \in Files : g = file[p] \/ g > file[p]
          BY <5>2, ImageAssumption DEF Files, TypeOK
        <5>5. /\ NamedPath => cut[p]
              /\ \A g \in Files : ~Good(g, slot[p], FALSE)
          BY <3>1, <4>3, <5>3, <5>4 DEF SearchInv
        <5>6. ~HasImage(slot[p]) \/ Misled(slot[p])
          <6>1. CASE NamedPath
            BY <3>1, <3>3, <5>5, <6>1 DEF Misled, CutInv
          <6>2. CASE ~NamedPath
            BY <5>5, <6>2 DEF HasImage
          <6> QED BY <6>1, <6>2
        <5>7. slot[p] \in Accounted
          BY <3>2, <3>3, <5>6 DEF Accounted
        <5> QED BY <5>7, AccountedGrows
      <4> QED BY <4>1, <4>2, <4>3
    <3> QED BY <3>1, <3>2, <3>3, TurnEnds
  <2> QED BY <2>1, <2>2
<1>8. ASSUME NEW p \in Procs, p = running, Start(p) PROVE LeftInv'
  <2>1. at[p] = "start" /\ NextSlot(p) /\ at[p] \in Working /\ slot[p] \in Slots /\ slot[p] \in Slots
    BY <1>a, <1>8 DEF Start, Working
  <2>2. session'[p][slot[p]].file # 0
    BY <1>8, <1>c, <2>1, ForkedFacts DEF Start, Files
  <2>3. p = "tool" => slot[p] \in Accounted'
    BY <2>1, <2>2 DEF Accounted
  <2> QED BY <2>1, <2>3, TurnEnds
<1>9. ASSUME NEW p \in Procs, p = running, StartUnseen(p) PROVE LeftInv'
  <2>1. at[p] = "start" /\ at' = [at EXCEPT ![p] = "popen2"] /\ slot' = slot /\ at[p] \in Working
    BY <1>9 DEF StartUnseen, Working, Set
  <2>2. session'[p][slot[p]].file # 0
    BY <1>9, <1>c, <2>1, ForkedFacts DEF StartUnseen, Files
  <2>3. CASE p = "tool"
    <3>1. at'["tool"] = "popen2" /\ job' = job
      BY <2>1, <2>3, GrowsStep DEF TypeOK, Grows
    <3>2. Accounted \subseteq Accounted'
      BY AccountedGrows
    <3> QED BY <2>1, <2>2, <2>3, <3>1, <3>2 DEF LeftInv
  <2>4. CASE p # "tool"
    BY <2>1, <2>4, TurnGoesOn DEF TypeOK
  <2> QED BY <2>3, <2>4
<1>10. ASSUME NEW p \in Procs, p = running, UnseenEnds(p) PROVE LeftInv'
  <2>1. at[p] = "popen2" /\ NextSlot(p) /\ at[p] \in Working /\ slot[p] \in Slots /\ slot[p] \in Slots
    BY <1>a, <1>10 DEF UnseenEnds, Working
  <2>2. p = "tool" => slot[p] \in Accounted
    BY <2>1 DEF LeftInv, Accounted
  <2> QED BY <2>1, <2>2, TurnEnds, AccountedGrows
<1>11. ASSUME NEW p \in Procs, p = running, StartFails(p) PROVE LeftInv'
  <2>1. at[p] = "start" /\ NextSlot(p) /\ at[p] \in Working /\ slot[p] \in Slots /\ slot[p] \in Slots
    BY <1>a, <1>11 DEF StartFails, Working
  <2>2. CASE Blame(p, 0)
    <3>1. <<p, slot[p], 0>> \in faults' /\ 0 \in Files \cup {0}
      BY <2>2 DEF Blame
    <3> QED BY <2>1, <3>1, TurnEnds, Excused
  <2>3. CASE ~CanPipe
    <3>1. Spent
      BY <2>3, CostFacts DEF CanPipe, Spent
    <3> QED BY <2>1, <3>1, TurnEnds, Excused
  <2> QED BY <1>11, <2>2, <2>3 DEF StartFails
<1>12. ASSUME NEW p \in Procs, p = running, AllTried(p) PROVE LeftInv'
  <2>1. slot[p] \notin Slots /\ slot' = slot /\ slot[p] \in 1..(N + 1)
        /\ at' = [at EXCEPT ![p] = at'[p]]
    BY <1>12, ImageAssumption DEF AllTried, Set, TypeOK, Job
  <2>2. slot[p] > N
    BY <2>1, ImageAssumption DEF Slots
  <2>3. CASE p = "tool"
    <3>1. at'["tool"] # "popen2" /\ job' = job
      BY <1>12, <2>3, GrowsStep DEF AllTried, Set, TypeOK, Grows
    <3>2. Accounted \subseteq Accounted'
      BY AccountedGrows
    <3> QED BY <2>1, <2>2, <2>3, <3>1, <3>2 DEF LeftInv
  <2>4. CASE p # "tool"
    BY <2>1, <2>4, TurnGoesOn DEF TypeOK
  <2> QED BY <2>3, <2>4
<1>13. ASSUME NEW p \in Procs, p = running, Wait(p) PROVE LeftInv'
  BY <1>13, TurnGoesOn DEF Wait
<1>14. ASSUME NEW p \in Procs, p = running, WaitDone(p) PROVE LeftInv'
  <2>1. CASE p = "tool"
    <3>1. at["tool"] = "wait" /\ at'["tool"] = "exit" /\ slot' = slot /\ job' = job
      BY <1>14, <2>1 DEF WaitDone, Set, TypeOK
    <3>2. Accounted \subseteq Accounted'
      BY AccountedGrows
    <3> QED BY <3>1, <3>2 DEF LeftInv
  <2>2. CASE p # "tool"
    BY <1>14, <2>2, TurnGoesOn DEF WaitDone, Set, TypeOK
  <2> QED BY <2>1, <2>2
<1>15. ASSUME CloneExits PROVE LeftInv'
  BY <1>15, TurnGoesOn DEF CloneExits, Set, TypeOK
<1>16. ASSUME NEW p \in Procs, NEW i \in Slots, SessionEnds(p, i) PROVE LeftInv'
  BY <1>16, TurnGoesOn DEF SessionEnds
<1>17. CASE UNCHANGED vars
  BY <1>17, TurnGoesOn DEF vars
<1> QED BY <1>1, <1>2, <1>3, <1>4, <1>5, <1>6, <1>7, <1>8, <1>9, <1>10, <1>11, <1>12,
           <1>13, <1>14, <1>15, <1>16, <1>17, RunningFact DEF Next, Step

-------------------------------------------------------------------------------
LEMMA InitInv == Init => IInv
<1> SUFFICES ASSUME Init PROVE IInv
  OBVIOUS
<1>1. /\ job \in Jobs /\ running = "tool" /\ at["tool"] = "slot" /\ at["clone"] = "none"
      /\ \A p \in Procs : slot[p] = 1 /\ ~cut[p] /\ ret[p] = 0
      /\ \A p \in Procs, i \in Slots : session[p][i] = NoSession
  BY DEF Init, Procs
<1>2. NoSession.file = 0 /\ NoSession.waited = "no" /\ NoSession \in Session
  BY DEF NoSession, Session
<1>3. \A p \in Procs : at[p] \in {"slot", "none"}
  BY <1>1 DEF Procs
<1>4. 1 \in 1..(N + 1) /\ N \in Nat
  BY ImageAssumption
<1>5. TypeOK
  <2>1. session \in [Procs -> [Slots -> Session]]
    BY <1>2 DEF Init
  <2>2. at \in [Procs -> Places \cup {"none"}]
    BY DEF Init, Places
  <2>3. slot \in [Procs -> 1..(N + 1)] /\ fds \in 0..job.spare
    <3>1. job.spare \in Nat
      BY <1>1, ImageAssumption DEF Job
    <3> QED BY <1>4, <3>1 DEF Init
  <2> HIDE DEF Session
  <2> QED BY <2>1, <2>2, <2>3 DEF Init, TypeOK, Procs
<1>6. WorkInv /\ CloneInv /\ CodeInv
  BY <1>1, <1>3 DEF WorkInv, CloneInv, CodeInv, Working, Procs
<1>7. TurnInv /\ AheadInv /\ EndedInv
  BY <1>1, <1>2, <1>3 DEF TurnInv, AheadInv, EndedInv, Procs
<1>8. CutInv /\ NamedInv /\ SearchInv /\ VerdictInv /\ StartInv
  BY <1>1, <1>3 DEF CutInv, NamedInv, SearchInv, VerdictInv, StartInv
<1>9. SessionsInv
  BY <1>1, <1>2 DEF SessionsInv, Files
<1>10. LeftInv
  BY <1>1, ImageAssumption DEF LeftInv, Procs, Slots
<1>11. FdsInv
  <2>1. fds = 0 /\ Own = 0 /\ slot["tool"] = 1
    BY <1>1 DEF Init, Own, Procs
  <2>2. Base = 0
    BY <1>5, <2>1, CostFacts DEF Base
  <2> QED BY <2>1, <2>2 DEF FdsInv
<1> QED BY <1>5, <1>6, <1>7, <1>8, <1>9, <1>10, <1>11 DEF IInv

LEMMA StepInv == IInv /\ [Next]_vars => IInv'
BY TypeStep, WorkStep, CloneStep, CodeStep, TurnStep, AheadStep, EndedStep, CutStep,
   NamedStep, SearchStep, VerdictStep, StartStep, SessionsStep, FdsStep, LeftStep DEF IInv

LEMMA Inductive == Spec => []IInv
  BY InitInv, StepInv, PTL DEF Spec

(* Every variable keeps its type: the slots, the files and the descriptors   *)
(* stay within what the command line and the process have.                   *)
THEOREM TypeCorrect == Spec => []TypeOK
<1>1. IInv => TypeOK
  BY DEF IInv
<1> QED BY <1>1, Inductive, PTL

(* However many cards and files there are, a card gets the file that was     *)
(* named or the last one good for it.                                        *)
THEOREM ChosenCorrect == Spec => []ChosenIsRight
<1>1. IInv => ChosenIsRight
  <2> SUFFICES ASSUME IInv, NEW p \in Procs, NEW i \in Slots,
                      session[p][i].file # 0, Piped \/ ~session[p][i].blind
               PROVE  Chosen(p, i, session[p][i].file)
    BY DEF ChosenIsRight, Chosen
  <2>1. session[p][i] \in Session
    <3>1. session \in [Procs -> [Slots -> Session]]
      BY DEF IInv, TypeOK
    <3> QED BY <3>1
  <2>2. session[p][i].file \in Files
    BY <2>1 DEF Session
  <2> QED BY <2>2 DEF IInv, SessionsInv
<1> QED BY <1>1, Inductive, PTL

(* Every card with an image has its session, unless something failed in its  *)
(* turn, micflash had too few descriptors for the cards up to this one at    *)
(* what each of them costs at most, or mpssflash searches in vain for the    *)
(* file that it has forgotten the name of.                                   *)
THEOREM LeftCorrect == Spec => []NoneLeftOut
<1>1. IInv => NoneLeftOut
  <2> SUFFICES ASSUME IInv, at["tool"] \in {"watch", "wait", "exit"}, NEW i \in Slots
               PROVE  i \in Accounted
    BY DEF NoneLeftOut, Accounted
  <2>1. i \in Int /\ i <= N /\ N \in Int
    BY ImageAssumption DEF Slots
  <2>2. slot["tool"] > N /\ slot["tool"] \in Int
    BY DEF IInv, LeftInv, TypeOK, Procs
  <2>3. i < slot["tool"]
    BY <2>1, <2>2
  <2> QED BY <2>1, <2>3 DEF IInv, LeftInv
<1> QED BY <1>1, Inductive, PTL

(* A copy of mpssflash that a check has become works on the cards behind the *)
(* one the tool waits at and is done before the tool goes on: no card that   *)
(* the command line names once is in two running sessions.                   *)
THEOREM OnceCorrect == Spec => []NeverTwice
<1>1. IInv => NeverTwice
  <2> SUFFICES ASSUME IInv, NEW i \in Slots, Active("tool", i), Active("clone", i)
               PROVE  FALSE
    BY DEF NeverTwice, NamedOnce, Procs
  <2>1. at["clone"] # "none" /\ at["clone"] # "exit"
    BY DEF IInv, AheadInv, EndedInv, Active
  <2>2. running = "clone"
    BY <2>1 DEF IInv, CloneInv, TypeOK, Procs
  <2>3. i > slot["tool"] /\ at["tool"] # "popen2"
    BY <2>2 DEF IInv, AheadInv, CloneInv, Active
  <2>4. i < slot["tool"]
    BY <2>3 DEF IInv, TurnInv, Procs, Active
  <2>5. slot["tool"] \in Int /\ i \in Int
    BY DEF IInv, TypeOK, Procs, Slots
  <2> QED BY <2>3, <2>4, <2>5
<1> QED BY <1>1, Inductive, PTL
===============================================================================
