---------------------------- MODULE ScifConn_proofs ----------------------------
(***************************************************************************)
(* What ScifConn guarantees for every number of threads and end points: one *)
(* thread at a time and its own reply, as long as no probe has unlocked the *)
(* mutex under another thread, and the bound on unread replies, always.     *)
(***************************************************************************)
EXTENDS ScifConn, FiniteSetTheorems, TLAPS

-------------------------------------------------------------------------------
(* The inductive invariant, in named parts.                                  *)

ThreadType ==
  /\ pc \in [Threads -> Pcs]
  /\ mtx \in Threads \cup {"free"}
  /\ got \in [Threads -> Threads \cup {"none"}]

FlagType == inited \in BOOLEAN /\ late \in [Threads -> BOOLEAN] /\ stolen \in BOOLEAN

ConnType == ep \in 0..MaxEps /\ open \subseteq Eps /\ inbox \in [Eps -> Seq(Threads)]

Types == ThreadType /\ FlagType /\ ConnType

(* The mutex belongs to the thread that works on the connection, or to a     *)
(* probe that has opened it and has still to unlock.                         *)
OwnerInv ==
  \A t \in Threads : /\ pc[t] \in Critical => mtx = t
                     /\ mtx = t => pc[t] \in Critical \cup {"probe_unlock"}

(* Nobody has still to reset the connection.                                 *)
Settled == \A t \in Threads : pc[t] \notin Resetting

(* A settled connection that is marked as usable is open, and holds the      *)
(* reply that the owner of the mutex waits for, if any, and nothing else.    *)
(* Whoever resets last clears the mark, and only a new end point sets it     *)
(* again: that is why the order of the resets does not matter.               *)
SettledInv ==
  inited /\ Settled =>
    /\ ep \in open
    /\ \A t \in Threads : pc[t] = "receive" => inbox[ep] = <<t>>
    /\ (\A t \in Threads : pc[t] \notin {"receive", "catch_scif"}) => inbox[ep] = <<>>

(* A request that is not late works on a settled connection.                 *)
LateInv ==
  \A t \in Threads : ~late[t] =>
    /\ pc[t] \in Critical \ {"probe_open", "probe_catch"} => Settled
    /\ pc[t] \in {"send", "resend", "receive"} => inited
    /\ got[t] \in {"none", t}

(* A call that is waiting for the mutex, or probing, has no reply yet.       *)
EmptyInv ==
  \A t \in Threads :
    pc[t] \in {"lock", "probe_lock", "probe_open", "probe_catch", "probe_unlock",
              "probe_test"} => got[t] = "none"

-------------------------------------------------------------------------------
(* Every step keeps the parts, one lemma each.                               *)

(* The three ways to change what the end point holds.                        *)

LEMMA OpenedFacts ==
  ASSUME ConnType, \E e \in Eps : Opened(e)
  PROVE  ConnType' /\ ep' \in open' /\ inbox'[ep'] = <<>> /\ inited'
<1> PICK e \in Eps : Opened(e)
  OBVIOUS
<1>1. ep' = e /\ open' = open \cup {e} /\ inited'
  BY DEF Opened
<1>2. inbox' = [inbox EXCEPT ![e] = <<>>] /\ inbox \in [Eps -> Seq(Threads)]
  BY DEF Opened, ConnType
<1>3. inbox' \in [Eps -> Seq(Threads)] /\ inbox'[e] = <<>>
  BY <1>2
<1>4. ep' \in 0..MaxEps /\ open' \subseteq Eps
  BY <1>1, ScifAssumption DEF ConnType, Eps
<1> QED
  BY <1>1, <1>3, <1>4 DEF ConnType

LEMMA Untouched == ConnType /\ UNCHANGED conn => ConnType'
  BY DEF ConnType, conn

LEMMA PostFacts ==
  ASSUME NEW t \in Threads, ConnType, ep \in open, inbox' = Post(t, ep, inbox),
         UNCHANGED <<ep, inited, open>>
  PROVE  ConnType' /\ (inbox[ep] = <<>> => inbox'[ep] = <<t>>)
<1>1. ep \in Eps /\ inbox[ep] \in Seq(Threads) /\ inbox \in [Eps -> Seq(Threads)]
  BY DEF ConnType
<1>2. Append(inbox[ep], t) \in Seq(Threads)
  BY <1>1
<1>3. inbox' = [inbox EXCEPT ![ep] = Append(inbox[ep], t)]
  BY DEF Post
<1>4. inbox' \in [Eps -> Seq(Threads)] /\ inbox'[ep] = Append(inbox[ep], t)
  BY <1>1, <1>2, <1>3
<1>5. Append(<<>>, t) = <<t>>
  OBVIOUS
<1> QED
  BY <1>4, <1>5 DEF ConnType

LEMMA TakeFacts ==
  ASSUME ConnType, ep \in open, inbox[ep] # <<>>,
         inbox' = [inbox EXCEPT ![ep] = Tail(@)], UNCHANGED <<ep, inited, open>>
  PROVE  /\ ConnType' /\ Head(inbox[ep]) \in Threads
         /\ \A t \in Threads :
              inbox[ep] = <<t>> => inbox'[ep] = <<>> /\ Head(inbox[ep]) = t
<1>1. ep \in Eps /\ inbox[ep] \in Seq(Threads) /\ inbox \in [Eps -> Seq(Threads)]
  BY DEF ConnType
<1>2. Tail(inbox[ep]) \in Seq(Threads) /\ Head(inbox[ep]) \in Threads
  BY <1>1
<1>3. inbox' = [inbox EXCEPT ![ep] = Tail(inbox[ep])]
  OBVIOUS
<1>4. inbox' \in [Eps -> Seq(Threads)] /\ inbox'[ep] = Tail(inbox[ep])
  BY <1>1, <1>2, <1>3
<1>5. \A t \in Threads : Tail(<<t>>) = <<>> /\ Head(<<t>>) = t
  OBVIOUS
<1> QED
  BY <1>2, <1>4, <1>5 DEF ConnType

LEMMA TypesStep == Types /\ [Next]_vars => Types'
  <1> SUFFICES ASSUME Types, [Next]_vars PROVE Types'
    OBVIOUS
  <1> USE ScifAssumption
      DEF Types, ThreadType, FlagType, Pcs, Critical, Resetting, Go
  <1>1. ASSUME NEW t \in Threads, Call(t) PROVE Types'
    <2>1. ConnType'
      BY <1>1, Untouched DEF Call
    <2>2. ThreadType' /\ FlagType'
      BY <1>1 DEF Call, conn
    <2> QED  BY <2>1, <2>2
  <1>2. ASSUME NEW t \in Threads, Lock(t) PROVE Types'
    <2>1. ConnType'
      BY <1>2, Untouched DEF Lock
    <2>2. ThreadType' /\ FlagType'
      BY <1>2 DEF Lock, Acquire, conn
    <2> QED  BY <2>1, <2>2
  <1>3. ASSUME NEW t \in Threads, Open(t) PROVE Types'
    <2>1. ConnType'
      BY <1>3, OpenedFacts, Untouched DEF Open, conn
    <2>2. ThreadType' /\ FlagType'
      BY <1>3 DEF Open, Opened, conn
    <2> QED  BY <2>1, <2>2
  <1>4. ASSUME NEW t \in Threads, Send(t) PROVE Types'
    <2>1. ConnType'
      BY <1>4, OpenedFacts, PostFacts, Untouched DEF Send, conn
    <2>2. ThreadType' /\ FlagType'
      BY <1>4 DEF Send, Opened, conn
    <2> QED  BY <2>1, <2>2
  <1>5. ASSUME NEW t \in Threads, Resend(t) PROVE Types'
    <2>1. ConnType'
      BY <1>5, PostFacts, Untouched DEF Resend, conn
    <2>2. ThreadType' /\ FlagType'
      BY <1>5 DEF Resend, conn
    <2> QED  BY <2>1, <2>2
  <1>6. ASSUME NEW t \in Threads, Receive(t) PROVE Types'
    <2>1. ConnType'
      BY <1>6, TakeFacts, Untouched DEF Receive, conn
    <2>2. ThreadType' /\ FlagType'
      BY <1>6, TakeFacts DEF Receive, conn
    <2> QED  BY <2>1, <2>2
  <1>7. ASSUME NEW t \in Threads, Unlock(t) PROVE Types'
    <2>1. ConnType'
      BY <1>7, Untouched DEF Unlock
    <2>2. ThreadType' /\ FlagType'
      BY <1>7 DEF Unlock, Release, conn
    <2> QED  BY <2>1, <2>2
  <1>8. ASSUME NEW t \in Threads, Catch(t) PROVE Types'
    <2>1. ConnType'
      BY <1>8, Untouched DEF Catch
    <2>2. ThreadType' /\ FlagType'
      BY <1>8 DEF Catch, Release, conn
    <2> QED  BY <2>1, <2>2
  <1>9. ASSUME NEW t \in Threads, ResetTest(t) PROVE Types'
    <2>1. ConnType'
      BY <1>9, Untouched DEF ResetTest
    <2>2. ThreadType' /\ FlagType'
      BY <1>9 DEF ResetTest, conn
    <2> QED  BY <2>1, <2>2
  <1>10. ASSUME NEW t \in Threads, ResetClose(t) PROVE Types'
    <2>1. ConnType'
      BY <1>10 DEF ResetClose, ConnType, Eps
    <2>2. ThreadType' /\ FlagType'
      BY <1>10 DEF ResetClose
    <2> QED  BY <2>1, <2>2
  <1>11. ASSUME NEW t \in Threads, ResetClear(t) PROVE Types'
    <2>1. ConnType'
      BY <1>11 DEF ResetClear, ConnType
    <2>2. ThreadType' /\ FlagType'
      BY <1>11 DEF ResetClear, Clear
    <2> QED  BY <2>1, <2>2
  <1>12. ASSUME NEW t \in Threads, Probe(t) PROVE Types'
    <2>1. ConnType'
      BY <1>12, Untouched DEF Probe
    <2>2. ThreadType' /\ FlagType'
      BY <1>12 DEF Probe, conn
    <2> QED  BY <2>1, <2>2
  <1>13. ASSUME NEW t \in Threads, ProbeLock(t) PROVE Types'
    <2>1. ConnType'
      BY <1>13, Untouched DEF ProbeLock
    <2>2. ThreadType' /\ FlagType'
      BY <1>13 DEF ProbeLock, Acquire, conn
    <2> QED  BY <2>1, <2>2
  <1>14. ASSUME NEW t \in Threads, ProbeOpen(t) PROVE Types'
    <2>1. ConnType'
      BY <1>14, OpenedFacts DEF ProbeOpen, ConnType
    <2>2. ThreadType' /\ FlagType'
      BY <1>14 DEF ProbeOpen, Opened, conn
    <2> QED  BY <2>1, <2>2
  <1>15. ASSUME NEW t \in Threads, ProbeCatch(t) PROVE Types'
    <2>1. ConnType'
      BY <1>15, Untouched DEF ProbeCatch
    <2>2. ThreadType' /\ FlagType'
      BY <1>15 DEF ProbeCatch, Release, conn
    <2> QED  BY <2>1, <2>2
  <1>16. ASSUME NEW t \in Threads, ProbeUnlock(t) PROVE Types'
    <2>1. ConnType'
      BY <1>16, Untouched DEF ProbeUnlock
    <2>2. ThreadType' /\ FlagType'
      BY <1>16 DEF ProbeUnlock, Release, conn
    <2> QED  BY <2>1, <2>2
  <1>17. ASSUME NEW t \in Threads, ProbeTest(t) PROVE Types'
    <2>1. ConnType'
      BY <1>17, Untouched DEF ProbeTest
    <2>2. ThreadType' /\ FlagType'
      BY <1>17 DEF ProbeTest, conn
    <2> QED  BY <2>1, <2>2
  <1>18. CASE UNCHANGED vars
    BY <1>18 DEF vars, conn, ConnType
  <1> QED
    BY <1>1, <1>2, <1>3, <1>4, <1>5, <1>6, <1>7, <1>8,
       <1>9, <1>10, <1>11, <1>12, <1>13, <1>14, <1>15, <1>16, <1>17, <1>18
     DEF Next, Thread

LEMMA OwnerStep == Types /\ OwnerInv /\ [Next]_vars /\ ~stolen' => OwnerInv'
  <1> SUFFICES ASSUME Types, OwnerInv, [Next]_vars, ~stolen' PROVE OwnerInv'
    OBVIOUS
  <1> USE ScifAssumption
      DEF Types, ThreadType, Pcs, Critical, Resetting, OwnerInv, Go
  <1>1. ASSUME NEW t \in Threads, Call(t) PROVE OwnerInv'
    BY <1>1 DEF Call
  <1>2. ASSUME NEW t \in Threads, Lock(t) PROVE OwnerInv'
    BY <1>2 DEF Lock, Acquire
  <1>3. ASSUME NEW t \in Threads, Open(t) PROVE OwnerInv'
    BY <1>3 DEF Open, Opened
  <1>4. ASSUME NEW t \in Threads, Send(t) PROVE OwnerInv'
    BY <1>4 DEF Send, Opened, Post
  <1>5. ASSUME NEW t \in Threads, Resend(t) PROVE OwnerInv'
    BY <1>5 DEF Resend, Post
  <1>6. ASSUME NEW t \in Threads, Receive(t) PROVE OwnerInv'
    BY <1>6 DEF Receive
  <1>7. ASSUME NEW t \in Threads, Unlock(t) PROVE OwnerInv'
    BY <1>7 DEF Unlock, Release
  <1>8. ASSUME NEW t \in Threads, Catch(t) PROVE OwnerInv'
    BY <1>8 DEF Catch, Release
  <1>9. ASSUME NEW t \in Threads, ResetTest(t) PROVE OwnerInv'
    BY <1>9 DEF ResetTest
  <1>10. ASSUME NEW t \in Threads, ResetClose(t) PROVE OwnerInv'
    BY <1>10 DEF ResetClose
  <1>11. ASSUME NEW t \in Threads, ResetClear(t) PROVE OwnerInv'
    BY <1>11 DEF ResetClear, Clear
  <1>12. ASSUME NEW t \in Threads, Probe(t) PROVE OwnerInv'
    BY <1>12 DEF Probe
  <1>13. ASSUME NEW t \in Threads, ProbeLock(t) PROVE OwnerInv'
    BY <1>13 DEF ProbeLock, Acquire
  <1>14. ASSUME NEW t \in Threads, ProbeOpen(t) PROVE OwnerInv'
    BY <1>14 DEF ProbeOpen, Opened
  <1>15. ASSUME NEW t \in Threads, ProbeCatch(t) PROVE OwnerInv'
    BY <1>15 DEF ProbeCatch, Release
  <1>16. ASSUME NEW t \in Threads, ProbeUnlock(t) PROVE OwnerInv'
    BY <1>16 DEF ProbeUnlock, Release
  <1>17. ASSUME NEW t \in Threads, ProbeTest(t) PROVE OwnerInv'
    BY <1>17 DEF ProbeTest
  <1>18. CASE UNCHANGED vars
    BY <1>18 DEF vars, conn
  <1> QED
    BY <1>1, <1>2, <1>3, <1>4, <1>5, <1>6, <1>7, <1>8,
       <1>9, <1>10, <1>11, <1>12, <1>13, <1>14, <1>15, <1>16, <1>17, <1>18
     DEF Next, Thread

LEMMA EmptyStep == Types /\ EmptyInv /\ [Next]_vars => EmptyInv'
  <1> SUFFICES ASSUME Types, EmptyInv, [Next]_vars PROVE EmptyInv'
    OBVIOUS
  <1> USE ScifAssumption
      DEF Types, ThreadType, Pcs, Critical, Resetting, EmptyInv, Go
  <1>1. ASSUME NEW t \in Threads, Call(t) PROVE EmptyInv'
    BY <1>1 DEF Call
  <1>2. ASSUME NEW t \in Threads, Lock(t) PROVE EmptyInv'
    BY <1>2 DEF Lock, Acquire
  <1>3. ASSUME NEW t \in Threads, Open(t) PROVE EmptyInv'
    BY <1>3 DEF Open, Opened
  <1>4. ASSUME NEW t \in Threads, Send(t) PROVE EmptyInv'
    BY <1>4 DEF Send, Opened, Post
  <1>5. ASSUME NEW t \in Threads, Resend(t) PROVE EmptyInv'
    BY <1>5 DEF Resend, Post
  <1>6. ASSUME NEW t \in Threads, Receive(t) PROVE EmptyInv'
    BY <1>6 DEF Receive
  <1>7. ASSUME NEW t \in Threads, Unlock(t) PROVE EmptyInv'
    BY <1>7 DEF Unlock, Release
  <1>8. ASSUME NEW t \in Threads, Catch(t) PROVE EmptyInv'
    BY <1>8 DEF Catch, Release
  <1>9. ASSUME NEW t \in Threads, ResetTest(t) PROVE EmptyInv'
    BY <1>9 DEF ResetTest
  <1>10. ASSUME NEW t \in Threads, ResetClose(t) PROVE EmptyInv'
    BY <1>10 DEF ResetClose
  <1>11. ASSUME NEW t \in Threads, ResetClear(t) PROVE EmptyInv'
    BY <1>11 DEF ResetClear, Clear
  <1>12. ASSUME NEW t \in Threads, Probe(t) PROVE EmptyInv'
    BY <1>12 DEF Probe
  <1>13. ASSUME NEW t \in Threads, ProbeLock(t) PROVE EmptyInv'
    BY <1>13 DEF ProbeLock, Acquire
  <1>14. ASSUME NEW t \in Threads, ProbeOpen(t) PROVE EmptyInv'
    BY <1>14 DEF ProbeOpen, Opened
  <1>15. ASSUME NEW t \in Threads, ProbeCatch(t) PROVE EmptyInv'
    BY <1>15 DEF ProbeCatch, Release
  <1>16. ASSUME NEW t \in Threads, ProbeUnlock(t) PROVE EmptyInv'
    BY <1>16 DEF ProbeUnlock, Release
  <1>17. ASSUME NEW t \in Threads, ProbeTest(t) PROVE EmptyInv'
    BY <1>17 DEF ProbeTest
  <1>18. CASE UNCHANGED vars
    BY <1>18 DEF vars, conn
  <1> QED
    BY <1>1, <1>2, <1>3, <1>4, <1>5, <1>6, <1>7, <1>8,
       <1>9, <1>10, <1>11, <1>12, <1>13, <1>14, <1>15, <1>16, <1>17, <1>18
     DEF Next, Thread

LEMMA SettledStep ==
  Types /\ OwnerInv /\ SettledInv /\ [Next]_vars => SettledInv'
  <1> SUFFICES ASSUME Types, OwnerInv, SettledInv, [Next]_vars PROVE SettledInv'
    OBVIOUS
  <1> USE ScifAssumption
      DEF Types, ThreadType, FlagType, Pcs, Critical, Resetting, OwnerInv, Settled,
          SettledInv, Go, conn
  <1>1. ASSUME NEW t \in Threads, Call(t) PROVE SettledInv'
    BY <1>1 DEF Call
  <1>2. ASSUME NEW t \in Threads, Lock(t) PROVE SettledInv'
    BY <1>2 DEF Lock, Acquire
  <1>3. ASSUME NEW t \in Threads, Open(t) PROVE SettledInv'
    <2>1. \A u \in Threads \ {t} : pc'[u] = pc[u] /\ pc[u] \notin Critical
      BY <1>3 DEF Open
    <2>2. Settled' <=> Settled
      BY <1>3, <2>1 DEF Open, Settled
    <2>3. CASE (\E e \in Eps : Opened(e)) /\ pc' = [pc EXCEPT ![t] = "send"]
      <3>1. pc'[t] = "send"
        BY <2>3
      <3>2. ep' \in open' /\ inbox'[ep'] = <<>>
        BY <2>3, OpenedFacts
      <3> QED  BY <2>1, <3>1, <3>2 DEF SettledInv, Critical
    <2>4. CASE pc' = [pc EXCEPT ![t] = "catch_scif"] /\ UNCHANGED conn
      <3>1. pc'[t] = "catch_scif"
        BY <2>4
      <3> QED  BY <2>1, <2>2, <2>4, <3>1 DEF SettledInv, conn, Critical
    <2> QED  BY <1>3, <2>3, <2>4 DEF Open
  <1>4. ASSUME NEW t \in Threads, Send(t) PROVE SettledInv'
    <2>1. \A u \in Threads \ {t} : pc'[u] = pc[u] /\ pc[u] \notin Critical
      BY <1>4 DEF Send
    <2>2. Settled' <=> Settled
      BY <1>4, <2>1 DEF Send, Settled
    <2>3. CASE /\ ep \in open /\ inbox' = Post(t, ep, inbox)
              /\ pc' = [pc EXCEPT ![t] = "receive"] /\ UNCHANGED <<ep, inited, open>>
      <3>1. pc'[t] = "receive" /\ pc[t] \notin {"receive", "catch_scif"}
        BY <1>4, <2>3 DEF Send
      <3>2. inbox[ep] = <<>> => inbox'[ep] = <<t>>
        BY <2>3, PostFacts
      <3> QED  BY <2>1, <2>2, <2>3, <3>1, <3>2 DEF SettledInv, Critical
    <2>4. CASE (\E e \in Eps : Opened(e)) /\ pc' = [pc EXCEPT ![t] = "resend"]
      <3>1. pc'[t] = "resend"
        BY <2>4
      <3>2. ep' \in open' /\ inbox'[ep'] = <<>>
        BY <2>4, OpenedFacts
      <3> QED  BY <2>1, <3>1, <3>2 DEF SettledInv, Critical
    <2>5. CASE pc' = [pc EXCEPT ![t] = "catch_scif"] /\ UNCHANGED conn
      <3>1. pc'[t] = "catch_scif"
        BY <2>5
      <3> QED  BY <2>1, <2>2, <2>5, <3>1 DEF SettledInv, conn, Critical
    <2> QED  BY <1>4, <2>3, <2>4, <2>5 DEF Send
  <1>5. ASSUME NEW t \in Threads, Resend(t) PROVE SettledInv'
    <2>1. \A u \in Threads \ {t} : pc'[u] = pc[u] /\ pc[u] \notin Critical
      BY <1>5 DEF Resend
    <2>2. Settled' <=> Settled
      BY <1>5, <2>1 DEF Resend, Settled
    <2>3. CASE /\ ep \in open /\ inbox' = Post(t, ep, inbox)
              /\ pc' = [pc EXCEPT ![t] = "receive"] /\ UNCHANGED <<ep, inited, open>>
      <3>1. pc'[t] = "receive" /\ pc[t] \notin {"receive", "catch_scif"}
        BY <1>5, <2>3 DEF Resend
      <3>2. inbox[ep] = <<>> => inbox'[ep] = <<t>>
        BY <2>3, PostFacts
      <3> QED  BY <2>1, <2>2, <2>3, <3>1, <3>2 DEF SettledInv, Critical
    <2>4. CASE pc' = [pc EXCEPT ![t] = "catch_scif"] /\ UNCHANGED conn
      <3>1. pc'[t] = "catch_scif"
        BY <2>4
      <3> QED  BY <2>1, <2>2, <2>4, <3>1 DEF SettledInv, conn, Critical
    <2> QED  BY <1>5, <2>3, <2>4 DEF Resend
  <1>6. ASSUME NEW t \in Threads, Receive(t) PROVE SettledInv'
    <2>1. \A u \in Threads \ {t} : pc'[u] = pc[u] /\ pc[u] \notin Critical
      BY <1>6 DEF Receive
    <2>2. Settled' <=> Settled
      BY <1>6, <2>1 DEF Receive, Settled
    <2>3. CASE /\ ep \in open /\ inbox[ep] # <<>>
              /\ inbox' = [inbox EXCEPT ![ep] = Tail(inbox[ep])]
              /\ UNCHANGED <<ep, inited, open>>
              /\ \/ pc' = [pc EXCEPT ![t] = "unlock"]
                 \/ pc' = [pc EXCEPT ![t] = "catch_ras"]
      <3>1. pc[t] = "receive" /\ pc'[t] \in {"unlock", "catch_ras"}
        BY <1>6, <2>3 DEF Receive
      <3>2. ConnType /\ ep \in open /\ inbox[ep] # <<>>
        BY <2>3
      <3>3. inbox' = [inbox EXCEPT ![ep] = Tail(inbox[ep])] /\ UNCHANGED <<ep, inited, open>>
        BY <2>3
      <3>4. inbox'[ep] = Tail(inbox[ep])
        BY <3>2, <3>3 DEF ConnType
      <3>5. Tail(<<t>>) = <<>>
        OBVIOUS
      <3> QED  BY <2>1, <2>2, <3>1, <3>3, <3>4, <3>5 DEF SettledInv, Critical
    <2>4. CASE pc' = [pc EXCEPT ![t] = "catch_scif"] /\ UNCHANGED conn
      <3>1. pc'[t] = "catch_scif"
        BY <2>4
      <3> QED  BY <2>1, <2>2, <2>4, <3>1 DEF SettledInv, conn, Critical
    <2>5. \/ /\ ep \in open /\ inbox[ep] # <<>>
             /\ inbox' = [inbox EXCEPT ![ep] = Tail(inbox[ep])]
             /\ UNCHANGED <<ep, inited, open>>
             /\ Go(t, "unlock") \/ Go(t, "catch_ras")
          \/ Go(t, "catch_scif") /\ UNCHANGED <<conn, got>>
      <3> HIDE DEF Types, ThreadType, FlagType, Pcs, OwnerInv, Settled, SettledInv, conn, Go
      <3> QED  BY <1>6 DEF Receive
    <2> QED  BY <2>3, <2>4, <2>5
  <1>7. ASSUME NEW t \in Threads, Unlock(t) PROVE SettledInv'
    BY <1>7 DEF Unlock, Release
  <1>8. ASSUME NEW t \in Threads, Catch(t) PROVE SettledInv'
    BY <1>8 DEF Catch, Release
  <1>9. ASSUME NEW t \in Threads, ResetTest(t) PROVE SettledInv'
    BY <1>9 DEF ResetTest
  <1>10. ASSUME NEW t \in Threads, ResetClose(t) PROVE SettledInv'
    BY <1>10 DEF ResetClose
  <1>11. ASSUME NEW t \in Threads, ResetClear(t) PROVE SettledInv'
    BY <1>11 DEF ResetClear, Clear
  <1>12. ASSUME NEW t \in Threads, Probe(t) PROVE SettledInv'
    BY <1>12 DEF Probe
  <1>13. ASSUME NEW t \in Threads, ProbeLock(t) PROVE SettledInv'
    BY <1>13 DEF ProbeLock, Acquire
  <1>14. ASSUME NEW t \in Threads, ProbeOpen(t) PROVE SettledInv'
    <2>1. \A u \in Threads \ {t} : pc'[u] = pc[u] /\ pc[u] \notin Critical
      BY <1>14 DEF ProbeOpen
    <2>2. CASE (\E e \in Eps : Opened(e)) /\ pc' = [pc EXCEPT ![t] = "probe_unlock"]
      <3>1. pc'[t] = "probe_unlock"
        BY <2>2
      <3>2. ep' \in open' /\ inbox'[ep'] = <<>>
        BY <2>2, OpenedFacts
      <3> QED  BY <2>1, <3>1, <3>2 DEF SettledInv, Critical
    <2>3. CASE inited' = FALSE
      BY <2>3 DEF SettledInv
    <2> QED  BY <1>14, <2>2, <2>3 DEF ProbeOpen
  <1>15. ASSUME NEW t \in Threads, ProbeCatch(t) PROVE SettledInv'
    BY <1>15 DEF ProbeCatch, Release
  <1>16. ASSUME NEW t \in Threads, ProbeUnlock(t) PROVE SettledInv'
    BY <1>16 DEF ProbeUnlock, Release
  <1>17. ASSUME NEW t \in Threads, ProbeTest(t) PROVE SettledInv'
    BY <1>17 DEF ProbeTest
  <1>18. CASE UNCHANGED vars
    BY <1>18 DEF vars, conn
  <1> QED
    BY <1>1, <1>2, <1>3, <1>4, <1>5, <1>6, <1>7, <1>8,
       <1>9, <1>10, <1>11, <1>12, <1>13, <1>14, <1>15, <1>16, <1>17, <1>18
     DEF Next, Thread

LEMMA LateStep ==
  Types /\ OwnerInv /\ SettledInv /\ LateInv /\ EmptyInv /\ [Next]_vars => LateInv'
  <1> SUFFICES ASSUME Types, OwnerInv, SettledInv, LateInv, EmptyInv, [Next]_vars
               PROVE  LateInv'
    OBVIOUS
  <1> USE ScifAssumption
      DEF Types, ThreadType, FlagType, ConnType, Pcs, Critical, Resetting, OwnerInv,
          Settled, SettledInv, LateInv, EmptyInv, Go, conn, Eps
  <1>1. ASSUME NEW t \in Threads, Call(t) PROVE LateInv'
    BY <1>1 DEF Call
  <1>2. ASSUME NEW t \in Threads, Lock(t) PROVE LateInv'
    <2>1. late'[t] = (\E u \in Threads \ {t} : pc[u] \in Resetting)
      BY <1>2 DEF Lock
    <2>2. pc'[t] \in {"send", "open"} /\ (pc'[t] = "send" <=> inited)
      BY <1>2 DEF Lock
    <2>3. \A u \in Threads \ {t} :
            pc'[u] = pc[u] /\ late'[u] = late[u] /\ got'[u] = got[u]
      BY <1>2 DEF Lock
    <2>4. \A u \in Threads : pc[u] \notin Critical
      BY <1>2 DEF Lock, Acquire
    <2>5. ~late'[t] => Settled'
      BY <2>1, <2>2, <2>3 DEF Settled
    <2>6. got'[t] = "none" /\ inited' = inited
      BY <1>2 DEF Lock
    <2>7. ASSUME NEW u \in Threads \ {t}, ~late'[u]
          PROVE  pc'[u] \notin Critical /\ got'[u] \in {"none", u}
      BY <2>3, <2>4, <2>7 DEF LateInv
    <2> QED  BY <2>2, <2>5, <2>6, <2>7 DEF LateInv, Critical
  <1>3. ASSUME NEW t \in Threads, Open(t) PROVE LateInv'
    BY <1>3 DEF Open, Opened
  <1>4. ASSUME NEW t \in Threads, Send(t) PROVE LateInv'
    <2>1. \A u \in Threads \ {t} : pc'[u] = pc[u] /\ pc[u] \notin Critical
      BY <1>4 DEF Send
    <2>2. Settled' <=> Settled
      BY <1>4, <2>1 DEF Send, Settled
    <2>3. late' = late /\ got' = got /\ pc[t] = "send"
      BY <1>4 DEF Send
    <2>4. inited' \/ inited' = inited
      BY <1>4, OpenedFacts DEF Send
    <2> QED  BY <2>1, <2>2, <2>3, <2>4 DEF LateInv, Critical
  <1>5. ASSUME NEW t \in Threads, Resend(t) PROVE LateInv'
    BY <1>5 DEF Resend, Post
  <1>6. ASSUME NEW t \in Threads, Receive(t) PROVE LateInv'
    BY <1>6 DEF Receive
  <1>7. ASSUME NEW t \in Threads, Unlock(t) PROVE LateInv'
    BY <1>7 DEF Unlock, Release
  <1>8. ASSUME NEW t \in Threads, Catch(t) PROVE LateInv'
    BY <1>8 DEF Catch, Release
  <1>9. ASSUME NEW t \in Threads, ResetTest(t) PROVE LateInv'
    BY <1>9 DEF ResetTest
  <1>10. ASSUME NEW t \in Threads, ResetClose(t) PROVE LateInv'
    BY <1>10 DEF ResetClose
  <1>11. ASSUME NEW t \in Threads, ResetClear(t) PROVE LateInv'
    BY <1>11 DEF ResetClear, Clear
  <1>12. ASSUME NEW t \in Threads, Probe(t) PROVE LateInv'
    BY <1>12 DEF Probe
  <1>13. ASSUME NEW t \in Threads, ProbeLock(t) PROVE LateInv'
    BY <1>13 DEF ProbeLock, Acquire
  <1>14. ASSUME NEW t \in Threads, ProbeOpen(t) PROVE LateInv'
    BY <1>14 DEF ProbeOpen, Opened
  <1>15. ASSUME NEW t \in Threads, ProbeCatch(t) PROVE LateInv'
    BY <1>15 DEF ProbeCatch, Release
  <1>16. ASSUME NEW t \in Threads, ProbeUnlock(t) PROVE LateInv'
    BY <1>16 DEF ProbeUnlock, Release
  <1>17. ASSUME NEW t \in Threads, ProbeTest(t) PROVE LateInv'
    BY <1>17 DEF ProbeTest
  <1>18. CASE UNCHANGED vars
    BY <1>18 DEF vars, conn
  <1> QED
    BY <1>1, <1>2, <1>3, <1>4, <1>5, <1>6, <1>7, <1>8,
       <1>9, <1>10, <1>11, <1>12, <1>13, <1>14, <1>15, <1>16, <1>17, <1>18
     DEF Next, Thread

LEMMA StolenStays == FlagType /\ stolen /\ [Next]_vars => stolen'
  BY DEF FlagType, Next, Thread, vars, Call, Lock, Open, Send, Resend, Receive, Unlock,
         Catch, ResetTest, ResetClose, ResetClear, Probe, ProbeLock, ProbeOpen,
         ProbeCatch, ProbeUnlock, ProbeTest

-------------------------------------------------------------------------------
(* The theorems.                                                             *)

IInv ==
  /\ Types /\ EmptyInv
  /\ ~stolen => OwnerInv /\ SettledInv /\ LateInv

LEMMA Inductive == Spec => []IInv
<1>1. Init => IInv
  <2> SUFFICES ASSUME Init PROVE IInv
    OBVIOUS
  <2> USE ScifAssumption DEF Init
  <2>1. ThreadType /\ FlagType
    BY DEF ThreadType, FlagType, Pcs, Critical, Resetting
  <2>2. ConnType
    <3>1. <<>> \in Seq(Threads)
      OBVIOUS
    <3> QED  BY <3>1 DEF ConnType, Eps
  <2>3. OwnerInv /\ SettledInv /\ LateInv /\ EmptyInv
    BY DEF OwnerInv, SettledInv, LateInv, EmptyInv, Critical
  <2> QED  BY <2>1, <2>2, <2>3 DEF IInv, Types
<1>2. IInv /\ [Next]_vars => IInv'
  <2> SUFFICES ASSUME IInv, [Next]_vars PROVE IInv'
    OBVIOUS
  <2>1. Types' /\ EmptyInv'
    BY TypesStep, EmptyStep DEF IInv
  <2>2. ASSUME ~stolen' PROVE OwnerInv' /\ SettledInv' /\ LateInv'
    <3>1. OwnerInv /\ SettledInv /\ LateInv
      BY <2>2, StolenStays DEF IInv, Types
    <3> QED
      BY <2>2, <3>1, OwnerStep, SettledStep, LateStep DEF IInv
  <2> QED  BY <2>1, <2>2 DEF IInv
<1> QED
  BY <1>1, <1>2, PTL DEF Spec

(* As long as no probe has unlocked the mutex under another thread, one      *)
(* thread at a time works on the connection.                                 *)
THEOREM Serialized == Spec => []MutualExclusion
<1>1. IInv => MutualExclusion
  BY DEF IInv, OwnerInv, MutualExclusion
<1> QED
  BY <1>1, Inductive, PTL

(* As long as no probe has unlocked the mutex under another thread, a        *)
(* request that finds no reset pending works with an open end point and      *)
(* returns its own reply.                                                    *)
THEOREM OwnReplies == Spec => []CleanUnlessLate
<1>1. IInv => CleanUnlessLate
  BY DEF IInv, LateInv, SettledInv, CleanUnlessLate, Critical
<1> QED
  BY <1>1, Inductive, PTL
-------------------------------------------------------------------------------
(* How many replies an end point can hold. This does not depend on the       *)
(* mutex: it holds as well after a probe has unlocked it under a thread.     *)

(* Who may be owed a reply (or has given up waiting for it and has still to  *)
(* close the end point), and who may still send a request.                   *)
OwingPcs == {"receive", "catch_scif", "reset", "close"}
SendingPcs == {"send", "resend"}
In(s) == {t \in Threads : pc[t] \in s}
Owing == Cardinality(In(OwingPcs))
Sending == Cardinality(In(SendingPcs))

(* What is unread at the end point in use belongs to threads that have not   *)
(* come back from it, as long as it is marked as usable. A thread that       *)
(* clears the mark leaves the others at work: then what is unread and what   *)
(* they may still send is bounded together, and nobody else comes to send    *)
(* before a new end point is opened.                                         *)
BoundInv ==
  /\ \A e \in Eps : Len(inbox[e]) <= Cardinality(Threads)
  /\ \A e \in Eps \ open : inbox[e] = <<>>
  /\ ep \in Eps => IF inited THEN Len(inbox[ep]) <= Owing
                   ELSE Len(inbox[ep]) + Sending <= Cardinality(Threads)

(* How the cardinality of a set changes with one member. *)
LEMMA OneMember ==
  ASSUME NEW A, NEW B, NEW t, IsFiniteSet(A), A \ {t} = B \ {t}
  PROVE  Cardinality(B) = Cardinality(A) - (IF t \in A THEN 1 ELSE 0)
                                         + (IF t \in B THEN 1 ELSE 0)
<1> DEFINE C == A \ {t}
<1>1. IsFiniteSet(C) /\ Cardinality(C) \in Nat /\ Cardinality(A) \in Nat
  BY FS_RemoveElement, FS_CardinalityType
<1>2. Cardinality(C) = IF t \in A THEN Cardinality(A) - 1 ELSE Cardinality(A)
  BY FS_RemoveElement
<1>3. t \notin C
  OBVIOUS
<1>4. Cardinality(C \cup {t}) = Cardinality(C) + 1
  BY <1>1, <1>3, FS_AddElement
<1>5. B = IF t \in B THEN C \cup {t} ELSE C
  OBVIOUS
<1> HIDE DEF C
<1>6. Cardinality(B) = IF t \in B THEN Cardinality(C) + 1 ELSE Cardinality(C)
  BY <1>4, <1>5
<1> QED
  BY <1>1, <1>2, <1>6

LEMMA InFacts ==
  ASSUME NEW s
  PROVE  /\ IsFiniteSet(In(s)) /\ Cardinality(In(s)) \in Nat
         /\ Cardinality(In(s)) <= Cardinality(Threads) /\ Cardinality(Threads) \in Nat
<1>1. In(s) \in SUBSET Threads
  BY DEF In
<1>2. IsFiniteSet(Threads)
  BY ScifAssumption
<1>3. IsFiniteSet(In(s)) /\ Cardinality(In(s)) <= Cardinality(Threads)
  BY <1>1, <1>2, FS_Subset
<1> QED
  BY <1>2, <1>3, FS_CardinalityType

(* Nobody is owed a reply and still to send. *)
LEMMA Disjoint ==
  /\ Owing \in Nat /\ Sending \in Nat /\ Cardinality(Threads) \in Nat
  /\ Owing <= Cardinality(Threads) /\ Owing + Sending <= Cardinality(Threads)
<1> DEFINE A == In(OwingPcs)
           B == In(SendingPcs)
<1>1. A \cap B = {} /\ A \cup B \in SUBSET Threads
  BY DEF In, OwingPcs, SendingPcs
<1>2. IsFiniteSet(A) /\ IsFiniteSet(B) /\ IsFiniteSet(Threads)
  BY InFacts, ScifAssumption
<1>3. Owing = Cardinality(A) /\ Sending = Cardinality(B)
  BY DEF Owing, Sending
<1>4. /\ Owing \in Nat /\ Sending \in Nat /\ Cardinality(Threads) \in Nat
      /\ Owing <= Cardinality(Threads)
  BY <1>3, InFacts
<1> HIDE DEF A, B
<1>5. Cardinality(A \cup B) = Cardinality(A) + Cardinality(B) - Cardinality({})
  BY <1>1, <1>2, FS_Union
<1>6. Cardinality(A \cup B) <= Cardinality(Threads)
  BY <1>1, <1>2, FS_Subset
<1> QED
  BY <1>3, <1>4, <1>5, <1>6, FS_EmptySet

LEMMA OwingNat == Owing' \in Nat
<1>1. {t \in Threads : pc'[t] \in OwingPcs} \in SUBSET Threads /\ IsFiniteSet(Threads)
  BY ScifAssumption
<1>2. Cardinality({t \in Threads : pc'[t] \in OwingPcs}) \in Nat
  BY <1>1, FS_Subset, FS_CardinalityType
<1> QED
  BY <1>2 DEF Owing, In, OwingPcs

(* A thread that moves changes the two numbers by itself alone. *)
LEMMA Moved ==
  ASSUME ThreadType, NEW t \in Threads, NEW p, Go(t, p)
  PROVE  /\ Owing' = Owing - (IF pc[t] \in OwingPcs THEN 1 ELSE 0)
                           + (IF p \in OwingPcs THEN 1 ELSE 0)
         /\ Sending' = Sending - (IF pc[t] \in SendingPcs THEN 1 ELSE 0)
                               + (IF p \in SendingPcs THEN 1 ELSE 0)
<1>1. pc'[t] = p /\ \A u \in Threads \ {t} : pc'[u] = pc[u]
  BY DEF Go, ThreadType
<1>2. ASSUME NEW s
      PROVE  /\ In(s) \ {t} = {u \in Threads : pc'[u] \in s} \ {t}
             /\ t \in In(s) <=> pc[t] \in s
             /\ t \in {u \in Threads : pc'[u] \in s} <=> p \in s
  BY <1>1 DEF In
<1>3. ASSUME NEW s
      PROVE  Cardinality({u \in Threads : pc'[u] \in s})
               = Cardinality(In(s)) - (IF pc[t] \in s THEN 1 ELSE 0)
                                    + (IF p \in s THEN 1 ELSE 0)
  <2>1. IsFiniteSet(In(s))
    BY InFacts
  <2> QED  BY <1>2, <2>1, OneMember
<1>4. /\ Owing' = Cardinality({u \in Threads : pc'[u] \in OwingPcs})
      /\ Sending' = Cardinality({u \in Threads : pc'[u] \in SendingPcs})
  BY DEF Owing, Sending, In, OwingPcs, SendingPcs
<1> QED
  BY <1>3, <1>4 DEF Owing, Sending

(* A step that leaves the connection alone, and takes nobody to sending and  *)
(* nobody away from waiting unless the end point is not marked, keeps the    *)
(* bound; so does one that only clears the mark.                             *)
LEMMA BoundKept ==
  ASSUME Types, BoundInv, NEW t \in Threads, NEW p, Go(t, p),
         UNCHANGED <<ep, open, inbox>>, inited' = inited \/ ~inited',
         pc[t] \in OwingPcs => p \in OwingPcs \/ ~inited,
         p \in SendingPcs => pc[t] \in SendingPcs \/ inited'
  PROVE  BoundInv'
<1>1. Owing' \in Nat /\ Sending' \in Int
  BY OwingNat, Moved, Disjoint DEF Types
<1>2. (inited => Owing' >= Owing) /\ (~inited' => Sending' <= Sending)
  BY Moved, Disjoint DEF Types
<1>3. \A e \in Eps : Len(inbox[e]) \in Nat
  BY DEF Types, ConnType
<1> QED
  BY <1>1, <1>2, <1>3, Disjoint DEF BoundInv, Types, FlagType

LEMMA BoundOpened ==
  ASSUME Types, BoundInv, \E e \in Eps : Opened(e), Owing' \in Nat
  PROVE  BoundInv'
<1> PICK e \in Eps : Opened(e)
  OBVIOUS
<1>1. /\ ep' = e /\ inited' /\ open' = open \cup {e}
      /\ inbox' = [inbox EXCEPT ![e] = <<>>] /\ inbox \in [Eps -> Seq(Threads)]
  BY DEF Opened, Types, ConnType
<1>2. inbox'[e] = <<>> /\ \A f \in Eps \ {e} : inbox'[f] = inbox[f]
  BY <1>1
<1>3. Len(<<>>) = 0 /\ Cardinality(Threads) \in Nat
  BY Disjoint
<1> QED
  BY <1>1, <1>2, <1>3 DEF BoundInv

LEMMA BoundPost ==
  ASSUME Types, BoundInv, NEW t \in Threads, pc[t] \in SendingPcs, Go(t, "receive"),
         ep \in open, inbox' = Post(t, ep, inbox), UNCHANGED <<ep, inited, open>>
  PROVE  BoundInv'
<1>1. ep \in Eps /\ inbox \in [Eps -> Seq(Threads)] /\ inbox[ep] \in Seq(Threads)
  BY DEF Types, ConnType
<1>2. inbox' = [inbox EXCEPT ![ep] = Append(inbox[ep], t)]
  BY DEF Post
<1>3. Len(inbox'[ep]) = Len(inbox[ep]) + 1 /\ Len(inbox[ep]) \in Nat
  BY <1>1, <1>2
<1>4. \A f \in Eps \ {ep} : inbox'[f] = inbox[f]
  BY <1>1, <1>2
<1>5. Owing' = Owing + 1 /\ Sending' = Sending - 1
  BY Moved, Disjoint DEF Types, OwingPcs, SendingPcs
<1>6. Owing' \in Nat /\ Sending' \in Nat /\ Owing' <= Cardinality(Threads) /\ Cardinality(Threads) \in Nat
  <2>1. pc[t] \in SendingPcs => t \in In(SendingPcs)
    BY DEF In
  <2>2. Sending # 0
    BY <2>1, InFacts, FS_EmptySet DEF Sending
  <2> QED  BY <1>5, <2>2, Disjoint
<1>7. Len(inbox'[ep]) <= Cardinality(Threads)
  BY <1>1, <1>3, <1>5, <1>6, Disjoint DEF BoundInv
<1> QED
  BY <1>1, <1>3, <1>4, <1>5, <1>7, Disjoint DEF BoundInv

LEMMA BoundTake ==
  ASSUME Types, BoundInv, NEW t \in Threads, NEW p, pc[t] = "receive", Go(t, p),
         p \in {"unlock", "catch_ras"}, ep \in open, inbox[ep] # <<>>,
         inbox' = [inbox EXCEPT ![ep] = Tail(@)], UNCHANGED <<ep, inited, open>>
  PROVE  BoundInv'
<1>1. ep \in Eps /\ inbox \in [Eps -> Seq(Threads)] /\ inbox[ep] \in Seq(Threads)
  BY DEF Types, ConnType
<1>2. inbox'[ep] = Tail(inbox[ep]) /\ \A f \in Eps \ {ep} : inbox'[f] = inbox[f]
  BY <1>1
<1>3. Len(inbox'[ep]) = Len(inbox[ep]) - 1 /\ Len(inbox[ep]) \in Nat
  BY <1>1, <1>2
<1>4. Owing' = Owing - 1 /\ Sending' = Sending
  BY Moved, Disjoint DEF Types, OwingPcs, SendingPcs
<1> QED
  BY <1>1, <1>2, <1>3, <1>4, Disjoint DEF BoundInv

LEMMA BoundClose ==
  ASSUME Types, BoundInv, NEW t \in Threads, pc[t] = "close", Go(t, "clear"),
         open' = open \ {ep}, UNCHANGED <<ep, inited>>,
         inbox' = IF ep \in open THEN [inbox EXCEPT ![ep] = <<>>] ELSE inbox
  PROVE  BoundInv'
<1>1. inbox \in [Eps -> Seq(Threads)] /\ open \subseteq Eps
  BY DEF Types, ConnType
<1>2. ep \in Eps => inbox'[ep] = <<>>
  BY <1>1 DEF BoundInv
<1>3. \A f \in Eps \ {ep} : inbox'[f] = inbox[f]
  BY <1>1
<1>4. Owing' = Owing - 1 /\ Sending' = Sending
  BY Moved, Disjoint DEF Types, OwingPcs, SendingPcs
<1>5. Owing' \in Nat
  BY OwingNat
<1>6. Len(<<>>) = 0
  OBVIOUS
<1> QED
  BY <1>2, <1>3, <1>4, <1>5, <1>6, Disjoint DEF BoundInv

LEMMA BoundStep == Types /\ BoundInv /\ [Next]_vars => BoundInv'
  <1> SUFFICES ASSUME Types, BoundInv, [Next]_vars PROVE BoundInv'
    OBVIOUS
  <1> USE DEF OwingPcs, SendingPcs
  <1>1. ASSUME NEW t \in Threads, Call(t) PROVE BoundInv'
    BY <1>1, BoundKept DEF Call, conn
  <1>2. ASSUME NEW t \in Threads, Lock(t) PROVE BoundInv'
    BY <1>2, BoundKept DEF Lock, conn
  <1>3. ASSUME NEW t \in Threads, Open(t) PROVE BoundInv'
    <2>1. Owing' \in Nat
      BY <1>3, OwingNat
    <2> QED  BY <1>3, BoundKept, BoundOpened, <2>1 DEF Open, conn
  <1>4. ASSUME NEW t \in Threads, Send(t) PROVE BoundInv'
    <2>1. Owing' \in Nat
      BY OwingNat
    <2> QED  BY <1>4, BoundKept, BoundPost, BoundOpened, <2>1 DEF Send, conn
  <1>5. ASSUME NEW t \in Threads, Resend(t) PROVE BoundInv'
    BY <1>5, BoundKept, BoundPost DEF Resend, conn
  <1>6. ASSUME NEW t \in Threads, Receive(t) PROVE BoundInv'
    BY <1>6, BoundKept, BoundTake DEF Receive, conn
  <1>7. ASSUME NEW t \in Threads, Unlock(t) PROVE BoundInv'
    BY <1>7, BoundKept DEF Unlock, conn
  <1>8. ASSUME NEW t \in Threads, Catch(t) PROVE BoundInv'
    BY <1>8, BoundKept DEF Catch, conn
  <1>9. ASSUME NEW t \in Threads, ResetTest(t) PROVE BoundInv'
    BY <1>9, BoundKept DEF ResetTest, conn
  <1>10. ASSUME NEW t \in Threads, ResetClose(t) PROVE BoundInv'
    BY <1>10, BoundClose DEF ResetClose, conn
  <1>11. ASSUME NEW t \in Threads, ResetClear(t) PROVE BoundInv'
    BY <1>11, BoundKept DEF ResetClear, Clear, conn
  <1>12. ASSUME NEW t \in Threads, Probe(t) PROVE BoundInv'
    BY <1>12, BoundKept DEF Probe, conn
  <1>13. ASSUME NEW t \in Threads, ProbeLock(t) PROVE BoundInv'
    BY <1>13, BoundKept DEF ProbeLock, conn
  <1>14. ASSUME NEW t \in Threads, ProbeOpen(t) PROVE BoundInv'
    <2>1. Owing' \in Nat
      BY OwingNat
    <2> QED  BY <1>14, BoundKept, BoundOpened, <2>1 DEF ProbeOpen, conn
  <1>15. ASSUME NEW t \in Threads, ProbeCatch(t) PROVE BoundInv'
    BY <1>15, BoundKept DEF ProbeCatch, conn
  <1>16. ASSUME NEW t \in Threads, ProbeUnlock(t) PROVE BoundInv'
    BY <1>16, BoundKept DEF ProbeUnlock, conn
  <1>17. ASSUME NEW t \in Threads, ProbeTest(t) PROVE BoundInv'
    BY <1>17, BoundKept DEF ProbeTest, conn
  <1>18. CASE UNCHANGED vars
    BY <1>18 DEF vars, conn, BoundInv, Owing, Sending, In
  <1> QED
    BY <1>1, <1>2, <1>3, <1>4, <1>5, <1>6, <1>7, <1>8,
       <1>9, <1>10, <1>11, <1>12, <1>13, <1>14, <1>15, <1>16, <1>17, <1>18
     DEF Next, Thread

(* Whatever the threads and their probes do, every variable keeps its type   *)
(* and an end point never holds more unread replies than there are threads:  *)
(* a request that fails leaves its reply behind, but somebody closes the end *)
(* point before as many again can be asked for.                              *)
THEOREM TypeCorrect == Spec => []TypeOK
<1>1. Init => BoundInv
  <2>1. Len(<<>>) = 0
    OBVIOUS
  <2> QED  BY <2>1, Disjoint, ScifAssumption DEF Init, BoundInv, Eps
<1>2. IInv /\ BoundInv /\ [Next]_vars => BoundInv'
  BY BoundStep DEF IInv
<1>3. IInv /\ BoundInv => TypeOK
  BY DEF IInv, Types, ThreadType, FlagType, ConnType, BoundInv, TypeOK
<1> QED
  BY <1>1, <1>2, <1>3, Inductive, PTL DEF Spec

-------------------------------------------------------------------------------
(* The threads never wait for each other in a circle.                        *)

(* Whoever owns the mutex is on the way to unlocking it, also when a probe   *)
(* that failed has unlocked it under another thread.                         *)
LockInv ==
  \A t \in Threads : mtx = t => pc[t] \in Critical \cup {"probe_unlock"}

LEMMA LockStep == Types /\ LockInv /\ [Next]_vars => LockInv'
  <1> SUFFICES ASSUME Types, LockInv, [Next]_vars PROVE LockInv'
    OBVIOUS
  <1> USE ScifAssumption
      DEF Types, ThreadType, Pcs, Critical, Resetting, LockInv, Go
  <1>1. ASSUME NEW t \in Threads, Call(t) PROVE LockInv'
    BY <1>1 DEF Call
  <1>2. ASSUME NEW t \in Threads, Lock(t) PROVE LockInv'
    BY <1>2 DEF Lock, Acquire
  <1>3. ASSUME NEW t \in Threads, Open(t) PROVE LockInv'
    BY <1>3 DEF Open, Opened
  <1>4. ASSUME NEW t \in Threads, Send(t) PROVE LockInv'
    BY <1>4 DEF Send, Opened, Post
  <1>5. ASSUME NEW t \in Threads, Resend(t) PROVE LockInv'
    BY <1>5 DEF Resend, Post
  <1>6. ASSUME NEW t \in Threads, Receive(t) PROVE LockInv'
    BY <1>6 DEF Receive
  <1>7. ASSUME NEW t \in Threads, Unlock(t) PROVE LockInv'
    BY <1>7 DEF Unlock, Release
  <1>8. ASSUME NEW t \in Threads, Catch(t) PROVE LockInv'
    BY <1>8 DEF Catch, Release
  <1>9. ASSUME NEW t \in Threads, ResetTest(t) PROVE LockInv'
    BY <1>9 DEF ResetTest
  <1>10. ASSUME NEW t \in Threads, ResetClose(t) PROVE LockInv'
    BY <1>10 DEF ResetClose
  <1>11. ASSUME NEW t \in Threads, ResetClear(t) PROVE LockInv'
    BY <1>11 DEF ResetClear, Clear
  <1>12. ASSUME NEW t \in Threads, Probe(t) PROVE LockInv'
    BY <1>12 DEF Probe
  <1>13. ASSUME NEW t \in Threads, ProbeLock(t) PROVE LockInv'
    BY <1>13 DEF ProbeLock, Acquire
  <1>14. ASSUME NEW t \in Threads, ProbeOpen(t) PROVE LockInv'
    BY <1>14 DEF ProbeOpen, Opened
  <1>15. ASSUME NEW t \in Threads, ProbeCatch(t) PROVE LockInv'
    BY <1>15 DEF ProbeCatch, Release
  <1>16. ASSUME NEW t \in Threads, ProbeUnlock(t) PROVE LockInv'
    BY <1>16 DEF ProbeUnlock, Release
  <1>17. ASSUME NEW t \in Threads, ProbeTest(t) PROVE LockInv'
    BY <1>17 DEF ProbeTest
  <1>18. CASE UNCHANGED vars
    BY <1>18 DEF vars, conn
  <1> QED
    BY <1>1, <1>2, <1>3, <1>4, <1>5, <1>6, <1>7, <1>8,
       <1>9, <1>10, <1>11, <1>12, <1>13, <1>14, <1>15, <1>16, <1>17, <1>18
     DEF Next, Thread

(* A thread in a call goes on when the mutex is free, and its owner does     *)
(* when it is not.                                                           *)
THEOREM WaitCorrect == Spec => []NobodyStuck
<1>1. Init => LockInv
  BY ScifAssumption DEF Init, LockInv
<1>2. IInv /\ LockInv /\ [Next]_vars => LockInv'
  BY LockStep DEF IInv
<1>3. Spec => []LockInv
  BY <1>1, <1>2, Inductive, PTL DEF Spec
<1>4. IInv /\ LockInv => NobodyStuck
  BY ScifAssumption DEF IInv, Types, ThreadType, LockInv, NobodyStuck, Moves, Critical
<1> QED
  BY <1>3, <1>4, Inductive, PTL
===============================================================================
