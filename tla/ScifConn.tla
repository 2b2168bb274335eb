------------------------------- MODULE ScifConn -------------------------------
(***************************************************************************)
(* The SCIF connection of a device handle (miclib/src/host_platform.cpp):  *)
(* RAS requests of several threads over one end point, opened on demand    *)
(* and reset after an error, and the probe is_ras_avail().                 *)
(***************************************************************************)
EXTENDS Integers, Sequences, FiniteSets

CONSTANTS Threads,    \* the threads that share the handle (finitely many)
          MaxEps      \* end points the process can have open

ASSUME ScifAssumption ==
  /\ IsFiniteSet(Threads) /\ MaxEps \in Nat \ {0}
  /\ "free" \notin Threads /\ "none" \notin Threads

VARIABLES
  pc,        \* where each thread is
  mtx,       \* the owner of _mutex
  ep,        \* _scif_ep
  inited,    \* _scif_inited
  open,      \* the end points that are open
  inbox,     \* for each end point, whose replies it still holds
  got,       \* whose reply the last request of a thread returned
  late,      \* whether another thread had still to reset the connection when
             \* the thread took the mutex (history)
  stolen     \* a thread has unlocked the mutex while another held it (history)

conn == <<ep, inited, open, inbox>>
vars == <<pc, mtx, conn, got, late, stolen>>

Eps == 1..MaxEps

Init ==
  /\ pc = [t \in Threads |-> "idle"] /\ mtx = "free"
  /\ ep = 0 /\ inited = FALSE
  /\ open = {} /\ inbox = [e \in Eps |-> <<>>]
  /\ got = [t \in Threads |-> "none"]
  /\ late = [t \in Threads |-> FALSE] /\ stolen = FALSE

(* Threads that gave the mutex up and have still to reset the connection.    *)
Resetting == {"reset", "close", "clear"}

Go(t, p) == pc' = [pc EXCEPT ![t] = p]

-------------------------------------------------------------------------------
(* pthread_mutex_lock() and unlock(), and scif_open_conn().                  *)

(* Mutant: requests are not serialized. *)
Acquire_None(t) == UNCHANGED mtx
Acquire(t) == mtx = "free" /\ mtx' = t

(* A default mutex is set free by whichever thread unlocks it.               *)
Release == mtx' = "free"

(* The kernel gives out the smallest descriptor that is not in use.          *)
Opened(e) ==
  /\ e \in Eps \ open /\ \A f \in Eps \ open : e <= f
  /\ ep' = e /\ inited' = TRUE
  /\ open' = open \cup {e}
  /\ inbox' = [inbox EXCEPT ![e] = <<>>]

-------------------------------------------------------------------------------
(* A request: scif_request().                                                *)

Call(t) ==
  /\ pc[t] = "idle"
  /\ Go(t, "lock")
  /\ got' = [got EXCEPT ![t] = "none"]
  /\ UNCHANGED <<mtx, conn, late, stolen>>

Lock(t) ==
  /\ pc[t] = "lock"
  /\ Acquire(t)
  /\ Go(t, IF inited THEN "send" ELSE "open")
  /\ late' = [late EXCEPT ![t] = \E u \in Threads \ {t} : pc[u] \in Resetting]
  /\ UNCHANGED <<conn, got, stolen>>

Open(t) ==
  /\ pc[t] = "open"
  /\ \/ (\E e \in Eps : Opened(e)) /\ Go(t, "send")
     \/ Go(t, "catch_scif") /\ UNCHANGED conn
  /\ UNCHANGED <<mtx, got, late, stolen>>

(* The card answers every request on the connection it came by, in order.   *)
Post(t, e, box) == [box EXCEPT ![e] = Append(@, t)]

(* Sending fails on a closed end point. If the peer has reset the           *)
(* connection a new one is opened and the request is sent once more.         *)
Send(t) ==
  /\ pc[t] = "send"
  /\ \/ /\ ep \in open
        /\ inbox' = Post(t, ep, inbox)
        /\ Go(t, "receive") /\ UNCHANGED <<ep, inited, open>>
     \/ /\ ep \in open
        /\ (\E e \in Eps : Opened(e)) /\ Go(t, "resend")
     \/ Go(t, "catch_scif") /\ UNCHANGED conn
  /\ UNCHANGED <<mtx, got, late, stolen>>

Resend(t) ==
  /\ pc[t] = "resend"
  /\ \/ /\ ep \in open
        /\ inbox' = Post(t, ep, inbox)
        /\ Go(t, "receive") /\ UNCHANGED <<ep, inited, open>>
     \/ Go(t, "catch_scif") /\ UNCHANGED conn
  /\ UNCHANGED <<mtx, got, late, stolen>>

(* The next reply of the end point is taken: its header names neither the   *)
(* thread nor, unless it is an error record, the command. A reply of the    *)
(* wrong length, or a failing call, leaves the rest of it unread.            *)
Receive(t) ==
  /\ pc[t] = "receive"
  /\ \/ /\ ep \in open /\ inbox[ep] # <<>>
        /\ inbox' = [inbox EXCEPT ![ep] = Tail(@)]
        /\ \/ /\ got' = [got EXCEPT ![t] = Head(inbox[ep])]
              /\ Go(t, "unlock")
           \/ Go(t, "catch_ras") /\ UNCHANGED got
        /\ UNCHANGED <<ep, inited, open>>
     \/ Go(t, "catch_scif") /\ UNCHANGED <<conn, got>>
  /\ UNCHANGED <<mtx, late, stolen>>

Unlock(t) ==
  /\ pc[t] = "unlock"
  /\ Release
  /\ Go(t, "idle")
  /\ UNCHANGED <<conn, got, late, stolen>>

(* Mutant: an error leaves the connection as it is. *)
Catch_NoReset(t) ==
  /\ Release
  /\ pc[t] \in {"catch_scif", "catch_ras"} /\ Go(t, "idle")
  /\ UNCHANGED <<conn, got, late, stolen>>

(* The catch clause gives the mutex up first and resets the connection, if  *)
(* that is what failed, afterwards.                                          *)
Catch(t) ==
  /\ Release
  /\ \/ pc[t] = "catch_scif" /\ Go(t, "reset")
     \/ pc[t] = "catch_ras" /\ Go(t, "idle")
  /\ UNCHANGED <<conn, got, late, stolen>>

ResetTest(t) ==
  /\ pc[t] = "reset"
  /\ Go(t, IF inited THEN "close" ELSE "clear")
  /\ UNCHANGED <<mtx, conn, got, late, stolen>>

ResetClose(t) ==
  /\ pc[t] = "close"
  /\ open' = open \ {ep}
  /\ inbox' = IF ep \in open THEN [inbox EXCEPT ![ep] = <<>>] ELSE inbox
  /\ Go(t, "clear")
  /\ UNCHANGED <<mtx, ep, inited, got, late, stolen>>

(* Mutant: the end point stays marked as usable. *)
Clear_Kept == UNCHANGED inited
Clear == inited' = FALSE

(* Mutant: the request is made again, as often as it fails. *)
ResetClear_Retry(t) ==
  /\ pc[t] = "clear"
  /\ Clear
  /\ Go(t, "lock")
  /\ UNCHANGED <<mtx, ep, open, inbox, got, late, stolen>>

ResetClear(t) ==
  /\ pc[t] = "clear"
  /\ Clear
  /\ Go(t, "idle")
  /\ UNCHANGED <<mtx, ep, open, inbox, got, late, stolen>>

-------------------------------------------------------------------------------
(* The probe: is_ras_avail().                                                *)

(* _scif_inited is tested without the mutex; a connection that is there is  *)
(* used by a request.                                                        *)
Probe(t) ==
  /\ pc[t] = "idle"
  /\ Go(t, IF inited THEN "lock" ELSE "probe_lock")
  /\ got' = [got EXCEPT ![t] = "none"]
  /\ UNCHANGED <<mtx, conn, late, stolen>>

ProbeLock(t) ==
  /\ pc[t] = "probe_lock"
  /\ Acquire(t)
  /\ Go(t, "probe_open")
  /\ UNCHANGED <<conn, got, late, stolen>>

ProbeOpen(t) ==
  /\ pc[t] = "probe_open"
  /\ \/ (\E e \in Eps : Opened(e)) /\ Go(t, "probe_unlock")
     \/ /\ inited' = FALSE /\ UNCHANGED <<ep, open, inbox>>
        /\ Go(t, "probe_catch")
  /\ UNCHANGED <<mtx, got, late, stolen>>

(* The error is thrown on or, when the card is not there, the function goes *)
(* on and unlocks the mutex once more.                                       *)
ProbeCatch(t) ==
  /\ pc[t] = "probe_catch"
  /\ Release
  /\ \/ Go(t, "idle")
     \/ Go(t, "probe_unlock")
  /\ UNCHANGED <<conn, got, late, stolen>>

ProbeUnlock(t) ==
  /\ pc[t] = "probe_unlock"
  /\ Release
  /\ stolen' = (stolen \/ mtx \notin {t, "free"})
  /\ Go(t, "probe_test")
  /\ UNCHANGED <<conn, got, late>>

ProbeTest(t) ==
  /\ pc[t] = "probe_test"
  /\ Go(t, IF inited THEN "lock" ELSE "idle")
  /\ UNCHANGED <<mtx, conn, got, late, stolen>>

-------------------------------------------------------------------------------
Thread(t) ==
  \/ Lock(t) \/ Open(t) \/ Send(t) \/ Resend(t) \/ Receive(t) \/ Unlock(t)
  \/ Catch(t) \/ ResetTest(t) \/ ResetClose(t) \/ ResetClear(t)
  \/ ProbeLock(t) \/ ProbeOpen(t) \/ ProbeCatch(t) \/ ProbeUnlock(t)
  \/ ProbeTest(t)

Next == \E t \in Threads : Call(t) \/ Probe(t) \/ Thread(t)

Spec == Init /\ [][Next]_vars

(* Every thread is scheduled, SCIF calls return, and a mutex that is free   *)
(* again and again is got.                                                   *)
FairSpec ==
  /\ Spec
  /\ \A t \in Threads : /\ WF_vars(Thread(t))
                        /\ SF_vars(Lock(t)) /\ SF_vars(ProbeLock(t))

-------------------------------------------------------------------------------
(* Properties.                                                               *)

Critical == {"open", "send", "resend", "receive", "unlock", "catch_scif", "catch_ras",
             "probe_open", "probe_catch"}
Pcs == {"idle", "lock", "probe_lock", "probe_unlock", "probe_test"}
         \cup Critical \cup Resetting

(* The type of every variable; an end point holds a reply for each thread   *)
(* at most.                                                                  *)
TypeOK ==
  /\ pc \in [Threads -> Pcs]
  /\ mtx \in Threads \cup {"free"}
  /\ ep \in 0..MaxEps /\ inited \in BOOLEAN
  /\ open \subseteq Eps
  /\ inbox \in [Eps -> Seq(Threads)]
  /\ \A e \in Eps : Len(inbox[e]) <= Cardinality(Threads)
  /\ got \in [Threads -> Threads \cup {"none"}]
  /\ late \in [Threads -> BOOLEAN] /\ stolen \in BOOLEAN

(* Requests are serialized: one thread at a time works on the connection,    *)
(* unless a probe that failed has unlocked the mutex under another thread.   *)
MutualExclusion ==
  ~stolen => \A t, u \in Threads : pc[t] \in Critical /\ pc[u] \in Critical => t = u

(* A request returns its own reply, never what an earlier one left behind,  *)
(* as long as the mutex protects it.                                         *)
OwnReply == ~stolen => \A t \in Threads : got[t] \in {"none", t}

(* A request that took the mutex when no other thread had still to reset the *)
(* connection works with an open end point and returns its own reply, as     *)
(* long as the mutex protects it.                                            *)
CleanUnlessLate ==
  \A t \in Threads : ~late[t] /\ ~stolen =>
    /\ got[t] \in {"none", t}
    /\ pc[t] \in {"send", "resend", "receive"} => ep \in open

(* Whether a thread in a call has a step to take: one that waits for the    *)
(* mutex has none until it is free.                                         *)
Moves(t) == pc[t] # "idle" /\ (pc[t] \in {"lock", "probe_lock"} => mtx = "free")

(* While a call is under way some thread in a call can go on, also after a  *)
(* mutex was unlocked twice: nobody leaves a call with the mutex locked.    *)
NobodyStuck == (\E t \in Threads : pc[t] # "idle") => \E t \in Threads : Moves(t)

(* Every call returns, a request as well as a probe, also after a failed      *)
(* probe has unlocked the mutex twice: the connections of all threads may    *)
(* fail and be reset under each other, but nobody waits for the mutex, or    *)
(* repeats a failing request, forever.                                       *)
Returns == \A t \in Threads : pc[t] # "idle" ~> pc[t] = "idle"
===============================================================================
