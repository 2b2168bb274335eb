------------------------------- MODULE MCFlash1 -------------------------------
EXTENDS Flash1

Intact == [kind |-> "both", fits |-> TRUE, older |-> FALSE, odd |-> "nothing"]

(* The images an update can tell apart: what follows a failing check of the *)
(* image is never looked at.                                                 *)
MCImages == {i \in Images :
               /\ i.kind \in {"bad", "smc"} => i = [Intact EXCEPT !.kind = i.kind]
               /\ ~i.fits => ~i.older /\ i.odd = "nothing"
               /\ i.odd # "nothing" => ~i.older}

(* --test makes --maintmode and --noreset redundant. *)
MCOptions(j) == j.test_mode => ~j.maint_mode /\ ~j.no_reset

UpdateJobs == {j \in Job : j.cmd = "update" /\ j.image \in MCImages /\ MCOptions(j)}

(* Every way to read the card: the options of an update do not apply. *)
ReadJobs == {j \in Job : /\ j.cmd # "update" /\ MCOptions(j)
                         /\ ~j.smc_bootloader /\ ~j.oldimage
                         /\ j.image = Intact}

SafetyJobs == UpdateJobs \cup ReadJobs

(* One update of both parts, one read. *)
LiveJobs == {j \in UpdateJobs \cup ReadJobs :
               /\ j.cmd \in {"update", "read"} /\ j.image = Intact
               /\ ~j.test_mode /\ ~j.maint_mode /\ ~j.no_reset
               /\ ~j.smc_bootloader /\ ~j.oldimage}
===============================================================================
