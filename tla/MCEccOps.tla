------------------------------- MODULE MCEccOps -------------------------------
EXTENDS EccOps, TLC

CONSTANTS a1, a2, c1, c2

TwoAreas == {a1, a2}
TwoCards == {c1, c2}
OneEach == a1 :> c1 @@ a2 :> c2

(* micsmc --ecc enable mic0 mic0 *)
SameCard == a1 :> c1 @@ a2 :> c1

Quiet == {FALSE}
Either == {FALSE, TRUE}
===============================================================================
