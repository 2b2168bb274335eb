------------------------------ MODULE MCMicInfo -------------------------------
EXTENDS MicInfo

TwoCards == 0..1
===============================================================================
