------------------------------ MODULE MCScifConn ------------------------------
EXTENDS ScifConn

CONSTANTS t1, t2

Two == {t1, t2}
===============================================================================
