----------------------------- MODULE MCLocalPump -----------------------------
(* A small instance of LocalPump on its own, for TLC.                      *)
EXTENDS LocalPump

CONSTANTS c1, c2, t1, t2, p1
==============================================================================
