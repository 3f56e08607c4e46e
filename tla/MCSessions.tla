---------------------------- MODULE MCSessions ----------------------------
(* Bounded instances of Sessions for TLC. *)
EXTENDS Sessions

CONSTANTS t1, t2, l1, l2, s1, s2
===========================================================================
