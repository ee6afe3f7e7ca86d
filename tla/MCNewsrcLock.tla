---------------------------- MODULE MCNewsrcLock ----------------------------
(***************************************************************************)
(* NewsrcLock on small instances: two or three pids, the first two on one  *)
(* host, and access files of one or two entries.                           *)
(***************************************************************************)
EXTENDS NewsrcLock, TLC

CONSTANTS p1, p2, p3, f1, f2

TwoHosts == [p \in Proc |-> IF p = p3 THEN "there" ELSE "here"]

TwoFiles == <<f1, f2>>

=============================================================================
