---------------------------- MODULE MCLockServer ----------------------------
(* A small instance of LockServer for TLC.                                 *)
EXTENDS LockServer

CONSTANTS t1, t2, t3, l1, l2

ThreeCallers == {t1, t2, t3}
TwoLocks == {l1, l2}
=============================================================================
