---------------------------- MODULE MCYfsClient ----------------------------
(* A small instance of YfsClient for TLC.                                  *)
EXTENDS YfsClient

CONSTANTS c1, c2, root, d1, f1, f2, a, b, data

MCClients == {c1, c2}
MCDirs    == {root, d1}
TwoFiles  == {f1, f2}
MCNames   == {<<a>>, <<b>>}
MCData    == <<data>>
AllOps    == TwoLocks \cup OneLock
=============================================================================
