----------------------------- MODULE MCRpcCall -----------------------------
(* A small instance of RpcCall: two threads that share the rpcc.           *)
EXTENDS RpcCall

CONSTANTS t1, t2

TwoCallers == {t1, t2}

(* The threads are interchangeable whenever both are between two calls:    *)
(* let the first of them make the next one.                                *)
FirstCalls == (cur[t1] = 0 /\ cur[t2] = 0) => cur'[t2] = 0

(* Once the server has been started anew it answers every request of this  *)
(* rpcc alike: two calls show it.                                          *)
RestartIsQuiet == restarts' > 0 => xid' <= 3
=============================================================================
