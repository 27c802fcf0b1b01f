---------------------------- MODULE MCHandleMgr ----------------------------
(* A small instance of HandleMgr for TLC: three handlers and two clients,  *)
(* one of which may restart and be away while the other always answers.    *)
EXTENDS HandleMgr

CONSTANT Restless   \* the client that may be away

OneRestless == failed' \subseteq {Restless} /\ \A m \in Names \ {Restless} : instance'[m] = 1
=============================================================================
