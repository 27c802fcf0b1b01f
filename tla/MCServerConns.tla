--------------------------- MODULE MCServerConns ---------------------------
(* A small instance of ServerConns for TLC.                                *)
EXTENDS ServerConns

CONSTANTS k1, w1, w2

TwoClients == {k1, Anonymous}
TwoWorkers == {w1, w2}

(* The last connection shows that descriptors are used again: the client   *)
(* of the first one makes it, after one PDU at most, and the server stays  *)
(* up.                                                                     *)
LastIsQuiet ==
  made' = MaxConns => pdus' <= 1 /\ phase' = "up" /\ owner'[made'] = owner'[1]

(* A client with nonce 0 connects once: nothing in the server connects two *)
(* of its connections.                                                     *)
AnonymousOnce ==
  \A c, d \in 1..made' : owner'[c] = Anonymous /\ owner'[d] = Anonymous => c = d

(* The workers are interchangeable whenever both are idle: let the first   *)
(* of them take the next job.                                              *)
FirstTakes ==
  (worker[w1] = IdleWorker /\ worker[w2] = IdleWorker) => worker'[w2] = IdleWorker
=============================================================================
