----------------------------- MODULE LockCache -----------------------------
(***************************************************************************)
(* The caching lock service: lock clients and lock server composed.        *)
(*                                                                         *)
(* Each lock is a token that should be in one place at a time: held by a   *)
(* thread, cached by a client, on its way back to the server (being        *)
(* flushed, or in a release request), on its way to a client (in an OK     *)
(* reply), or at the server.                                               *)
(***************************************************************************)
EXTENDS LockClientCache, LockServerCache

vars == <<callVars, clientVars, serverVars>>

Init == CallsInit /\ ClientInit /\ ServerInit

(* The callbacks run in the client and end in the server's handler.        *)
Revoke(k) ==
  /\ ServerRevokeOK(k)
  /\ revoke_handler(call[k].peer, call[k].lid)

Retry(k) ==
  /\ ServerRetryReturns(k)
  /\ retry_handler(call[k].peer, call[k].lid)

(* Callbacks the server no longer waits for.                               *)
LateRevoke(c, l) ==
  /\ late[<<"revoke", c, l>>] > 0
  /\ late' = [late EXCEPT ![<<"revoke", c, l>>] = @ - 1]
  /\ revoke_handler(c, l)
  /\ UNCHANGED <<call, timeouts, serverVars>>

LateRetry(c, l) ==
  /\ late[<<"retry", c, l>>] > 0
  /\ late' = [late EXCEPT ![<<"retry", c, l>>] = @ - 1]
  /\ retry_handler(c, l)
  /\ UNCHANGED <<call, timeouts, serverVars>>

ClientStep ==
  /\ \/ \E w \in Workers, l \in Locks : Acquire(w, l) \/ Release(w, l)
     \/ \E t \in Threads : SendRelease(t)
     \/ \E k \in Slots : AcquireReply(k) \/ ReleaseReply(k)
     \/ \E k \in Slots : AcquireTimesOut(k) \/ ReleaseTimesOut(k)
     \/ \E c \in Clients : GiveBackTake(c)
     \/ \E c \in Clients, l \in Locks : GiveBackCheck(c, l)
  /\ UNCHANGED serverVars

ServerStep ==
  /\ \E k \in Slots : \/ ServerAcquire(k)
                      \/ ServerReadOwner(k)
                      \/ ServerRevokeFails(k)
                      \/ ServerRelease(k)
                      \/ ServerRetryTimesOut(k)
  /\ UNCHANGED clientVars

CallbackStep ==
  \/ \E k \in Slots : Revoke(k) \/ Retry(k)
  \/ \E c \in Clients, l \in Locks : LateRevoke(c, l) \/ LateRetry(c, l)

Next == ClientStep \/ ServerStep \/ CallbackStep

Spec == Init /\ [][Next]_vars
-----------------------------------------------------------------------------
(* Every variable keeps its type.                                          *)
TypeOK == CallsTypeOK /\ ClientTypeOK /\ ServerTypeOK

(* The places where the token of lock l can be, with the client they       *)
(* belong to.                                                              *)
Place == UNION {{<<"held", w>> : w \in Workers}, {<<"cached", c>> : c \in Clients},
                {<<"flush", t>> : t \in Threads}, {<<"call", k>> : k \in Slots}}

HasToken(p, l) ==
  \/ p[1] = "held"   /\ l \in held[p[2]]
  \/ p[1] = "cached" /\ lockstate_map[p[2]][l] = "FREE"
  \/ p[1] = "flush"  /\ pc[p[2]] = "flush" /\ arg[p[2]] = l
  \/ p[1] = "call"   /\ call[p[2]].st \in {"OK", "release"} /\ call[p[2]].lid = l

OwnerOf(p) == IF p[1] = "call" THEN Source(p[2]) ELSE Home(p[2])

(* No lock is held by two threads, of one client or of two (acquire() and  *)
(* release() in lock_client_cache.cc).                                     *)
MutualExclusion ==
  \A v, w \in Workers : v # w => held[v] \cap held[w] = {}

(* Two threads hold a lock only after some give_back() overwrote the state *)
(* of a lock that was no longer FREE: the unprotected read at              *)
(* lock_client_cache.cc:26 is the only way to break mutual exclusion,      *)
(* timeouts and late callbacks included.                                   *)
MutualExclusionUnlessOvertaken == ~overtaken => MutualExclusion

TokenPlaces(l) == {p \in Place : HasToken(p, l)}

(* A lock's token is in at most one place, and then the server's           *)
(* where_is_lock names the client it belongs to.                           *)
TokenUnique ==
  ~overtaken =>
    \A l \in Locks :
      LET places == TokenPlaces(l)
      IN \A p \in places : /\ where_is_lock[l] = OwnerOf(p)
                           /\ \A q \in places : p = q

(* A client flushes the extent of a lock (dorelease() in release() and     *)
(* give_back()) only while the lock is still its own at the server and no  *)
(* thread holds it or finds it cached: what extent_client.cc:10 asks for.  *)
FlushUnderLock ==
  ~overtaken =>
    \A t \in Threads :
      pc[t] = "flush" =>
        /\ where_is_lock[arg[t]] = Home(t)
        /\ \A w \in Workers : arg[t] \notin held[w]
        /\ \A c \in Clients : lockstate_map[c][arg[t]] # "FREE"

(* The token of each lock as LockToken sees it.                            *)
TokenAt(p) ==
  CASE p[1] = "held"   -> [at |-> "held", by |-> p[2]]
    [] p[1] = "cached" -> [at |-> "cached", by |-> p[2]]
    [] p[1] = "flush"  -> [at |-> "flush", by |-> Home(p[2])]
    [] p[1] = "call"   -> [at |-> IF call[p[2]].st = "OK" THEN "granted"
                                  ELSE "released", by |-> Source(p[2])]

TokenMap ==
  [l \in Locks |->
     IF \E p \in Place : HasToken(p, l)
     THEN TokenAt(CHOOSE p \in Place : HasToken(p, l))
     ELSE IF where_is_lock[l] = None THEN [at |-> "server", by |-> None]
     ELSE [at |-> "lost", by |-> None]]

Abstract == INSTANCE LockToken WITH token <- TokenMap

(* As long as every give_back() finds the lock still FREE, the protocol of *)
(* lock_client_cache.cc and lock_server_cache.cc moves each lock only as   *)
(* LockToken allows: one owner, a flush before the lock leaves a client,   *)
(* no way back from lost.                                                  *)
ImplementsLockToken ==
  Abstract!Init /\ [][~overtaken' => UNCHANGED TokenMap \/ Abstract!Next]_vars

(* The server's release() does not look at who calls it.  Yet it takes a   *)
(* lock only from the client whose call is being handled: no release sent  *)
(* earlier, late or abandoned, takes a lock from its next owner.           *)
ReleasedByOwner ==
  [][~overtaken =>
       \A l \in Locks :
         where_is_lock[l] # None /\ where_is_lock'[l] # where_is_lock[l] =>
           /\ where_is_lock'[l] = None
           /\ \E k \in Slots : /\ call[k].st = "release"
                               /\ call[k].lid = l
                               /\ call'[k] # call[k]
                               /\ Source(k) = where_is_lock[l]]_vars

(* As long as no call has timed out, a lock the server has handed out is   *)
(* still somewhere: it can be used or given back (give_back(),             *)
(* lock_client_cache.cc:19).                                               *)
LockNotLost ==
  ~overtaken /\ timeouts = 0 =>
    \A l \in Locks : where_is_lock[l] # None => TokenPlaces(l) # {}

(* A thread that sleeps in acquire() for a lock its client does not have   *)
(* is not forgotten: the client is on the waiting list, or its turn has    *)
(* come and the retry is on its way, or another thread of the client is    *)
(* asking the server.  A call that timed out may leave one forgotten.      *)
SleeperIsRemembered ==
  ~overtaken /\ timeouts = 0 =>
    \A w \in Workers :
      LET c == ClientOf[w]
          l == arg[w]
      IN pc[w] = "waiting" =>
           \/ \E p \in TokenPlaces(l) : OwnerOf(p) = c
           \/ Waits(who_waiting_lock[l], c)
           \/ \E k \in Slots : call[k].st = "retry" /\ call[k].peer = c
                                                  /\ call[k].lid = l
           \/ \E v \in Workers \ {w} : /\ ClientOf[v] = c
                                        /\ arg[v] = l
                                        /\ pc[v] # "waiting"

(* A waiting list is only served when the lock comes back, so a lock with  *)
(* waiters is never idle at the server: someone has it, or a client that   *)
(* was told to retry is about to ask for it.  Once a call has timed out,   *)
(* the one that was told to retry may be a client that gave up.            *)
WaitersHaveAPredecessor ==
  ~overtaken /\ timeouts = 0 =>
    \A l \in Locks :
      who_waiting_lock[l] # <<>> /\ where_is_lock[l] = None =>
        \/ \E k \in Slots : call[k].lid = l /\ call[k].st = "retry"
        \/ \E w \in Workers : arg[w] = l /\ pc[w] \in {"woken", "retest", "acquiring"}
=============================================================================
