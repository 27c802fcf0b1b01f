----------------------------- MODULE LockCalls -----------------------------
(***************************************************************************)
(* The remote calls between the caching lock clients and the lock server:  *)
(* acquire and release requests (lock_protocol) with the server's handler  *)
(* of each, and the revoke and retry callbacks (rlock_protocol) that those *)
(* handlers make.  The modules LockClientCache and LockServerCache share   *)
(* this state; LockCache composes them.                                    *)
(*                                                                         *)
(* A call is followed from the moment it is sent to the moment its reply   *)
(* is consumed.  The RPC library gives up on a call after rpcc::to_max; the*)
(* caller then goes on while the request, its handler or its callback may  *)
(* still take effect.  Such an abandoned call keeps its slot, with live    *)
(* FALSE, until the handler ends; an abandoned callback is counted in late.*)
(***************************************************************************)
EXTENDS Integers, Sequences, FiniteSets

CONSTANTS Clients,      \* lock_client_cache objects (their id is host:port)
          Locks,        \* lock ids
          Workers,      \* application threads
          ClientOf,     \* the lock_client_cache each worker calls
          None,         \* no client, or no lock
          MaxTimeouts   \* bound: how many calls may time out

ASSUME LockCallsAssumption ==
  /\ Clients \cap Workers = {}
  /\ None \notin Clients \cup Locks
  /\ ClientOf \in [Workers -> Clients]
  /\ MaxTimeouts \in Nat

VARIABLES call,         \* the calls to the lock server, by slot
          late,         \* abandoned callbacks that have not run yet
          timeouts      \* calls that timed out so far

callVars == <<call, late, timeouts>>

(* The thread running give_back() of client c is named c.                  *)
Threads == Workers \cup Clients
Home(t) == IF t \in Clients THEN t ELSE ClientOf[t]

(* One slot for a thread's current call, the others for abandoned ones.    *)
Slots == Threads \X (0..MaxTimeouts)
Caller(k) == k[1]
Source(k) == Home(k[1])

(* acquire: sent, handler not past the mutex; owner: handler about to read *)
(* the owner; revoke: waiting for the revoke callback; release: sent,      *)
(* handler not past the mutex; retry: waiting for the retry callback.  The *)
(* replies to acquire are OK, RETRY, RPCERR; DONE is the reply to release. *)
Replies == {"OK", "RETRY", "RPCERR", "DONE"}
CallStates == {"idle", "acquire", "owner", "revoke", "release", "retry"}
                \cup Replies
Callbacks == {"revoke", "retry"}
Call == [st : CallStates, lid : Locks \cup {None},
         peer : Clients \cup {None}, live : BOOLEAN]

Idle == [st |-> "idle", lid |-> None, peer |-> None, live |-> FALSE]

CallsTypeOK ==
  /\ call \in [Slots -> Call]
  /\ late \in [Callbacks \X Clients \X Locks -> Nat]
  /\ timeouts \in 0..MaxTimeouts

CallsInit ==
  /\ call = [k \in Slots |-> Idle]
  /\ late = [x \in Callbacks \X Clients \X Locks |-> 0]
  /\ timeouts = 0

(* cl->call(...) is sent on the first free slot of thread t.               *)
Send(t, st, l) ==
  \E n \in 0..MaxTimeouts :
    /\ call[<<t, n>>].st = "idle"
    /\ \A m \in 0..(n - 1) : call[<<t, m>>].st # "idle"
    /\ call' = [call EXCEPT ![<<t, n>>] =
                  [st |-> st, lid |-> l, peer |-> None, live |-> TRUE]]

(* Call k in another state, with another client to call back.              *)
Changed(k, st, c, live) ==
  [st |-> st, lid |-> call[k].lid, peer |-> c, live |-> live]

(* The handler of call k goes on, to call client c back.                   *)
Proceed(k, st, c) ==
  call' = [call EXCEPT ![k] = Changed(k, st, c, call[k].live)]

(* The handler of call k returns; nobody reads the reply of an abandoned   *)
(* call.                                                                   *)
Reply(k, st) ==
  call' = [call EXCEPT ![k] = IF call[k].live THEN Changed(k, st, None, TRUE)
                              ELSE Idle]

(* The caller of k consumes its reply.                                     *)
Consume(k) == call' = [call EXCEPT ![k] = Idle]

(* The caller of k stops waiting for it (rpc_const::timeout_failure).      *)
Abandon(k) ==
  /\ timeouts < MaxTimeouts
  /\ timeouts' = timeouts + 1
  /\ call[k].live
  /\ call' = [call EXCEPT ![k] =
                 IF call[k].st \in Replies THEN Idle
                 ELSE Changed(k, call[k].st, call[k].peer, FALSE)]

(* The handler of k stops waiting for its callback, which may still run if *)
(* there was a client to call.                                             *)
AbandonCallback(k) ==
  LET x == <<call[k].st, call[k].peer, call[k].lid>>
  IN /\ timeouts < MaxTimeouts
     /\ timeouts' = timeouts + 1
     /\ late' = IF call[k].peer = None THEN late
                ELSE [late EXCEPT ![x] = @ + 1]
=============================================================================
