-------------------------- MODULE LockClientCache --------------------------
(***************************************************************************)
(* The caching lock client (lock_client_cache.cc): acquire() and release() *)
(* called by application threads, the give_back() thread that returns      *)
(* unused locks, and the handlers of the server's revoke and retry.        *)
(*                                                                         *)
(* A critical section of lockmap_mutex with no remote call inside is one   *)
(* step.  acquire() keeps the mutex during its remote call, so the mutex   *)
(* is part of the state.  give_back() reads the state of a lock before it  *)
(* takes the mutex, so the read is a step of its own.                      *)
(***************************************************************************)
EXTENDS LockCalls

VARIABLES lockstate_map,   \* the state of each lock at each client
          lockmap_mutex,   \* whether the client's mutex is locked
          pc,              \* where each thread is
          arg,             \* the lock it is working on
          held,            \* the locks each worker has acquired
          overtaken        \* history: a give_back() overwrote a state other
                           \* than the FREE it had seen

clientVars == <<lockstate_map, lockmap_mutex, pc, arg, held, overtaken>>

(* ABSENT: the lock has no entry in the maps.                              *)
LockStates == {"ABSENT", "NONE", "FREE", "LOCKED", "ACQUIRING", "RELEASING"}

(* waiting: in pthread_cond_wait; woken: signalled, to lock the mutex      *)
(* again; retest: at the head of the loop with the mutex still held;       *)
(* acquiring, releasing: in the remote call; giveback: give_back() has seen*)
(* FREE; flush: in dorelease().                                            *)
PCs == {"idle", "waiting", "woken", "retest", "acquiring", "giveback",
        "flush", "releasing"}

ClientTypeOK ==
  /\ lockstate_map \in [Clients -> [Locks -> LockStates]]
  /\ lockmap_mutex \in [Clients -> BOOLEAN]
  /\ pc \in [Threads -> PCs]
  /\ arg \in [Threads -> Locks \cup {None}]
  /\ held \in [Workers -> SUBSET Locks]
  /\ overtaken \in BOOLEAN

ClientInit ==
  /\ lockstate_map = [c \in Clients |-> [l \in Locks |-> "ABSENT"]]
  /\ lockmap_mutex = [c \in Clients |-> FALSE]
  /\ pc = [t \in Threads |-> "idle"]
  /\ arg = [t \in Threads |-> None]
  /\ held = [w \in Workers |-> {}]
  /\ overtaken = FALSE

SetLock(c, l, s) == lockstate_map' = [lockstate_map EXCEPT ![c][l] = s]
SetMutex(c, b) == lockmap_mutex' = [lockmap_mutex EXCEPT ![c] = b]

(* pthread_cond_broadcast(&lock_cv_map[l]) at client c, as the new pc of   *)
(* every thread.                                                           *)
Woken(c, l) ==
  [t \in Threads |-> IF pc[t] = "waiting" /\ Home(t) = c /\ arg[t] = l
                     THEN "woken" ELSE pc[t]]

GoTo(t, p, l) ==
  /\ pc' = [pc EXCEPT ![t] = p]
  /\ arg' = [arg EXCEPT ![t] = l]

(* Mutant of Acquire: a lock in use by another thread of the client counts *)
(* as cached.                                                              *)
AcquireShared(w, l) ==
  LET c == ClientOf[w]
  IN /\ pc[w] = "idle" /\ l \notin held[w] /\ ~lockmap_mutex[c]
     /\ IF lockstate_map[c][l] \in {"FREE", "LOCKED"}
        THEN /\ SetLock(c, l, "LOCKED")
             /\ held' = [held EXCEPT ![w] = @ \cup {l}]
             /\ UNCHANGED <<lockmap_mutex, pc, arg, call>>
        ELSE /\ SetLock(c, l, "NONE")
             /\ SetMutex(c, TRUE)
             /\ GoTo(w, "acquiring", l)
             /\ Send(w, "acquire", l)
             /\ UNCHANGED held
     /\ UNCHANGED <<overtaken, late, timeouts>>

(* acquire(), up to its return, its wait or its remote call: one round of  *)
(* the loop, entered by a new call, after a wake-up, or again with the     *)
(* mutex still held.  A cached lock is taken; a lock that is in use or on  *)
(* its way is waited for; otherwise the server is asked, mutex held.       *)
Acquire(w, l) ==
  LET c == ClientOf[w]
  IN /\ \/ pc[w] = "idle" /\ l \notin held[w] /\ ~lockmap_mutex[c]
        \/ pc[w] = "woken" /\ l = arg[w] /\ ~lockmap_mutex[c]
        \/ pc[w] = "retest" /\ l = arg[w]
     /\ \/ /\ lockstate_map[c][l] = "FREE"
           /\ SetLock(c, l, "LOCKED")
           /\ SetMutex(c, FALSE)
           /\ held' = [held EXCEPT ![w] = @ \cup {l}]
           /\ GoTo(w, "idle", None)
           /\ UNCHANGED call
        \/ /\ lockstate_map[c][l] \in {"LOCKED", "ACQUIRING", "RELEASING"}
           /\ SetMutex(c, FALSE)
           /\ GoTo(w, "waiting", l)
           /\ UNCHANGED <<lockstate_map, held, call>>
        \/ /\ lockstate_map[c][l] \in {"ABSENT", "NONE"}
           /\ SetLock(c, l, "NONE")
           /\ SetMutex(c, TRUE)
           /\ GoTo(w, "acquiring", l)
           /\ Send(w, "acquire", l)
           /\ UNCHANGED held
     /\ UNCHANGED <<overtaken, late, timeouts>>

(* The remote acquire of slot k returned.                                  *)
AcquireReply(k) ==
  LET w == Caller(k)
      c == ClientOf[w]
      l == arg[w]
  IN /\ w \in Workers
     /\ \/ /\ call[k].st = "OK"
           /\ SetLock(c, l, "LOCKED")
           /\ SetMutex(c, FALSE)
           /\ held' = [held EXCEPT ![w] = @ \cup {l}]
           /\ GoTo(w, "idle", None)
        \/ /\ call[k].st = "RETRY"
           /\ SetLock(c, l, "ACQUIRING")
           /\ SetMutex(c, FALSE)
           /\ GoTo(w, "waiting", l)
           /\ UNCHANGED held
        \/ /\ call[k].st = "RPCERR"
           /\ GoTo(w, "retest", l)
           /\ UNCHANGED <<lockstate_map, lockmap_mutex, held>>
     /\ Consume(k)
     /\ UNCHANGED <<overtaken, late, timeouts>>

(* The remote acquire timed out: an "unrecognized reply" as well.          *)
AcquireTimesOut(k) ==
  /\ Caller(k) \in Workers
  /\ pc[Caller(k)] = "acquiring"
  /\ Abandon(k)
  /\ pc' = [pc EXCEPT ![Caller(k)] = "retest"]
  /\ UNCHANGED <<lockstate_map, lockmap_mutex, arg, held, overtaken, late>>

(* Mutant of Release: a revoked lock is forgotten, not given back.         *)
ReleaseForgotten(w, l) ==
  LET c == ClientOf[w]
  IN /\ pc[w] = "idle" /\ l \in held[w] /\ ~lockmap_mutex[c]
     /\ held' = [held EXCEPT ![w] = @ \ {l}]
     /\ SetLock(c, l, IF lockstate_map[c][l] = "RELEASING" THEN "NONE" ELSE "FREE")
     /\ pc' = Woken(c, l)
     /\ UNCHANGED <<arg, lockmap_mutex, overtaken, callVars>>

(* Mutant of Release: no broadcast when a revoked lock is given back.      *)
ReleaseUnannounced(w, l) ==
  LET c == ClientOf[w]
  IN /\ pc[w] = "idle" /\ l \in held[w] /\ ~lockmap_mutex[c]
     /\ held' = [held EXCEPT ![w] = @ \ {l}]
     /\ IF lockstate_map[c][l] = "RELEASING"
        THEN /\ SetLock(c, l, "NONE")
             /\ pc' = [pc EXCEPT ![w] = "flush"]
             /\ arg' = [arg EXCEPT ![w] = l]
        ELSE /\ SetLock(c, l, "FREE")
             /\ pc' = Woken(c, l)
             /\ UNCHANGED arg
     /\ UNCHANGED <<lockmap_mutex, overtaken, callVars>>

(* release() up to dorelease(): a revoked lock goes back to the server, any*)
(* other stays cached.  Callers release only locks they hold.              *)
Release(w, l) ==
  LET c == ClientOf[w]
  IN /\ pc[w] = "idle"
     /\ l \in held[w]
     /\ ~lockmap_mutex[c]
     /\ held' = [held EXCEPT ![w] = @ \ {l}]
     /\ \/ /\ lockstate_map[c][l] = "RELEASING"
           /\ SetLock(c, l, "NONE")
           /\ pc' = [Woken(c, l) EXCEPT ![w] = "flush"]
           /\ arg' = [arg EXCEPT ![w] = l]
        \/ /\ lockstate_map[c][l] # "RELEASING"
           /\ SetLock(c, l, "FREE")
           /\ pc' = Woken(c, l)
           /\ UNCHANGED arg
     /\ UNCHANGED <<lockmap_mutex, overtaken, callVars>>

(* dorelease() has flushed the extent; the remote release is sent.         *)
SendRelease(t) ==
  /\ pc[t] = "flush"
  /\ pc' = [pc EXCEPT ![t] = "releasing"]
  /\ Send(t, "release", arg[t])
  /\ UNCHANGED <<lockstate_map, lockmap_mutex, arg, held, overtaken, late,
                 timeouts>>

(* What thread t does once its remote release is over: give_back()         *)
(* broadcasts, release() does not.                                         *)
AfterRelease(t) ==
  LET p == IF t \in Clients THEN Woken(t, arg[t]) ELSE pc
  IN /\ pc' = [p EXCEPT ![t] = "idle"]
     /\ arg' = [arg EXCEPT ![t] = None]

ReleaseReply(k) ==
  /\ call[k].st = "DONE"
  /\ Consume(k)
  /\ AfterRelease(Caller(k))
  /\ UNCHANGED <<lockstate_map, lockmap_mutex, held, overtaken, late, timeouts>>

(* The error path unlocks lockmap_mutex, which this thread does not hold.  *)
ReleaseTimesOut(k) ==
  /\ pc[Caller(k)] = "releasing"
  /\ Abandon(k)
  /\ AfterRelease(Caller(k))
  /\ SetMutex(Source(k), FALSE)
  /\ UNCHANGED <<lockstate_map, held, overtaken, late>>

(* give_back() meets a FREE lock, without the mutex ...                    *)
GiveBackCheck(c, l) ==
  /\ pc[c] = "idle"
  /\ lockstate_map[c][l] = "FREE"
  /\ GoTo(c, "giveback", l)
  /\ UNCHANGED <<lockstate_map, lockmap_mutex, held, overtaken, callVars>>

(* Mutant of GiveBackTake: the release is sent without dorelease().        *)
GiveBackTakeUnflushed(c) ==
  /\ pc[c] = "giveback"
  /\ ~lockmap_mutex[c]
  /\ SetLock(c, arg[c], "NONE")
  /\ overtaken' = (overtaken \/ lockstate_map[c][arg[c]] # "FREE")
  /\ pc' = [pc EXCEPT ![c] = "releasing"]
  /\ Send(c, "release", arg[c])
  /\ UNCHANGED <<lockmap_mutex, arg, held, late, timeouts>>

(* ... and then takes the mutex and sets the state, whatever it is by now. *)
GiveBackTake(c) ==
  /\ pc[c] = "giveback"
  /\ ~lockmap_mutex[c]
  /\ SetLock(c, arg[c], "NONE")
  /\ overtaken' = (overtaken \/ lockstate_map[c][arg[c]] # "FREE")
  /\ pc' = [pc EXCEPT ![c] = "flush"]
  /\ UNCHANGED <<lockmap_mutex, arg, held, callVars>>

(* revoke_handler(): only a lock in use is marked; indexing the map creates*)
(* a missing entry with state NONE.                                        *)
revoke_handler(c, l) ==
  /\ ~lockmap_mutex[c]
  /\ SetLock(c, l, IF lockstate_map[c][l] = "LOCKED" THEN "RELEASING"
                   ELSE IF lockstate_map[c][l] = "ABSENT" THEN "NONE"
                   ELSE lockstate_map[c][l])
  /\ UNCHANGED <<lockmap_mutex, pc, arg, held, overtaken>>

(* retry_handler(): RPCERR without an entry, which the server ignores;     *)
(* otherwise the state becomes NONE, whatever it was.                      *)
retry_handler(c, l) ==
  /\ ~lockmap_mutex[c]
  /\ IF lockstate_map[c][l] = "ABSENT"
     THEN UNCHANGED <<lockstate_map, pc>>
     ELSE /\ SetLock(c, l, "NONE")
          /\ pc' = Woken(c, l)
  /\ UNCHANGED <<lockmap_mutex, arg, held, overtaken>>
=============================================================================
