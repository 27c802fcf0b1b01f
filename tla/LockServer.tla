----------------------------- MODULE LockServer -----------------------------
(***************************************************************************)
(* The lock server without client caches (lock_server.cc), called through  *)
(* the stubs of lock_client.cc by threads that make one call at a time and *)
(* release only what they hold.  The server's handlers block: an acquire   *)
(* of a lock in use sleeps on the lock's condition variable and keeps its  *)
(* dispatch thread of rpcs, of which there are PoolSize (rpc.cc:429).      *)
(*                                                                         *)
(* A handler holds lockmap_mutex from start to end and lets go of it only  *)
(* in pthread_cond_wait, so each stretch up to or after the wait is one    *)
(* step.  A lock absent from lock_inuse_map and one with count 0 are       *)
(* granted alike and both are 0 here.                                      *)
(***************************************************************************)
EXTENDS Integers, FiniteSets

CONSTANTS Callers,      \* the calling threads of all clients
          Locks,
          PoolSize,     \* dispatch threads of the server
          MaxSpurious   \* bound: wakeups nobody signalled

ASSUME LockServerAssumption ==
  /\ IsFiniteSet(Callers)
  /\ PoolSize \in Nat \ {0}
  /\ MaxSpurious \in Nat

VARIABLES lock_inuse_map,  \* holder and waiters of each lock, counted
          st,              \* where each thread's call is
          lid,             \* the lock the call is about
          held,            \* the locks each thread was granted
          spurious         \* spurious wakeups so far

serverVars == <<lock_inuse_map, st, lid, held, spurious>>

(* "acquire" and "release" are requests not yet dispatched, "waiting" is   *)
(* an acquire asleep in pthread_cond_wait, "woken" one about to return.    *)
CallStates == {"idle", "acquire", "waiting", "woken", "release"}

(* Every variable has its type; the count of a lock is never negative.     *)
ServerTypeOK ==
  /\ lock_inuse_map \in [Locks -> Nat]
  /\ st \in [Callers -> CallStates]
  /\ lid \in [Callers -> Locks]
  /\ held \in [Callers -> SUBSET Locks]
  /\ spurious \in 0..MaxSpurious

ServerInit ==
  /\ lock_inuse_map = [l \in Locks |-> 0]
  /\ st = [t \in Callers |-> "idle"]
  /\ lid \in {[t \in Callers |-> l] : l \in Locks}
  /\ held = [t \in Callers |-> {}]
  /\ spurious = 0

Waiting(l) == {t \in Callers : st[t] = "waiting" /\ lid[t] = l}

(* A blocked handler occupies a dispatch thread; any other handler runs to *)
(* its end in the step that dispatches it.                                 *)
Blocked == {t \in Callers : st[t] \in {"waiting", "woken"}}
PoolHasThreadTooFew == Cardinality(Blocked) + 1 < PoolSize   \* a slip
PoolHasThread == Cardinality(Blocked) < PoolSize

(* The stubs lock_client::acquire and lock_client::release.                *)
CallAcquire(t, l) ==
  /\ st[t] = "idle" /\ l \notin held[t]
  /\ st' = [st EXCEPT ![t] = "acquire"]
  /\ lid' = [lid EXCEPT ![t] = l]
  /\ UNCHANGED <<lock_inuse_map, held, spurious>>

CallRelease(t, l) ==
  /\ st[t] = "idle" /\ l \in held[t]
  /\ st' = [st EXCEPT ![t] = "release"]
  /\ lid' = [lid EXCEPT ![t] = l]
  /\ held' = [held EXCEPT ![t] = @ \ {l}]
  /\ UNCHANGED <<lock_inuse_map, spurious>>

(* The call returns and its caller has the lock.                           *)
Grant(t) ==
  /\ st' = [st EXCEPT ![t] = "idle"]
  /\ held' = [held EXCEPT ![t] = @ \cup {lid[t]}]

(* A slip in the test below: one more than the first is let in.            *)
AcquireOffByOne(t) ==
  LET l == lid[t] IN
  /\ st[t] = "acquire" /\ PoolHasThread
  /\ lock_inuse_map' = [lock_inuse_map EXCEPT ![l] = @ + 1]
  /\ IF lock_inuse_map[l] <= 1
       THEN Grant(t)
       ELSE st' = [st EXCEPT ![t] = "waiting"] /\ UNCHANGED held
  /\ UNCHANGED <<lid, spurious>>

(* lock_server::acquire: the first to count itself in has the lock, anyone *)
(* else waits to be signalled.                                             *)
Acquire(t) ==
  LET l == lid[t] IN
  /\ st[t] = "acquire" /\ PoolHasThread
  /\ lock_inuse_map' = [lock_inuse_map EXCEPT ![l] = @ + 1]
  /\ IF lock_inuse_map[l] + 1 = 1
       THEN Grant(t)
       ELSE st' = [st EXCEPT ![t] = "waiting"] /\ UNCHANGED held
  /\ UNCHANGED <<lid, spurious>>

(* pthread_cond_wait returns: the count is not looked at again.            *)
AcquireResumes(t) ==
  /\ st[t] = "woken"
  /\ Grant(t)
  /\ UNCHANGED <<lock_inuse_map, lid, spurious>>

(* pthread_cond_wait may also return when nobody signalled.                *)
SpuriousWakeup(t) ==
  /\ st[t] = "waiting" /\ spurious < MaxSpurious
  /\ st' = [st EXCEPT ![t] = "woken"]
  /\ spurious' = spurious + 1
  /\ UNCHANGED <<lock_inuse_map, lid, held>>

(* lock_server::release: pthread_cond_signal wakes one of the waiters, any *)
(* of them, and the releaser is no longer counted.                         *)
Release(t) ==
  LET l == lid[t] IN
  /\ st[t] = "release" /\ PoolHasThread
  /\ \/ /\ Waiting(l) = {}
        /\ st' = [st EXCEPT ![t] = "idle"]
     \/ \E w \in Waiting(l) :
          st' = [st EXCEPT ![t] = "idle", ![w] = "woken"]
  /\ lock_inuse_map' = [lock_inuse_map EXCEPT ![l] = @ - 1]
  /\ UNCHANGED <<lid, held, spurious>>

ServerNext ==
  \E t \in Callers :
    \/ \E l \in Locks : CallAcquire(t, l) \/ CallRelease(t, l)
    \/ Acquire(t) \/ AcquireResumes(t) \/ SpuriousWakeup(t) \/ Release(t)

(* A queued request is dispatched when a dispatch thread is free for good, *)
(* and a woken thread gets the mutex.  A thread that holds a lock need not *)
(* ever call release.                                                      *)
ServerFairness ==
  \A t \in Callers : /\ WF_serverVars(Acquire(t) \/ Release(t))
                     /\ WF_serverVars(AcquireResumes(t))

ServerSpec == ServerInit /\ [][ServerNext]_serverVars /\ ServerFairness

-----------------------------------------------------------------------------
(* A lock's owners: who holds it, is about to get it, or has sent the      *)
(* release the server has not yet seen.                                    *)
Owners(l) ==
  {t \in Callers : \/ l \in held[t]
                   \/ lid[t] = l /\ st[t] \in {"woken", "release"}}

(* No two threads hold one lock: what lock_tester.cc's check_grant asserts *)
(* of the server.                                                          *)
MutualExclusion ==
  \A t, u \in Callers : t # u => held[t] \cap held[u] = {}

(* No two threads hold one lock as long as pthread_cond_wait returned only *)
(* to a signal: acquire does not look at the count again after the wait    *)
(* (lock_server.cc:45), so it relies on that.                              *)
ExclusionUnlessSpurious == spurious = 0 => MutualExclusion

(* No wakeup is lost: whenever an acquire sleeps, somebody has, gets or is *)
(* giving back the lock and will signal it, spurious wakeups or not.       *)
WaitersHaveAnOwner == \A l \in Locks : Waiting(l) # {} => Owners(l) # {}

(* The count is what acquire takes it for: exactly the owners and waiters. *)
CountIsExact ==
  \A l \in Locks :
    lock_inuse_map[l] = Cardinality(Owners(l)) + Cardinality(Waiting(l))

(* A release of a lock others wait for makes one of them its holder, as    *)
(* long as there are no more threads than the pool has: with more, blocked *)
(* acquires can keep the release from being dispatched.                    *)
ReleaseHandsOver ==
  Cardinality(Callers) <= PoolSize =>
  \A t \in Callers, l \in Locks :
    (st[t] = "release" /\ lid[t] = l /\ Waiting(l) # {})
      ~> (\E u \in Callers : l \in held[u])
=============================================================================
