-------------------------- MODULE LockServerCache --------------------------
(***************************************************************************)
(* The caching lock server (lock_server_cache.cc).  It remembers which     *)
(* client has each lock and which clients wait for it, asks the owner to   *)
(* give a lock back (revoke) when the first waiter arrives, and tells the  *)
(* first waiter to ask again (retry) when the lock comes back.             *)
(*                                                                         *)
(* A critical section of serverlock_mutex with no remote call inside is    *)
(* one step.  release() keeps the mutex during the retry callback.         *)
(***************************************************************************)
EXTENDS LockCalls

VARIABLES where_is_lock,      \* the client that has the lock, None for ""
          who_waiting_lock,   \* the clients that wait for it, in order
          serverlock_mutex    \* whether the mutex is locked

serverVars == <<where_is_lock, who_waiting_lock, serverlock_mutex>>

ServerTypeOK ==
  /\ where_is_lock \in [Locks -> Clients \cup {None}]
  /\ who_waiting_lock \in [Locks -> Seq(Clients)]
  /\ serverlock_mutex \in BOOLEAN

ServerInit ==
  /\ where_is_lock = [l \in Locks |-> None]
  /\ who_waiting_lock = [l \in Locks |-> <<>>]
  /\ serverlock_mutex = FALSE

(* Whether client c is on waiting list q.                                  *)
Waits(q, c) == \E i \in 1..Len(q) : q[i] = c

(* Mutant of ServerAcquire: the owner is not looked at.                    *)
ServerAcquireAlways(k) ==
  /\ call[k].st = "acquire"
  /\ ~serverlock_mutex
  /\ where_is_lock' = [where_is_lock EXCEPT ![call[k].lid] = Source(k)]
  /\ Reply(k, "OK")
  /\ UNCHANGED <<who_waiting_lock, serverlock_mutex, late, timeouts>>

(* acquire() up to the unlock: a lock nobody has is granted (an id never   *)
(* seen and an id with owner "" are treated alike); otherwise the client   *)
(* joins the waiting list once, and only the first waiter makes the        *)
(* handler go on to revoke the owner.                                      *)
ServerAcquire(k) ==
  LET l == call[k].lid
      c == Source(k)
  IN /\ call[k].st = "acquire"
     /\ ~serverlock_mutex
     /\ \/ /\ where_is_lock[l] = None
           /\ where_is_lock' = [where_is_lock EXCEPT ![l] = c]
           /\ Reply(k, "OK")
           /\ UNCHANGED who_waiting_lock
        \/ /\ where_is_lock[l] # None
           /\ who_waiting_lock' =
                [who_waiting_lock EXCEPT ![l] =
                   IF Waits(@, c) THEN @ ELSE Append(@, c)]
           /\ IF who_waiting_lock[l] = <<>>
              THEN Proceed(k, "owner", None)
              ELSE Reply(k, "RETRY")
           /\ UNCHANGED where_is_lock
     /\ UNCHANGED <<serverlock_mutex, late, timeouts>>

(* The owner is read after the unlock, so it may have changed meanwhile.   *)
ServerReadOwner(k) ==
  /\ call[k].st = "owner"
  /\ Proceed(k, "revoke", where_is_lock[call[k].lid])
  /\ UNCHANGED <<late, timeouts, serverVars>>

(* The revoke callback returned OK.                                        *)
ServerRevokeOK(k) ==
  /\ call[k].st = "revoke"
  /\ call[k].peer # None
  /\ Reply(k, "RETRY")
  /\ UNCHANGED <<late, timeouts, serverVars>>

(* The revoke callback failed after rpcc::to_max, as the call does when the*)
(* client does not answer and bind() does when the owner read was "".  The *)
(* error path unlocks a mutex it does not hold, which on a default pthread *)
(* mutex just unlocks it.                                                  *)
ServerRevokeFails(k) ==
  /\ call[k].st = "revoke"
  /\ AbandonCallback(k)
  /\ serverlock_mutex' = FALSE
  /\ Reply(k, "RPCERR")
  /\ UNCHANGED <<where_is_lock, who_waiting_lock>>

(* Mutant of ServerRelease: the waiting clients are not told.              *)
ServerReleaseSilent(k) ==
  /\ call[k].st = "release"
  /\ ~serverlock_mutex
  /\ where_is_lock' = [where_is_lock EXCEPT ![call[k].lid] = None]
  /\ Reply(k, "DONE")
  /\ UNCHANGED <<who_waiting_lock, serverlock_mutex, late, timeouts>>

(* release(): the lock is nobody's, whoever the caller is; the first       *)
(* waiter is taken off the list and the retry callback to it starts, with  *)
(* the mutex held.                                                         *)
ServerRelease(k) ==
  LET l == call[k].lid
  IN /\ call[k].st = "release"
     /\ ~serverlock_mutex
     /\ where_is_lock' = [where_is_lock EXCEPT ![l] = None]
     /\ IF who_waiting_lock[l] = <<>>
        THEN /\ Reply(k, "DONE")
             /\ UNCHANGED <<who_waiting_lock, serverlock_mutex>>
        ELSE /\ Proceed(k, "retry", Head(who_waiting_lock[l]))
             /\ who_waiting_lock' = [who_waiting_lock EXCEPT ![l] = Tail(@)]
             /\ serverlock_mutex' = TRUE
     /\ UNCHANGED <<late, timeouts>>

(* The retry callback returned; its result is ignored.                     *)
ServerRetryReturns(k) ==
  /\ call[k].st = "retry"
  /\ serverlock_mutex' = FALSE
  /\ Reply(k, "DONE")
  /\ UNCHANGED <<late, timeouts, where_is_lock, who_waiting_lock>>

(* The retry callback timed out; the handler ends in the same way.         *)
ServerRetryTimesOut(k) ==
  /\ call[k].st = "retry"
  /\ AbandonCallback(k)
  /\ serverlock_mutex' = FALSE
  /\ Reply(k, "DONE")
  /\ UNCHANGED <<where_is_lock, who_waiting_lock>>
=============================================================================
