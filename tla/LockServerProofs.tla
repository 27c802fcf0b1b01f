-------------------------- MODULE LockServerProofs --------------------------
(***************************************************************************)
(* Proofs about the lock servers.                                          *)
(*                                                                         *)
(* LockServer, for any number of threads, locks and dispatch threads.  The *)
(* invariant relates the count in lock_inuse_map to the threads it stands  *)
(* for: its owners and its waiters are its members, and the count is their *)
(* number.  Then a count of 0 means nobody is near the lock, which is what *)
(* lets acquire grant it, and a release that wakes one waiter puts that    *)
(* waiter in the releaser's place.                                         *)
(*                                                                         *)
(* HandleMgr, the handles through which the caching server calls back its  *)
(* clients, for any finite set of handlers, any names and any number of    *)
(* restarts.  The count of an hinfo is the number of handles that point at *)
(* it, and what is pointed at is what the map has under the handle's name. *)
(* So the handle that deletes an hinfo is the last one, and the name that  *)
(* it erases is that of the same hinfo.                                    *)
(***************************************************************************)
EXTENDS LockServer, HandleMgr, FiniteSetTheorems, TLAPS

Members(l) == Owners(l) \cup Waiting(l)

(* The count of a lock is the number of its members.                       *)
CountKept == \A l \in Locks : lock_inuse_map[l] = Cardinality(Members(l))

(* A thread calls acquire for what it does not hold, and what it is        *)
(* releasing it no longer holds.                                           *)
CallsFit == \A t \in Callers : st[t] # "idle" => lid[t] \notin held[t]

(* As long as no wakeup was spurious a lock has at most one owner.         *)
OneOwner ==
  spurious = 0 => \A l \in Locks : \A t, u \in Owners(l) : t = u

ServerIInv == ServerTypeOK /\ CountKept /\ CallsFit /\ WaitersHaveAnOwner /\ OneOwner

-----------------------------------------------------------------------------
(* The prover of a step that names none.                                   *)
USE ZenonT(40)

(* The members of a lock are a finite set.                                 *)
LEMMA MembersFinite ==
  ASSUME NEW l \in Locks
  PROVE  IsFiniteSet(Members(l)) /\ Cardinality(Members(l)) \in Nat
<1>1. Members(l) \subseteq Callers
  BY DEF Members, Owners, Waiting
<1>2. IsFiniteSet(Members(l))
  BY <1>1, FS_Subset, LockServerAssumption
<1> QED
  BY <1>2, FS_CardinalityType

(* What a step must do to the owners and the waiters of the locks for the  *)
(* count, the wakeups and the exclusion to be kept: nothing.               *)
LEMMA NothingMoves ==
  ASSUME ServerIInv, ServerTypeOK', CallsFit',
         UNCHANGED <<lock_inuse_map, spurious>>,
         \A l \in Locks : Owners(l)' = Owners(l) /\ Waiting(l)' = Waiting(l)
  PROVE  ServerIInv'
<1>1. CountKept'
  BY DEF ServerIInv, CountKept, Members
<1>2. WaitersHaveAnOwner'
  BY DEF ServerIInv, WaitersHaveAnOwner
<1>3. OneOwner'
  BY DEF ServerIInv, OneOwner
<1> QED
  BY <1>1, <1>2, <1>3 DEF ServerIInv

(* The initial state satisfies the invariant: no lock has a member.        *)
LEMMA ServerInitially == ServerInit => ServerIInv
<1> SUFFICES ASSUME ServerInit PROVE ServerIInv
  OBVIOUS
<1>1. ServerTypeOK
  BY LockServerAssumption, SMT DEF ServerInit, ServerTypeOK, CallStates
<1>2. \A l \in Locks : Owners(l) = {} /\ Waiting(l) = {}
  BY DEF ServerInit, Owners, Waiting
<1>3. CountKept
  BY <1>2, FS_EmptySet DEF CountKept, Members, ServerInit
<1> QED
  BY <1>1, <1>2, <1>3 DEF ServerIInv, CallsFit, WaitersHaveAnOwner, OneOwner, ServerInit

(* A thread calls acquire() ...                                            *)
LEMMA CallAcquireKeeps ==
  ASSUME ServerIInv, NEW t \in Callers, NEW k \in Locks, CallAcquire(t, k)
  PROVE  ServerIInv'
<1>1. ServerTypeOK'
  BY DEF ServerIInv, ServerTypeOK, CallAcquire, CallStates
<1>2. CallsFit'
  BY DEF ServerIInv, CallsFit, CallAcquire, ServerTypeOK
<1>3. \A l \in Locks : Owners(l)' = Owners(l) /\ Waiting(l)' = Waiting(l)
  BY DEF ServerIInv, ServerTypeOK, CallAcquire, Owners, Waiting
<1> QED
  BY <1>1, <1>2, <1>3, NothingMoves DEF CallAcquire

(* ... or release(); neither changes owners and waiters yet.               *)
LEMMA CallReleaseKeeps ==
  ASSUME ServerIInv, NEW t \in Callers, NEW k \in Locks, CallRelease(t, k)
  PROVE  ServerIInv'
<1>1. ServerTypeOK'
  BY DEF ServerIInv, ServerTypeOK, CallRelease, CallStates
<1>2. CallsFit'
  BY DEF ServerIInv, CallsFit, CallRelease, ServerTypeOK
<1>3. ASSUME NEW l \in Locks
      PROVE  Owners(l)' = Owners(l) /\ Waiting(l)' = Waiting(l)
  <2>1. \A u \in Callers : u # t => st'[u] = st[u] /\ lid'[u] = lid[u] /\ held'[u] = held[u]
    BY DEF ServerIInv, ServerTypeOK, CallRelease
  <2>2. /\ st[t] = "idle" /\ st'[t] = "release" /\ lid'[t] = k
        /\ held'[t] = held[t] \ {k} /\ k \in held[t]
    BY DEF ServerIInv, ServerTypeOK, CallRelease
  <2> QED
    BY <2>1, <2>2, SMT DEF Owners, Waiting
<1> QED
  BY <1>1, <1>2, <1>3, NothingMoves DEF CallRelease

(* A woken thread, an owner since it was signalled, returns.               *)
LEMMA ResumeKeeps ==
  ASSUME ServerIInv, NEW t \in Callers, AcquireResumes(t)
  PROVE  ServerIInv'
<1>1. ServerTypeOK'
  BY SMT DEF ServerIInv, ServerTypeOK, AcquireResumes, Grant, CallStates
<1>2. CallsFit'
  BY DEF ServerIInv, CallsFit, AcquireResumes, Grant, ServerTypeOK
<1>3. ASSUME NEW l \in Locks
      PROVE  Owners(l)' = Owners(l) /\ Waiting(l)' = Waiting(l)
  <2>1. \A u \in Callers : u # t => st'[u] = st[u] /\ held'[u] = held[u]
    BY DEF ServerIInv, ServerTypeOK, AcquireResumes, Grant
  <2>2. /\ st[t] = "woken" /\ st'[t] = "idle" /\ lid' = lid
        /\ held'[t] = held[t] \cup {lid[t]}
    BY DEF ServerIInv, ServerTypeOK, AcquireResumes, Grant
  <2> QED
    BY <2>1, <2>2, SMT DEF Owners, Waiting
<1> QED
  BY <1>1, <1>2, <1>3, NothingMoves DEF AcquireResumes

(* An acquire adds its thread to the members of the lock, as the only      *)
(* owner when there was no member, as a waiter otherwise.                  *)
LEMMA AcquireKeeps ==
  ASSUME ServerIInv, NEW t \in Callers, Acquire(t)
  PROVE  ServerIInv'
<1> PICK k \in Locks : k = lid[t]
  BY DEF ServerIInv, ServerTypeOK
<1>0. /\ k \in Locks /\ st[t] = "acquire" /\ k \notin held[t]
      /\ lid' = lid /\ spurious' = spurious
  BY DEF ServerIInv, ServerTypeOK, CallsFit, Acquire
<1>1. ServerTypeOK'
  BY SMT DEF ServerIInv, ServerTypeOK, Acquire, Grant, CallStates
<1>2. CallsFit'
  BY DEF ServerIInv, CallsFit, Acquire, Grant, ServerTypeOK
<1>3. /\ lock_inuse_map'[k] = lock_inuse_map[k] + 1
      /\ \A l \in Locks : l # k => lock_inuse_map'[l] = lock_inuse_map[l]
  BY <1>0 DEF ServerIInv, ServerTypeOK, Acquire
<1>4. \A u \in Callers : u # t => st'[u] = st[u] /\ held'[u] = held[u]
  BY DEF ServerIInv, ServerTypeOK, Acquire, Grant
<1>5. t \notin Members(k)
  BY <1>0 DEF Members, Owners, Waiting
<1>6. \/ /\ lock_inuse_map[k] = 0 /\ st'[t] = "idle"
         /\ held'[t] = held[t] \cup {k}
      \/ /\ lock_inuse_map[k] # 0 /\ st'[t] = "waiting" /\ held'[t] = held[t]
  BY <1>0, SMT DEF ServerIInv, ServerTypeOK, Acquire, Grant
<1>7. \A l \in Locks : l # k => Owners(l)' = Owners(l) /\ Waiting(l)' = Waiting(l)
  BY <1>0, <1>4, <1>6, SMT DEF Owners, Waiting
<1>8. Members(k)' = Members(k) \cup {t}
  BY <1>0, <1>4, <1>6, SMT DEF Members, Owners, Waiting
<1>9. CountKept'
  <2>1. Cardinality(Members(k)') = Cardinality(Members(k)) + 1
    BY <1>0, <1>5, <1>8, MembersFinite, FS_AddElement, ZenonT(40)
  <2> QED
    BY <2>1, <1>3, <1>7 DEF CountKept, Members, ServerIInv
<1>10. CASE lock_inuse_map[k] = 0
  <2>1. Members(k) = {}
    BY <1>0, <1>10, MembersFinite, FS_EmptySet DEF ServerIInv, CountKept
  <2>2. Owners(k)' = {t} /\ Waiting(k)' = {}
    BY <2>1, <1>0, <1>4, <1>6, <1>10, SMT DEF Members, Owners, Waiting
  <2>3. WaitersHaveAnOwner' /\ OneOwner'
    BY <2>2, <1>0, <1>7, SMT DEF ServerIInv, WaitersHaveAnOwner, OneOwner
  <2> QED
    BY <2>3, <1>1, <1>2, <1>9 DEF ServerIInv
<1>11. CASE lock_inuse_map[k] # 0
  <2>1. Members(k) # {}
    BY <1>0, <1>11, FS_EmptySet DEF ServerIInv, CountKept
  <2>2. Owners(k) # {}
    BY <2>1, <1>0 DEF ServerIInv, WaitersHaveAnOwner, Members
  <2>3. Owners(k)' = Owners(k)
    BY <1>0, <1>4, <1>6, <1>11 DEF Owners
  <2>4. WaitersHaveAnOwner' /\ OneOwner'
    BY <2>2, <2>3, <1>0, <1>7, SMT DEF ServerIInv, WaitersHaveAnOwner, OneOwner
  <2> QED
    BY <2>4, <1>1, <1>2, <1>9 DEF ServerIInv
<1> QED
  BY <1>10, <1>11

(* A spurious wakeup makes a waiter an owner; the members are the same.    *)
LEMMA SpuriousKeeps ==
  ASSUME ServerIInv, NEW t \in Callers, SpuriousWakeup(t)
  PROVE  ServerIInv'
<1> PICK k \in Locks : k = lid[t]
  BY DEF ServerIInv, ServerTypeOK
<1>0. /\ k \in Locks /\ st[t] = "waiting" /\ st'[t] = "woken"
      /\ lid' = lid /\ held' = held /\ lock_inuse_map' = lock_inuse_map
      /\ spurious \in Nat /\ spurious' = spurious + 1
  BY LockServerAssumption, SMT DEF ServerIInv, ServerTypeOK, SpuriousWakeup
<1>1. ServerTypeOK'
  BY LockServerAssumption, SMT DEF ServerIInv, ServerTypeOK, SpuriousWakeup, CallStates
<1>2. CallsFit'
  BY DEF ServerIInv, CallsFit, SpuriousWakeup, ServerTypeOK
<1>3. \A u \in Callers : u # t => st'[u] = st[u]
  BY DEF ServerIInv, ServerTypeOK, SpuriousWakeup
<1>4. \A l \in Locks : Members(l)' = Members(l)
  BY <1>0, <1>3, SMT DEF Members, Owners, Waiting
<1>5. \A l \in Locks : Owners(l) \subseteq Owners(l)' /\ Waiting(l)' \subseteq Waiting(l)
  BY <1>0, <1>3 DEF Owners, Waiting
<1>6. CountKept'
  BY <1>0, <1>4 DEF ServerIInv, CountKept
<1>7. WaitersHaveAnOwner'
  BY <1>5 DEF ServerIInv, WaitersHaveAnOwner
<1>8. OneOwner'
  BY <1>0, SMT DEF OneOwner
<1> QED
  BY <1>1, <1>2, <1>6, <1>7, <1>8 DEF ServerIInv

(* A release takes its thread out of the members; if there is a waiter one *)
(* waiter becomes the owner in its place.                                  *)
LEMMA ReleaseKeeps ==
  ASSUME ServerIInv, NEW t \in Callers, Release(t)
  PROVE  ServerIInv'
<1> PICK k \in Locks : k = lid[t]
  BY DEF ServerIInv, ServerTypeOK
<1>0. /\ k \in Locks /\ st[t] = "release" /\ k \notin held[t]
      /\ lid' = lid /\ held' = held /\ spurious' = spurious
  BY DEF ServerIInv, ServerTypeOK, CallsFit, Release
<1>1. t \in Owners(k) /\ t \notin Waiting(k)
  BY <1>0 DEF Owners, Waiting
<1>2. /\ lock_inuse_map' = [lock_inuse_map EXCEPT ![k] = @ - 1]
      /\ lock_inuse_map'[k] = lock_inuse_map[k] - 1
      /\ \A l \in Locks : l # k => lock_inuse_map'[l] = lock_inuse_map[l]
  BY <1>0 DEF ServerIInv, ServerTypeOK, Release
<1>3. lock_inuse_map[k] # 0
  <2>1. Cardinality(Members(k)) # 0
    BY <1>0, <1>1, MembersFinite, FS_EmptySet DEF Members
  <2> QED
    BY <2>1, <1>0 DEF ServerIInv, CountKept
<1>4. PICK w \in Callers :
        \/ w = t /\ Waiting(k) = {} /\ st' = [st EXCEPT ![t] = "idle"]
        \/ w \in Waiting(k) /\ st' = [st EXCEPT ![t] = "idle", ![w] = "woken"]
  BY DEF Release, Waiting
<1>5. /\ st'[t] = "idle"
      /\ w = t \/ (st'[w] = "woken" /\ w \in Waiting(k))
      /\ \A u \in Callers : u # t /\ u # w => st'[u] = st[u]
      /\ w = t => Waiting(k) = {}
  <2>1. st \in [Callers -> CallStates]
    BY DEF ServerIInv, ServerTypeOK
  <2>2. CASE w = t
    <3>1. Waiting(k) = {} /\ st' = [st EXCEPT ![t] = "idle"]
      BY <2>2, <1>1, <1>4
    <3> QED
      BY <3>1, <2>1, <2>2
  <2>3. CASE w # t
    BY <2>1, <2>3, <1>1, <1>4
  <2> QED
    BY <2>2, <2>3
<1>6. ServerTypeOK'
  <2>1. lock_inuse_map' \in [Locks -> Nat]
    BY <1>0, <1>2, <1>3, SMT DEF ServerIInv, ServerTypeOK
  <2>2. st' \in [Callers -> CallStates]
    BY <1>4 DEF ServerIInv, ServerTypeOK, CallStates
  <2> QED
    BY <2>1, <2>2, <1>0 DEF ServerIInv, ServerTypeOK
<1>7. CallsFit'
  BY <1>0, <1>5 DEF ServerIInv, CallsFit, Waiting
<1>8. \A l \in Locks : l # k => Owners(l)' = Owners(l) /\ Waiting(l)' = Waiting(l)
  BY <1>0, <1>5, SMT DEF Owners, Waiting
<1>9. /\ Owners(k)' = IF w = t THEN Owners(k) \ {t} ELSE (Owners(k) \ {t}) \cup {w}
      /\ Waiting(k)' = Waiting(k) \ {w}
  <2>1. CASE w = t
    BY <2>1, <1>0, <1>1, <1>5, SMT DEF Owners, Waiting
  <2>2. CASE w # t
    BY <2>2, <1>0, <1>1, <1>5, SMT DEF Owners, Waiting
  <2> QED
    BY <2>1, <2>2
<1>10. Members(k)' = Members(k) \ {t}
  BY <1>9, <1>5, <1>1, SMT DEF Members
<1>11. CountKept'
  <2>1. Cardinality(Members(k)') = Cardinality(Members(k)) - 1
    <3>1. t \in Members(k) /\ k \in Locks
      BY <1>0, <1>1 DEF Members
    <3>2. IsFiniteSet(Members(k))
      BY <3>1, MembersFinite
    <3> QED
      BY <1>10, <3>1, <3>2, FS_RemoveElement
  <2> QED
    BY <2>1, <1>2, <1>8 DEF CountKept, Members, ServerIInv
<1>12. WaitersHaveAnOwner'
  BY <1>5, <1>8, <1>9 DEF ServerIInv, WaitersHaveAnOwner
<1>13. OneOwner'
  BY <1>0, <1>1, <1>8, <1>9, SMT DEF ServerIInv, OneOwner
<1> QED
  BY <1>6, <1>7, <1>11, <1>12, <1>13 DEF ServerIInv

(* Every step keeps the invariant.                                         *)
LEMMA ServerInductive == ServerIInv /\ [ServerNext]_serverVars => ServerIInv'
<1> SUFFICES ASSUME ServerIInv, [ServerNext]_serverVars PROVE ServerIInv'
  OBVIOUS
<1>1. CASE UNCHANGED serverVars
  BY <1>1, SMT DEF serverVars, ServerIInv, ServerTypeOK, CountKept, CallsFit, WaitersHaveAnOwner,
              OneOwner, Members, Owners, Waiting
<1>2. CASE ServerNext
  <2> PICK t \in Callers :
        \/ \E l \in Locks : CallAcquire(t, l) \/ CallRelease(t, l)
        \/ Acquire(t) \/ AcquireResumes(t) \/ SpuriousWakeup(t) \/ Release(t)
    BY <1>2 DEF ServerNext
  <2> QED
    BY CallAcquireKeeps, CallReleaseKeeps, AcquireKeeps, ResumeKeeps,
       SpuriousKeeps, ReleaseKeeps
<1> QED
  BY <1>1, <1>2

(* The invariant holds throughout.                                         *)
THEOREM ServerInvariant == ServerSpec => []ServerIInv
BY ServerInitially, ServerInductive, PTL DEF ServerSpec

(* Every lock is held by at most one thread as long as no thread woke from *)
(* pthread_cond_wait without a signal: lock_server::acquire's count and    *)
(* release's single signal are enough without a loop around the wait.      *)
THEOREM Exclusion == ServerSpec => []ExclusionUnlessSpurious
<1>1. ServerIInv => ExclusionUnlessSpurious
  BY DEF ServerIInv, ServerTypeOK, OneOwner, ExclusionUnlessSpurious, MutualExclusion, Owners
<1> QED
  BY <1>1, ServerInvariant, PTL

(* No acquire sleeps on a lock that nobody is going to release.            *)
THEOREM NoLostWakeup == ServerSpec => []WaitersHaveAnOwner
<1>1. ServerIInv => WaitersHaveAnOwner
  BY DEF ServerIInv
<1> QED
  BY <1>1, ServerInvariant, PTL

(* lock_inuse_map counts exactly the owners and the waiters of each lock.  *)
THEOREM ExactCount == ServerSpec => []CountIsExact
<1>1. ASSUME ServerIInv, NEW l \in Locks
      PROVE  lock_inuse_map[l] = Cardinality(Owners(l)) + Cardinality(Waiting(l))
  <2>1. Owners(l) \cap Waiting(l) = {}
    BY <1>1 DEF ServerIInv, CallsFit, Owners, Waiting
  <2>2. IsFiniteSet(Owners(l)) /\ IsFiniteSet(Waiting(l))
    BY FS_Subset, LockServerAssumption DEF Owners, Waiting
  <2>3. Cardinality(Members(l)) = Cardinality(Owners(l)) + Cardinality(Waiting(l))
    <3>1. Cardinality(Owners(l) \cup Waiting(l))
            = Cardinality(Owners(l)) + Cardinality(Waiting(l))
                - Cardinality(Owners(l) \cap Waiting(l))
      BY <2>2, FS_Union
    <3>2. Cardinality(Owners(l)) \in Nat /\ Cardinality(Waiting(l)) \in Nat
      BY <2>2, FS_CardinalityType
    <3>3. Cardinality(Owners(l) \cap Waiting(l)) = 0
      BY <2>1, FS_EmptySet
    <3> QED
      BY <3>1, <3>2, <3>3, SMT DEF Members
  <2> QED
    BY <2>3, <1>1 DEF ServerIInv, CountKept
<1>2. ServerIInv => CountIsExact
  BY <1>1 DEF CountIsExact
<1> QED
  BY <1>2, ServerInvariant, PTL

-----------------------------------------------------------------------------
(* The handles of the caching server.                                      *)

Holders(i) == {t \in Threads : thread[t].h = i}

InfoType == [live : BOOLEAN, m : Names \cup {NULL}, cl : Instances \cup {NULL},
             refcnt : Nat, del : BOOLEAN, owner : Threads \cup {NULL}]
ThreadType == [at : {"idle", "safebind", "bind", "call"},
               job : {"none", "revoke", "retry"}, m : Names \cup {NULL},
               h : Infos \cup {NULL}, cl : Instances \cup {NULL}]

(* TypeOK without the bound of the counts, which Counted gives.            *)
Typed ==
  /\ hmap \in [Names -> Infos \cup {NULL}]
  /\ info \in [Infos -> InfoType]
  /\ thread \in [Threads -> ThreadType]
  /\ instance \in [Names -> Instances]
  /\ failed \subseteq Names /\ crashed \in BOOLEAN

Counted == \A i \in Infos : info[i].refcnt = Cardinality(Holders(i))

(* What the map has is allocated, under its own name, and is to be deleted *)
(* only after a bind to that name failed.                                  *)
Mapped ==
  \A m \in Names : hmap[m] # NULL =>
    /\ info[hmap[m]].live /\ info[hmap[m]].m = m
    /\ info[hmap[m]].del => m \in failed

(* What a thread knows of its handle at each place.                        *)
ThreadFits(t) ==
  /\ thread[t].at = "idle" => thread[t].h = NULL /\ thread[t].cl = NULL
  /\ thread[t].at # "idle" => thread[t].m \in Names
  /\ thread[t].at # "idle" /\ thread[t].h = NULL => thread[t].m \in failed
  /\ thread[t].h # NULL => thread[t].m \in Names /\ hmap[thread[t].m] = thread[t].h
  /\ thread[t].cl # NULL => /\ thread[t].at = "call" /\ thread[t].h # NULL
                            /\ info[thread[t].h].cl = thread[t].cl
  /\ thread[t].at = "bind" => /\ thread[t].h # NULL /\ info[thread[t].h].owner = t
                              /\ info[thread[t].h].cl = NULL
  /\ thread[t].at = "call" /\ thread[t].cl = NULL => thread[t].m \in failed

IInv == Typed /\ Counted /\ Mapped /\ \A t \in Threads : ThreadFits(t)

-----------------------------------------------------------------------------
(* The handles of an hinfo are finitely many.                              *)
LEMMA HoldersFinite ==
  ASSUME NEW i
  PROVE  IsFiniteSet(Holders(i)) /\ Cardinality(Holders(i)) \in Nat
<1>1. IsFiniteSet(Holders(i))
  BY FS_Subset, HandleMgrAssumption DEF Holders
<1> QED BY <1>1, FS_CardinalityType

(* The initial state: no hinfo, no handle.                                 *)
LEMMA Initially == Init => IInv
<1> SUFFICES ASSUME Init PROVE IInv
  OBVIOUS
<1>1. Typed
  <2>1. 1 \in Instances
    BY HandleMgrAssumption, SMT DEF Instances
  <2>2. Freed \in InfoType
    BY DEF Freed, InfoType
  <2>3. Idle \in ThreadType
    BY DEF Idle, ThreadType
  <2> QED BY <2>1, <2>2, <2>3 DEF Init, Typed
<1>2. \A i \in Infos : Holders(i) = {}
  BY HandleMgrAssumption DEF Init, Holders, Idle
<1>3. Counted
  BY <1>2, FS_EmptySet DEF Counted, Init, Freed
<1>4. Mapped
  BY DEF Mapped, Init
<1>5. \A t \in Threads : ThreadFits(t)
  BY DEF ThreadFits, Init, Idle
<1> QED BY <1>1, <1>3, <1>4, <1>5 DEF IInv

(* A step that moves no handle and changes no count keeps the counts.      *)
LEMMA CountsStay ==
  ASSUME Counted, \A t \in Threads : thread'[t].h = thread[t].h,
         \A i \in Infos : info'[i].refcnt = info[i].refcnt
  PROVE  Counted'
<1>1. \A i : Holders(i)' = Holders(i)
  BY DEF Holders
<1> QED BY <1>1 DEF Counted

(* get_handle counts the handle it returns.                                *)
LEMMA CountsUp ==
  ASSUME Counted, NEW t \in Threads, NEW h \in Infos, thread[t].h # h, thread'[t].h = h,
         thread[t].h \notin Infos,
         \A u \in Threads : u # t => thread'[u] = thread[u],
         \A i \in Infos : i # h => info'[i] = info[i],
         info'[h].refcnt = Cardinality(Holders(h)) + 1
  PROVE  Counted'
<1>1. \A i \in Infos : i # h => Holders(i)' = Holders(i)
  BY SMT DEF Holders
<1>2. Holders(h)' = Holders(h) \cup {t} /\ t \notin Holders(h)
  BY SMT DEF Holders
<1>3. Cardinality(Holders(h)') = Cardinality(Holders(h)) + 1
  BY <1>2, HoldersFinite, FS_AddElement, ZenonT(40)
<1> QED BY <1>1, <1>3, SMT DEF Counted

(* done_handle stops counting the handle that goes.                        *)
LEMMA CountsDown ==
  ASSUME Counted, NEW t \in Threads, NEW h \in Infos, thread[t].h = h,
         thread'[t].h \notin Infos,
         \A u \in Threads : u # t => thread'[u] = thread[u],
         \A i \in Infos : i # h => info'[i] = info[i],
         info'[h].refcnt = info[h].refcnt - 1
  PROVE  Counted'
<1>1. \A i \in Infos : i # h => Holders(i)' = Holders(i)
  BY SMT DEF Holders
<1>2. Holders(h)' = Holders(h) \ {t} /\ t \in Holders(h)
  BY SMT DEF Holders
<1>3. Cardinality(Holders(h)') = Cardinality(Holders(h)) - 1
  BY <1>2, HoldersFinite, FS_RemoveElement, ZenonT(40)
<1> QED BY <1>1, <1>3, SMT DEF Counted

-----------------------------------------------------------------------------
(* A handler makes a handle: a new hinfo, the one in the map, or none when *)
(* that is to be deleted.                                                  *)
LEMMA HandleKeeps ==
  ASSUME IInv, NEW t \in Threads, NEW m \in Names, NEW job \in {"revoke", "retry"},
         handle(t, job, m)
  PROVE  IInv'
<1>0. Typed /\ Counted /\ Mapped /\ \A u \in Threads : ThreadFits(u)
  BY DEF IInv
<1>1. PICK h \in Infos \cup {NULL} :
        /\ get_handle(m, h)
        /\ thread' = [thread EXCEPT ![t] = [at |-> "safebind", job |-> job, m |-> m, h |-> h,
                                            cl |-> NULL]]
  BY  DEF handle
<1>2. thread[t].at = "idle" /\ UNCHANGED <<instance, failed, crashed>>
  BY DEF handle
<1>3. /\ thread'[t] = [at |-> "safebind", job |-> job, m |-> m, h |-> h, cl |-> NULL]
      /\ \A u \in Threads : u # t => thread'[u] = thread[u]
      /\ thread' \in [Threads -> ThreadType]
  BY <1>0, <1>1 DEF Typed, ThreadType
<1>4. thread[t].h = NULL /\ thread[t].cl = NULL
  BY <1>0, <1>2 DEF ThreadFits
<1>5. CASE hmap[m] = NULL
  <2>1. /\ h \in Unused /\ hmap' = [hmap EXCEPT ![m] = h]
        /\ info' = [info EXCEPT ![h] = [Freed EXCEPT !.live = TRUE, !.m = m, !.refcnt = 1]]
    BY <1>1, <1>5 DEF get_handle, NewInfo
  <2>2. h \in Infos /\ ~info[h].live /\ \A u \in Threads : thread[u].h # h
    BY <2>1 DEF Unused
  <2>3. /\ info'[h] = [live |-> TRUE, m |-> m, cl |-> NULL, refcnt |-> 1, del |-> FALSE,
                       owner |-> NULL]
        /\ \A i \in Infos : i # h => info'[i] = info[i]
        /\ info' \in [Infos -> InfoType]
    BY <1>0, <2>1, <2>2 DEF Typed, Freed, InfoType
  <2>4. /\ hmap'[m] = h /\ \A n \in Names : n # m => hmap'[n] = hmap[n]
        /\ hmap' \in [Names -> Infos \cup {NULL}]
    BY <1>0, <2>1, <2>2 DEF Typed
  <2>5. Typed'
    BY <1>0, <1>2, <1>3, <2>3, <2>4 DEF Typed
  <2>6. Holders(h) = {}
    BY <2>2 DEF Holders
  <2>7. Counted'
    <3>1. info'[h].refcnt = Cardinality(Holders(h)) + 1
      BY <2>3, <2>6, FS_EmptySet, SMT
    <3>2. thread[t].h # h /\ thread'[t].h = h /\ thread[t].h \notin Infos
      BY <1>3, <1>4, <2>2, HandleMgrAssumption, SMT
    <3> QED BY <1>0, <1>3, <2>2, <2>3, <3>1, <3>2, CountsUp
  <2>8. \A n \in Names : hmap[n] # NULL => hmap[n] \in Infos /\ hmap[n] # h
    BY <1>0, <2>2, SMT DEF Mapped, Typed
  <2>9. Mapped'
    BY <1>0, <1>2, <2>3, <2>4, <2>8, SMT DEF Mapped
  <2>10. ASSUME NEW u \in Threads PROVE ThreadFits(u)'
    <3>1. CASE u = t
      BY <1>2, <1>3, <2>2, <2>4, <3>1, HandleMgrAssumption, SMTT(20) DEF ThreadFits
    <3>2. CASE u # t
      <4>1. ThreadFits(u) /\ thread'[u] = thread[u] /\ thread[u].h # h
        BY <1>0, <1>3, <2>2, <3>2
      <4>2. thread[u].h # NULL => thread[u].h \in Infos /\ thread[u].m # m
        BY <1>0, <1>5, <4>1, SMT DEF ThreadFits, Typed, ThreadType
      <4> QED BY <1>2, <2>3, <2>4, <4>1, <4>2, SMT DEF ThreadFits
    <3> QED BY <3>1, <3>2
  <2> QED BY <2>5, <2>7, <2>9, <2>10 DEF IInv
<1>6. CASE hmap[m] # NULL /\ info[hmap[m]].del
  <2>1. h = NULL /\ UNCHANGED <<hmap, info>> /\ m \in failed
    BY <1>0, <1>1, <1>6 DEF get_handle, NoInfo, Mapped
  <2>2. Typed' /\ Mapped'
    BY <1>0, <1>2, <1>3, <2>1 DEF Typed, Mapped
  <2>3. \A u \in Threads : thread'[u].h = thread[u].h
    BY <1>3, <1>4, <2>1, SMT
  <2>4. Counted'
    BY <1>0, <2>1, <2>3, CountsStay
  <2>5. \A u \in Threads : ThreadFits(u)'
    BY <1>0, <1>2, <1>3, <2>1, SMTT(20) DEF ThreadFits
  <2> QED BY <2>2, <2>4, <2>5 DEF IInv
<1>7. CASE hmap[m] # NULL /\ ~info[hmap[m]].del
  <2>1. /\ h = hmap[m] /\ h \in Infos /\ UNCHANGED hmap
        /\ info' = [info EXCEPT ![h].refcnt = @ + 1]
    BY <1>0, <1>1, <1>7 DEF get_handle, OldInfo, Typed
  <2>2. /\ info' \in [Infos -> InfoType]
        /\ info'[h].refcnt = info[h].refcnt + 1
        /\ \A i \in Infos : i # h => info'[i] = info[i]
        /\ \A i \in Infos : /\ info'[i].live = info[i].live /\ info'[i].m = info[i].m
                             /\ info'[i].cl = info[i].cl /\ info'[i].del = info[i].del
                             /\ info'[i].owner = info[i].owner
    BY <1>0, <2>1, SMT DEF Typed, InfoType
  <2>3. Typed'
    BY <1>0, <1>2, <1>3, <2>1, <2>2 DEF Typed
  <2>4. Counted'
    BY <1>0, <1>3, <1>4, <2>1, <2>2, CountsUp, HandleMgrAssumption, SMTT(20) DEF Counted
  <2>5. Mapped'
    BY <1>0, <1>2, <2>1, <2>2, SMTT(20) DEF Mapped, Typed
  <2>6. ASSUME NEW u \in Threads PROVE ThreadFits(u)'
    <3>1. CASE u = t
      BY <1>2, <1>3, <1>7, <2>1, <3>1, SMTT(30) DEF ThreadFits
    <3>2. CASE u # t
      <4>1. ThreadFits(u) /\ thread'[u] = thread[u] /\ thread[u].h \in Infos \cup {NULL}
        BY <1>0, <1>3, <3>2 DEF Typed, ThreadType
      <4> QED BY <1>2, <2>1, <2>2, <4>1, SMTT(20) DEF ThreadFits
    <3> QED BY <3>1, <3>2
  <2> QED BY <2>3, <2>4, <2>5, <2>6 DEF IInv
<1> QED BY <1>5, <1>6, <1>7

(* safebind finds what is known already; no hinfo changes.                 *)
LEMMA SafebindKnownKeeps ==
  ASSUME IInv, NEW t \in Threads, safebindKnown(t)
  PROVE  IInv'
<1> DEFINE h == thread[t].h
           cl == IF h = NULL \/ info[h].del THEN NULL ELSE info[h].cl
<1>0. Typed /\ Counted /\ Mapped /\ \A u \in Threads : ThreadFits(u)
  BY  DEF IInv
<1>1. /\ thread[t].at = "safebind" /\ UNCHANGED <<hmap, info, instance, failed, crashed>>
      /\ h # NULL => info[h].del \/ info[h].cl # NULL
      /\ thread' = [thread EXCEPT ![t].at = "call", ![t].cl = cl]
  BY DEF safebindKnown, Returned
<1>2. thread[t] \in ThreadType /\ (h # NULL => h \in Infos /\ info[h] \in InfoType)
  BY <1>0 DEF Typed, ThreadType
<1>3. cl \in Instances \cup {NULL}
  BY <1>2 DEF InfoType
<1>4. /\ thread'[t].at = "call" /\ thread'[t].cl = cl /\ thread'[t].h = h
      /\ thread'[t].m = thread[t].m
      /\ \A u \in Threads : u # t => thread'[u] = thread[u]
      /\ thread' \in [Threads -> ThreadType]
  BY <1>0, <1>1, <1>2, <1>3, ZenonT(40) DEF Typed, ThreadType
<1>5. Typed' /\ Mapped'
  BY <1>0, <1>1, <1>4 DEF Typed, Mapped
<1>6. Counted'
  BY <1>0, <1>1, <1>4, CountsStay
<1>7. ThreadFits(t)'
  <2>1. ThreadFits(t)
    BY <1>0
  <2>2. cl = NULL => thread[t].m \in failed
    BY <1>0, <1>1, <2>1 DEF ThreadFits, Mapped
  <2>3. cl # NULL => h # NULL /\ info[h].cl = cl
    OBVIOUS 
  <2> HIDE DEF cl
  <2> QED BY <1>1, <1>4, <2>1, <2>2, <2>3, SMTT(20) DEF ThreadFits
<1>8. \A u \in Threads : u # t => ThreadFits(u)'
  BY <1>0, <1>1, <1>4, SMT DEF ThreadFits
<1> QED BY <1>5, <1>6, <1>7, <1>8 DEF IInv

(* safebind locks cl_mutex to bind: nothing had been bound.                *)
LEMMA SafebindKeeps ==
  ASSUME IInv, NEW t \in Threads, safebind(t)
  PROVE  IInv'
<1> DEFINE h == thread[t].h
<1>0. Typed /\ Counted /\ Mapped /\ \A u \in Threads : ThreadFits(u)
  BY DEF IInv
<1>1. /\ thread[t].at = "safebind" /\ UNCHANGED <<hmap, instance, failed, crashed>>
      /\ h # NULL /\ info[h].owner = NULL /\ info[h].cl = NULL
      /\ info' = [info EXCEPT ![h].owner = t]
      /\ thread' = [thread EXCEPT ![t].at = "bind"]
  BY DEF safebind
<1>2. h \in Infos
  BY <1>0, <1>1 DEF Typed, ThreadType
<1>3. /\ thread'[t].at = "bind" /\ thread'[t].cl = thread[t].cl /\ thread'[t].h = h
      /\ thread'[t].m = thread[t].m
      /\ \A u \in Threads : u # t => thread'[u] = thread[u]
      /\ thread' \in [Threads -> ThreadType]
  BY <1>0, <1>1, SMTT(20) DEF Typed, ThreadType
<1>4. /\ info' \in [Infos -> InfoType] /\ info'[h].owner = t
      /\ \A i \in Infos : i # h => info'[i] = info[i]
      /\ \A i \in Infos : /\ info'[i].live = info[i].live /\ info'[i].m = info[i].m
                           /\ info'[i].cl = info[i].cl /\ info'[i].del = info[i].del
                           /\ info'[i].refcnt = info[i].refcnt
  BY <1>0, <1>1, <1>2, SMT DEF Typed, InfoType
<1>5. Typed'
  BY <1>0, <1>1, <1>3, <1>4 DEF Typed
<1>6. Mapped'
  BY <1>0, <1>1, <1>4, SMT DEF Mapped, Typed
<1>7. Counted'
  BY <1>0, <1>3, <1>4, CountsStay
<1>8. ThreadFits(t)'
  BY <1>0, <1>1, <1>2, <1>3, <1>4, SMTT(30) DEF ThreadFits
<1>9. ASSUME NEW u \in Threads, u # t PROVE ThreadFits(u)'
  <2>1. ThreadFits(u) /\ thread'[u] = thread[u] /\ thread[u].h \in Infos \cup {NULL}
    BY <1>0, <1>3, <1>9 DEF Typed, ThreadType
  <2>2. thread[u].at = "bind" => thread[u].h # h
    BY <1>1, <2>1, HandleMgrAssumption, SMT DEF ThreadFits
  <2>3. thread[u].h # NULL => info'[thread[u].h].cl = info[thread[u].h].cl
    BY <1>4, <2>1
  <2>4. thread[u].at = "bind" => info'[thread[u].h].owner = info[thread[u].h].owner
    BY <1>4, <2>1, <2>2 DEF ThreadFits
  <2>5. hmap' = hmap /\ failed' = failed
    BY <1>1
  <2> QED BY <2>1, <2>3, <2>4, <2>5 DEF ThreadFits
<1> QED BY <1>5, <1>6, <1>7, <1>8, <1>9 DEF IInv

(* bind ends: nobody else binds this hinfo or has an rpcc from it.         *)
LEMMA BindKeeps ==
  ASSUME IInv, NEW t \in Threads, bind(t)
  PROVE  IInv'
<1> DEFINE h == thread[t].h
           m == thread[t].m
<1>0. Typed /\ Counted /\ Mapped /\ \A u \in Threads : ThreadFits(u)
  BY DEF IInv
<1>1. /\ thread[t].at = "bind" /\ UNCHANGED <<hmap, instance, crashed>>
      /\ \/ /\ info' = [info EXCEPT ![h].owner = NULL, ![h].cl = instance[m]]
            /\ thread' = [thread EXCEPT ![t].at = "call", ![t].cl = instance[m]]
            /\ UNCHANGED failed
         \/ /\ info' = [info EXCEPT ![h].owner = NULL, ![h].del = TRUE]
            /\ thread' = [thread EXCEPT ![t].at = "call", ![t].cl = NULL]
            /\ failed' = failed \cup {m}
  BY  DEF bind, Returned, BindFailed
<1>2. /\ h \in Infos /\ m \in Names /\ hmap[m] = h
      /\ info[h].owner = t /\ info[h].cl = NULL
  BY <1>0, <1>1 DEF Typed, ThreadType, ThreadFits
<1>3. instance[m] \in Instances /\ instance[m] # NULL
  BY <1>0, <1>2, HandleMgrAssumption DEF Typed, Instances
<1>4. /\ thread'[t].at = "call" /\ thread'[t].h = h /\ thread'[t].m = m
      /\ \A u \in Threads : u # t => thread'[u] = thread[u]
      /\ thread' \in [Threads -> ThreadType]
  BY <1>0, <1>1, <1>3, SMTT(20) DEF Typed, ThreadType
<1>5. /\ info' \in [Infos -> InfoType]
      /\ \A i \in Infos : i # h => info'[i] = info[i]
      /\ \A i \in Infos : /\ info'[i].live = info[i].live /\ info'[i].m = info[i].m
                           /\ info'[i].refcnt = info[i].refcnt
  BY <1>0, <1>1, <1>2, <1>3, SMTT(30) DEF Typed, InfoType
<1>6. \/ /\ thread'[t].cl = instance[m] /\ info'[h].cl = instance[m]
         /\ info'[h].del = info[h].del /\ failed' = failed
      \/ /\ thread'[t].cl = NULL /\ failed' = failed \cup {m}
  BY <1>0, <1>1, <1>2, SMT DEF Typed, ThreadType, InfoType
<1>7. Typed'
  BY <1>0, <1>1, <1>2, <1>4, <1>5, <1>6 DEF Typed
<1>8. Counted'
  BY <1>0, <1>4, <1>5, CountsStay
<1>9. Mapped'
  <2> SUFFICES ASSUME NEW n \in Names, hmap[n] # NULL
               PROVE  /\ info'[hmap[n]].live /\ info'[hmap[n]].m = n
                      /\ info'[hmap[n]].del => n \in failed'
    BY <1>1 DEF Mapped
  <2>1. /\ hmap[n] \in Infos /\ info[hmap[n]].live /\ info[hmap[n]].m = n
        /\ info[hmap[n]].del => n \in failed
    BY <1>0, SMT DEF Mapped, Typed
  <2>2. CASE hmap[n] = h
    <3>1. n = m
      BY <1>0, <1>2, <2>1, <2>2, HandleMgrAssumption, SMTT(20) DEF Mapped
    <3> QED BY <1>5, <1>6, <2>1, <2>2, <3>1
  <2>3. CASE hmap[n] # h
    BY <1>5, <1>6, <2>1, <2>3
  <2> QED BY <2>2, <2>3
<1>10. ThreadFits(t)'
  BY <1>1, <1>2, <1>3, <1>4, <1>6, HandleMgrAssumption DEF ThreadFits
<1>11. ASSUME NEW u \in Threads, u # t PROVE ThreadFits(u)'
  <2>1. ThreadFits(u) /\ thread'[u] = thread[u] /\ thread[u].h \in Infos \cup {NULL}
    BY <1>0, <1>4, <1>11 DEF Typed, ThreadType
  <2>2. thread[u].at = "bind" \/ thread[u].cl # NULL => thread[u].h # h /\ thread[u].h \in Infos
    BY <1>2, <1>11, <2>1 DEF ThreadFits
  <2>3. thread[u].at = "bind" \/ thread[u].cl # NULL => info'[thread[u].h] = info[thread[u].h]
    BY <1>5, <2>2
  <2>4. failed \subseteq failed'
    BY <1>6
  <2>5. hmap' = hmap
    BY <1>1
  <2> QED BY <2>1, <2>3, <2>4, <2>5 DEF ThreadFits
<1> QED BY <1>7, <1>8, <1>9, <1>10, <1>11 DEF IInv

(* The handle goes out of scope.  If that deletes the hinfo, no handle is  *)
(* left that points at it.                                                 *)
LEMMA DoneKeeps ==
  ASSUME IInv, NEW t \in Threads, thread[t].h # NULL, done_handle(thread[t].h),
         thread' = [thread EXCEPT ![t] = Idle], UNCHANGED <<instance, failed, crashed>>
  PROVE  IInv'
<1> DEFINE h == thread[t].h
           m == thread[t].m
           gone == info[h].refcnt - 1 = 0 /\ info[h].del
<1>0. Typed /\ Counted /\ Mapped /\ \A u \in Threads : ThreadFits(u)
  BY DEF IInv
<1>1. h \in Infos /\ m \in Names /\ hmap[m] = h /\ info[h].live /\ info[h].m = m
  BY <1>0, SMT DEF Typed, ThreadType, ThreadFits, Mapped
<1>2. /\ thread'[t] = Idle /\ \A u \in Threads : u # t => thread'[u] = thread[u]
      /\ thread' \in [Threads -> ThreadType]
  BY <1>0 DEF Typed, ThreadType, Idle
<1>3. info[h].refcnt \in Nat /\ info[h].refcnt - 1 \in Nat
  <2>1. t \in Holders(h)
    BY DEF Holders
  <2>2. Cardinality(Holders(h)) # 0
    BY <2>1, HoldersFinite, FS_EmptySet
  <2>3. info[h].refcnt = Cardinality(Holders(h)) /\ Cardinality(Holders(h)) \in Nat
    BY <1>0, <1>1, HoldersFinite DEF Counted
  <2> QED BY <2>2, <2>3, SMT
<1>4. /\ \A i \in Infos : i # h => info'[i] = info[i]
      /\ info'[h].refcnt = info[h].refcnt - 1
      /\ info' \in [Infos -> InfoType]
      /\ gone => hmap' = [hmap EXCEPT ![m] = NULL]
      /\ ~gone => /\ hmap' = hmap /\ info'[h].live = info[h].live /\ info'[h].m = info[h].m
                  /\ info'[h].cl = info[h].cl /\ info'[h].del = info[h].del
                  /\ info'[h].owner = info[h].owner
  <2> DEFINE j == [info EXCEPT ![h].refcnt = @ - 1]
  <2>1. /\ j \in [Infos -> InfoType] /\ \A i \in Infos : i # h => j[i] = info[i]
        /\ j[h].refcnt = info[h].refcnt - 1 /\ j[h].live = info[h].live /\ j[h].m = info[h].m
        /\ j[h].cl = info[h].cl /\ j[h].del = info[h].del /\ j[h].owner = info[h].owner
    BY <1>0, <1>1, <1>3, ZenonT(40) DEF Typed, InfoType
  <2>2. IF j[h].refcnt = 0 /\ j[h].del
        THEN hmap' = [hmap EXCEPT ![j[h].m] = NULL] /\ info' = [j EXCEPT ![h] = Freed]
        ELSE info' = j /\ hmap' = hmap
    BY DEF done_handle, delete_handle_wo
  <2> HIDE DEF j
  <2>3. CASE gone
    <3>1. hmap' = [hmap EXCEPT ![m] = NULL] /\ info' = [j EXCEPT ![h] = Freed]
      BY <1>1, <2>1, <2>2, <2>3, SMT
    <3>2. Freed \in InfoType /\ Freed.refcnt = 0
      BY  DEF Freed, InfoType
    <3> QED BY <1>1, <2>1, <2>3, <3>1, <3>2
  <2>4. CASE ~gone
    BY <2>1, <2>2, <2>4, ZenonT(40)
  <2> QED BY <2>3, <2>4
<1>5. Counted'
  <2>1. thread'[t].h \notin Infos
    BY <1>2, HandleMgrAssumption DEF Idle
  <2> QED BY <1>0, <1>1, <1>2, <1>4, <2>1, CountsDown, SMTT(20)
<1>6. gone => \A u \in Threads : u # t => thread[u].h # h
  <2> SUFFICES ASSUME gone, NEW u \in Threads, u # t, NEW g \in Infos, g = h
               PROVE  thread[u].h # g
    BY <1>1
  <2>1. Holders(g)' = {}
    <3>1. info'[g].refcnt = 0
      BY <1>4
    <3>2. Cardinality(Holders(g)') = 0
      BY <1>5, <3>1 DEF Counted
    <3>3. Holders(g)' \subseteq Threads
      BY DEF Holders
    <3>4. IsFiniteSet(Holders(g)')
      BY <3>3, FS_Subset, HandleMgrAssumption
    <3> QED BY <3>2, <3>4, FS_EmptySet
  <2>2. thread[u].h = g => u \in Holders(g)'
    BY <1>2 DEF Holders
  <2> QED BY <2>1, <2>2
<1>7. /\ hmap' \in [Names -> Infos \cup {NULL}]
      /\ \A n \in Names : n # m => hmap'[n] = hmap[n]
      /\ hmap'[m] = IF gone THEN NULL ELSE h
  BY <1>0, <1>1, <1>4, ZenonT(40) DEF Typed
<1> HIDE DEF gone
<1>8. Typed'
  BY <1>0, <1>2, <1>4, <1>7 DEF Typed
<1>9. \A n \in Names : n # m => hmap[n] # h
  BY <1>0, <1>1, HandleMgrAssumption DEF Mapped
<1>10. Mapped'
  <2> SUFFICES ASSUME NEW n \in Names, hmap'[n] # NULL
               PROVE  /\ info'[hmap'[n]].live /\ info'[hmap'[n]].m = n
                      /\ info'[hmap'[n]].del => n \in failed
    BY DEF Mapped
  <2>1. CASE n = m
    BY <1>0, <1>1, <1>4, <1>7, <2>1 DEF Mapped
  <2>2. CASE n # m
    <3>1. hmap'[n] = hmap[n] /\ hmap[n] \in Infos /\ info'[hmap[n]] = info[hmap[n]]
      BY <1>0, <1>4, <1>7, <1>9, <2>2, SMT DEF Typed
    <3> QED BY <1>0, <3>1, SMTT(20) DEF Mapped
  <2> QED BY <2>1, <2>2
<1>11. ThreadFits(t)'
  BY <1>2 DEF ThreadFits, Idle
<1>12. ASSUME NEW u \in Threads, u # t PROVE ThreadFits(u)'
  <2>1. ThreadFits(u) /\ thread'[u] = thread[u] /\ thread[u].h \in Infos \cup {NULL}
    BY <1>0, <1>2, <1>12 DEF Typed, ThreadType
  <2>2. thread[u].h # NULL => hmap'[thread[u].m] = hmap[thread[u].m]
    BY <1>1, <1>6, <1>7, <1>12, <2>1, ZenonT(40) DEF ThreadFits
  <2>3. thread[u].h # NULL => /\ info'[thread[u].h].cl = info[thread[u].h].cl
                              /\ info'[thread[u].h].owner = info[thread[u].h].owner
    BY <1>4, <1>6, <1>12, <2>1
  <2>0. failed' = failed
    BY SMT
  <2>4. CASE thread[u].h = NULL
    BY <2>0, <2>1, <2>4, SMT DEF ThreadFits
  <2>5. CASE thread[u].h # NULL
    BY <2>0, <2>1, <2>2, <2>3, <2>5 DEF ThreadFits
  <2> QED BY <2>4, <2>5
<1> QED BY <1>5, <1>8, <1>10, <1>11, <1>12 DEF IInv

(* Call: through a NULL pointer, or to the client and then out of scope.   *)
LEMMA CallKeeps ==
  ASSUME IInv, NEW t \in Threads, Call(t)
  PROVE  IInv'
<1>0. Typed /\ Counted /\ Mapped /\ \A u \in Threads : ThreadFits(u)
  BY DEF IInv
<1>1. CASE crashed' = TRUE /\ UNCHANGED <<hmap, info, thread, instance, failed>>
  BY <1>0, <1>1, CountsStay, SMT DEF IInv, Typed, Mapped, ThreadFits
<1>2. CASE /\ thread[t].h = NULL /\ UNCHANGED <<hmap, info, instance, failed, crashed>>
           /\ thread' = [thread EXCEPT ![t] = Idle]
  <2>1. /\ thread'[t] = Idle /\ \A u \in Threads : u # t => thread'[u] = thread[u]
        /\ thread' \in [Threads -> ThreadType]
    BY <1>0, <1>2, SMT DEF Typed, ThreadType, Idle
  <2>2. \A u \in Threads : thread'[u].h = thread[u].h
    BY <1>2, <2>1 DEF Idle
  <2>3. Counted'
    BY <1>0, <1>2, <2>2, CountsStay
  <2>4. Typed' /\ Mapped'
    BY <1>0, <1>2, <2>1, SMTT(20) DEF Typed, Mapped
  <2>5. ThreadFits(t)'
    BY <2>1, SMTT(20) DEF ThreadFits, Idle
  <2>6. \A u \in Threads : u # t => ThreadFits(u)'
    BY <1>0, <1>2, <2>1, SMT DEF ThreadFits
  <2> QED BY <2>3, <2>4, <2>5, <2>6 DEF IInv
<1>3. CASE /\ thread[t].h # NULL /\ done_handle(thread[t].h)
           /\ UNCHANGED <<instance, failed, crashed>>
           /\ thread' = [thread EXCEPT ![t] = Idle]
  BY <1>3, DoneKeeps
<1> QED BY <1>1, <1>2, <1>3 DEF Call

(* A restart changes only which instance answers a bind.                   *)
LEMMA RestartKeeps ==
  ASSUME IInv, NEW m \in Names, Restart(m)
  PROVE  IInv'
<1>0. Typed /\ Counted /\ Mapped /\ \A u \in Threads : ThreadFits(u)
  BY DEF IInv
<1>1. /\ UNCHANGED <<hmap, info, thread, failed, crashed>>
      /\ instance[m] < MaxInstance /\ instance' = [instance EXCEPT ![m] = @ + 1]
  BY DEF Restart
<1>2. instance' \in [Names -> Instances]
  BY <1>0, <1>1, HandleMgrAssumption, SMT DEF Typed, Instances
<1>3. Counted'
  BY <1>0, <1>1, CountsStay
<1> QED BY <1>0, <1>1, <1>2, <1>3, SMT DEF IInv, Typed, Mapped, ThreadFits

(* Every step keeps the invariant.                                         *)
LEMMA Inductive == IInv /\ [Next]_vars => IInv'
<1> SUFFICES ASSUME IInv, [Next]_vars PROVE IInv'
  OBVIOUS 
<1>1. CASE UNCHANGED vars
  <2>1. UNCHANGED <<hmap, info, thread, instance, failed, crashed>>
    BY <1>1 DEF vars
  <2>2. Counted'
    BY <2>1, CountsStay DEF IInv
  <2> QED BY <2>1, <2>2, SMT DEF IInv, Typed, Mapped, ThreadFits
<1>2. ASSUME NEW t \in Threads, NEW m \in Names,
             handle(t, "revoke", m) \/ handle(t, "retry", m)
      PROVE  IInv'
  BY <1>2, HandleKeeps
<1>3. ASSUME NEW t \in Threads, Step(t) PROVE IInv'
  BY <1>3, SafebindKnownKeeps, SafebindKeeps, BindKeeps, CallKeeps DEF Step
<1>4. ASSUME NEW m \in Names, Restart(m) PROVE IInv'
  BY <1>4, RestartKeeps
<1> QED BY <1>1, <1>2, <1>3, <1>4 DEF Next

(* The invariant holds always.                                             *)
THEOREM Invariant == Spec => []IInv
  BY Initially, Inductive, PTL DEF Spec

(* TypeOK: no count of an hinfo exceeds the number of handlers, or falls   *)
(* below 0 in done_handle (handle.cc:76).                                  *)
THEOREM TypeCorrect == Spec => []TypeOK
<1>1. IInv => TypeOK
  <2> SUFFICES ASSUME IInv PROVE TypeOK
    OBVIOUS
  <2>1. \A i \in Infos : info[i].refcnt \in 0..Cardinality(Threads)
    <3> SUFFICES ASSUME NEW i \in Infos PROVE info[i].refcnt \in 0..Cardinality(Threads)
      OBVIOUS
    <3>1. Holders(i) \subseteq Threads
      BY DEF Holders
    <3>2. Cardinality(Holders(i)) <= Cardinality(Threads)
      BY <3>1, FS_Subset, HandleMgrAssumption
    <3>3. Cardinality(Threads) \in Nat /\ Cardinality(Holders(i)) \in Nat
      BY FS_CardinalityType, HandleMgrAssumption, HoldersFinite
    <3> QED BY <3>2, <3>3, SMT DEF IInv, Counted
  <2>2. \A i \in Infos : info[i] \in [live : BOOLEAN, m : Names \cup {NULL},
                                      cl : Instances \cup {NULL},
                                      refcnt : 0..Cardinality(Threads),
                                      del : BOOLEAN, owner : Threads \cup {NULL}]
    BY <2>1 DEF IInv, Typed, InfoType
  <2> QED BY <2>2 DEF IInv, Typed, ThreadType, TypeOK
<1> QED BY <1>1, Invariant, PTL

(* No handler ever uses an hinfo or an rpcc that was deleted: done_handle  *)
(* and delete_handle_wo free only what no handle points at.                *)
THEOREM NothingDeletedIsUsed == Spec => []HeldIsMapped
<1>1. IInv => HeldIsMapped
  <2> SUFFICES ASSUME IInv, NEW t \in Threads
               PROVE  /\ thread[t].h # NULL => /\ hmap[thread[t].m] = thread[t].h
                                               /\ info[thread[t].h].live
                      /\ thread[t].cl # NULL => info[thread[t].h].cl = thread[t].cl
    BY DEF HeldIsMapped
  <2> QED BY DEF IInv, ThreadFits, Mapped
<1> QED BY <1>1, Invariant, PTL

(* safebind returns NULL only for a client to which a bind has failed, so  *)
(* release's untested call is safe for all others (lock_server_cache.cc).  *)
THEOREM NullOnlyAfterFailure == Spec => []OnlyFailedBindCrashes
<1>1. IInv => OnlyFailedBindCrashes
  BY DEF IInv, ThreadFits, OnlyFailedBindCrashes
<1> QED BY <1>1, Invariant, PTL
=============================================================================
