--------------------------- MODULE LockCalmProofs ---------------------------
(***************************************************************************)
(* The replies to the clients, their releases and callbacks and the        *)
(* server's handlers keep Calm too, so it is an invariant of LockCache;    *)
(* and what follows from it.                                               *)
(***************************************************************************)
EXTENDS LockCacheProofs

(* The server has granted the lock, ...                                    *)
LEMMA GrantedCalm ==
  ASSUME IInv, Steady, ~overtaken, NEW k \in Slots, call[k].st = "OK",
         NEW l \in Locks, call[k].lid = l, AcquireReply(k), UNCHANGED serverVars
  PROVE Steady'
<1> DEFINE w == Caller(k)
           c == Source(k)
<1>0. /\ CallsTypeOK /\ ClientTypeOK /\ call[k].st \in AcquireCalls
      /\ where_is_lock' = where_is_lock /\ who_waiting_lock' = who_waiting_lock
      /\ serverlock_mutex' = serverlock_mutex
  BY Zenon DEF IInv, TypeOK, serverVars, AcquireCalls
<1>1. /\ w \in Workers /\ w \in Threads /\ ClientOf[w] = c /\ pc[w] = "acquiring"
      /\ arg[w] = l /\ l \in Locks /\ c \in Clients
      /\ lockmap_mutex[c] /\ lockstate_map[c][l] = "NONE"
      /\ \A j \in Slots : call[j].st \in AcquireCalls /\ Source(j) = c => j = k
  BY <1>0, Asker, Names, Zenon
<1>2. /\ SetLock(c, l, "LOCKED") /\ SetMutex(c, FALSE) /\ Consume(k)
      /\ held' = [held EXCEPT ![w] = @ \cup {l}] /\ GoTo(w, "idle", None)
      /\ late' = late
  BY <1>1, Zenon DEF AcquireReply
<1> HIDE DEF w, c
<1>a. (\A t \in Threads : t # w => Still(t)) /\ pc'[w] = "idle"
  BY <1>0, <1>1, <1>2, Zenon DEF ClientTypeOK, GoTo, Still
<1>b. /\ \A d \in Clients, m \in Locks :
           lockstate_map'[d][m] = IF d = c /\ m = l THEN "LOCKED" ELSE lockstate_map[d][m]
      /\ \A d \in Clients : d # c => lockstate_map'[d] = lockstate_map[d]
  BY <1>0, <1>1, <1>2, Zenon DEF ClientTypeOK, SetLock
<1>c. \A d \in Clients : d # c => lockmap_mutex'[d] = lockmap_mutex[d]
  BY <1>0, <1>1, <1>2, Zenon DEF ClientTypeOK, SetMutex
<1>d. /\ l \in held'[w]
      /\ \A v \in Workers, m \in Locks :
           m # l \/ ClientOf[v] # c => (m \in held'[v] <=> m \in held[v])
  BY <1>0, <1>1, <1>2, Zenon DEF ClientTypeOK
<1>e. call'[k] = Idle /\ \A j \in Slots : j # k => call'[j] = call[j]
  BY <1>0, <1>2, CallFields, CallUpdate, Zenon DEF Consume
<1>3. NoLate' /\ \A j \in Slots : CalmCall(j)'
  <2>1. CalmCall(k)'
    BY <1>e, CallFields, Zenon DEF CalmCall
  <2>2. ASSUME NEW j \in Slots, j # k PROVE CalmCall(j)'
    BY <1>0, <1>e, <2>2, CallFields, Z3T(30) DEF CalmCall, Steady
  <2> QED BY <1>2, <2>1, <2>2, Zenon DEF NoLate, Steady
<1>4. \A v \in Workers : CalmWorker(v)'
  <2>1. \A v \in Workers : pc[v] = "acquiring" /\ v # w => ClientOf[v] # c
    BY <1>1, Zenon DEF Steady, CalmWorker
  <2>2. \A v \in Workers : pc'[v] # "retest"
    BY <1>a, Names, ZenonT(40) DEF Still, Steady, CalmWorker
  <2>3. \A v \in Workers : pc'[v] = "acquiring" =>
          Still(v) /\ ClientOf[v] # c /\ ClientOf[v] \in Clients
    BY <1>a, <2>1, Names DEF Still
  <2> QED BY <1>b, <1>c, <2>2, <2>3, AskersCalm, Zenon
<1>5. Elsewhere(c, l)
  <2>1. \A d \in Clients, m \in Locks : d # c \/ m # l => SameState(d, m)
    BY <1>b, Zenon DEF SameState, InUse, Cached
  <2>2. \A v \in Workers : \/ Still(v)
                           \/ /\ ClientOf[v] = c
                              /\ pc[v] \in {"waiting", "woken"} => arg[v] = l
                              /\ pc'[v] \in {"waiting", "woken"} => arg'[v] = l
    BY <1>1, <1>a, Names, Zenon
  <2>3. \A t \in Threads, m \in Locks : m # l /\ InFlush(t, m) => InFlush(t, m)'
    BY <1>1, <1>a DEF InFlush, Still
  <2>4. \A j \in Slots : call'[j] = call[j] \/ OnlyAbout(j, c, l)
    BY <1>e, CallFields, Zenon DEF OnlyAbout, c
  <2> QED BY <1>0, <1>1, <1>d, <2>1, <2>2, <2>3, <2>4, Frame, ZenonT(40)
<1>6. ~InQueue(c, l)' /\ \A j \in Slots : ~Told(j, c, l)' /\ ~RetryTo(j, c, l)'
  <2>1. \A j \in Slots : ~Told(j, c, l)
    BY <1>1, Zenon DEF Told, AcquireCalls
  <2>2. ~InQueue(c, l)
    BY <1>1, <2>1, Zenon DEF Steady, CalmQueue
  <2>3. \A j \in Slots : ~Told(j, c, l)' /\ ~RetryTo(j, c, l)'
    BY <1>e, <2>1, <2>2, CallFields, Zenon DEF Told, RetryTo, InQueue
  <2> QED BY <1>0, <2>2, <2>3, Zenon DEF InQueue
<1>7. CalmState(c, l)'
  <2>1. lockstate_map'[c][l] = "LOCKED"
    BY <1>1, <1>b, Zenon
  <2>2. HeldHere(c, l)'
    BY <1>1, <1>d, Zenon DEF HeldHere
  <2> QED BY <2>1, <2>2, Zenon DEF CalmState, InUse
<1>8. CalmQueue(c, l)'
  BY <1>6 DEF CalmQueue
<1>9. CalmLock(l)'
  <2>1. OneToken(l) /\ InCall(k, l)
    BY <1>1 DEF IInv, Tokens, InCall
  <2>2. where_is_lock[l] # None
    BY <1>1, <2>1, Names, ZenonT(40) DEF OneToken, c
  <2> QED BY <1>0, <1>1, <1>d, <2>2, Zenon DEF CalmLock, Somewhere, Steady
<1> QED BY <1>1, <1>3, <1>4, <1>5, <1>7, <1>8, <1>9, Local, Zenon

(* ... or tells the client to wait.                                        *)
LEMMA ToldCalm ==
  ASSUME IInv, Steady, NEW k \in Slots, call[k].st = "RETRY",
         NEW l \in Locks, call[k].lid = l, AcquireReply(k), UNCHANGED serverVars
  PROVE Steady'
<1> DEFINE w == Caller(k)
           c == Source(k)
<1>0. /\ CallsTypeOK /\ ClientTypeOK /\ call[k].st \in AcquireCalls
      /\ where_is_lock' = where_is_lock /\ who_waiting_lock' = who_waiting_lock
      /\ serverlock_mutex' = serverlock_mutex
  BY DEF IInv, TypeOK, serverVars, AcquireCalls
<1>1. /\ w \in Workers /\ w \in Threads /\ ClientOf[w] = c /\ pc[w] = "acquiring"
      /\ arg[w] = l /\ l \in Locks /\ c \in Clients
      /\ lockmap_mutex[c] /\ lockstate_map[c][l] = "NONE"
      /\ \A j \in Slots : call[j].st \in AcquireCalls /\ Source(j) = c => j = k
  BY <1>0, Asker, Names, Zenon
<1>2. /\ SetLock(c, l, "ACQUIRING") /\ SetMutex(c, FALSE) /\ Consume(k)
      /\ held' = held /\ GoTo(w, "waiting", l) /\ late' = late
  BY <1>1, Zenon DEF AcquireReply
<1> HIDE DEF w, c
<1>a. (\A t \in Threads : t # w => Still(t)) /\ pc'[w] = "waiting" /\ arg'[w] = l
  BY <1>0, <1>1, <1>2, Zenon DEF ClientTypeOK, GoTo, Still
<1>b. /\ \A d \in Clients, m \in Locks :
           lockstate_map'[d][m] = IF d = c /\ m = l THEN "ACQUIRING"
                                  ELSE lockstate_map[d][m]
      /\ \A d \in Clients : d # c => lockstate_map'[d] = lockstate_map[d]
  BY <1>0, <1>1, <1>2, Zenon DEF ClientTypeOK, SetLock
<1>c. \A d \in Clients : d # c => lockmap_mutex'[d] = lockmap_mutex[d]
  BY <1>0, <1>1, <1>2, Zenon DEF ClientTypeOK, SetMutex
<1>e. call'[k] = Idle /\ \A j \in Slots : j # k => call'[j] = call[j]
  BY <1>0, <1>2, CallFields, CallUpdate, Zenon DEF Consume
<1>3. NoLate' /\ \A j \in Slots : CalmCall(j)'
  <2>1. CalmCall(k)'
    BY <1>e, CallFields, Zenon DEF CalmCall
  <2>2. ASSUME NEW j \in Slots, j # k PROVE CalmCall(j)'
    BY <1>0, <1>e, <2>2, CallFields, ZenonT(40) DEF CalmCall, Steady
  <2> QED BY <1>2, <2>1, <2>2, Zenon DEF NoLate, Steady
<1>4. \A v \in Workers : CalmWorker(v)'
  <2>1. \A v \in Workers : pc[v] = "acquiring" /\ v # w => ClientOf[v] # c
    BY <1>1, Z3 DEF Steady, CalmWorker
  <2>2. \A v \in Workers : pc'[v] # "retest"
    BY <1>a, Names, Z3 DEF Still, Steady, CalmWorker
  <2>3. \A v \in Workers : pc'[v] = "acquiring" =>
          Still(v) /\ ClientOf[v] # c /\ ClientOf[v] \in Clients
    BY <1>a, <2>1, Names, Zenon DEF Still
  <2> QED BY <1>b, <1>c, <2>2, <2>3, AskersCalm
<1>5. Elsewhere(c, l)
  <2>1. \A d \in Clients, m \in Locks : d # c \/ m # l => SameState(d, m)
    BY <1>b, ZenonT(40) DEF SameState, InUse, Cached
  <2>2. \A v \in Workers : \/ Still(v)
                           \/ /\ ClientOf[v] = c
                              /\ pc[v] \in {"waiting", "woken"} => arg[v] = l
                              /\ pc'[v] \in {"waiting", "woken"} => arg'[v] = l
    BY <1>1, <1>a, Names, Zenon
  <2>3. \A t \in Threads, m \in Locks : m # l /\ InFlush(t, m) => InFlush(t, m)'
    BY <1>1, <1>a, Zenon DEF InFlush, Still
  <2>4. \A j \in Slots : call'[j] = call[j] \/ OnlyAbout(j, c, l)
    BY <1>e, CallFields, Zenon DEF OnlyAbout, c
  <2> QED BY <1>0, <1>1, <1>2, <2>1, <2>2, <2>3, <2>4, Frame, ZenonT(40)
<1>s. CalmState(c, l) /\ CalmQueue(c, l) /\ CalmLock(l)
  BY <1>1, Zenon DEF Steady
<1>6. /\ \A j \in Slots : /\ ~Told(j, c, l)'
                          /\ \A d : RetryTo(j, d, l)' <=> RetryTo(j, d, l)
      /\ \A d : InQueue(d, l)' <=> InQueue(d, l)
      /\ InQueue(c, l)
  <2>1. \A j \in Slots : Told(j, c, l) => j = k
    BY <1>1 DEF Told, AcquireCalls
  <2>2. Told(k, c, l)
    BY Zenon DEF Told, c
  <2>3. \A j \in Slots : /\ ~Told(j, c, l)'
                         /\ \A d : RetryTo(j, d, l)' <=> RetryTo(j, d, l)
    BY <1>e, <2>1, CallFields, SMTT(20) DEF Told, RetryTo
  <2>4. InQueue(c, l)
    BY <1>s, <2>2, Zenon DEF CalmQueue
  <2> QED BY <1>0, <2>3, <2>4, Z3T(30) DEF InQueue
<1>t. lockstate_map'[c][l] = "ACQUIRING" /\ ~InUse(c, l)
  BY <1>1, <1>b, Zenon DEF InUse
<1>7. CalmState(c, l)'
  <2>1. ~HeldHere(c, l)'
    BY <1>2, <1>s, <1>t, SMTT(20) DEF CalmState, HeldHere
  <2> QED BY <1>6, <1>t, <2>1, Zenon DEF CalmState, InUse
<1>8. CalmQueue(c, l)'
  <2>1. Awaits(w, c, l)'
    BY <1>1, <1>a DEF Awaits
  <2> QED BY <1>0, <1>1, <1>6, <1>a, <1>s, <1>t, <2>1, ZenonT(40) DEF CalmQueue
<1>9. CalmLock(l)'
  <2>1. \A j \in Slots : InCall(j, l) => InCall(j, l)'
    BY <1>e, Zenon DEF InCall
  <2>2. \A d \in Clients : Cached(d, l) => Cached(d, l)'
    BY <1>1, <1>b, Zenon DEF Cached
  <2>3. \A t \in Threads : InFlush(t, l) => InFlush(t, l)'
    BY <1>1, <1>a, Zenon DEF InFlush, Still
  <2>4. Somewhere(l) => Somewhere(l)'
    BY <1>2, <2>1, <2>2, <2>3, ZenonT(40) DEF Somewhere
  <2>5. Asking(l) => Asking(l)'
    <3>1. ASSUME NEW j \in Slots, call[j].st \in {"retry", "acquire"}, call[j].lid = l
          PROVE Asking(l)'
      BY <1>e, <3>1, ZenonT(40) DEF Asking
    <3>2. ASSUME NEW v \in Workers, pc[v] = "woken", arg[v] = l,
                 lockstate_map[ClientOf[v]][l] = "NONE", ~InQueue(ClientOf[v], l)
          PROVE Asking(l)'
      <4>1. v # w /\ ClientOf[v] # c /\ ClientOf[v] \in Clients /\ v \in Threads
        BY <1>1, <1>6, <3>2, Names, Zenon
      <4> QED BY <1>6, <1>a, <1>b, <3>2, <4>1, ZenonT(40) DEF Asking, Still
    <3> QED BY <3>1, <3>2, Zenon DEF Asking
  <2> QED BY <1>0, <1>s, <2>4, <2>5, ZenonT(40) DEF CalmLock
<1> QED BY <1>1, <1>3, <1>4, <1>5, <1>7, <1>8, <1>9, Local, Zenon

(* Both replies.                                                           *)
LEMMA AcquireReplyCalm ==
  ASSUME IInv, Steady, ~overtaken, NEW k \in Slots, AcquireReply(k),
         UNCHANGED serverVars
  PROVE Steady'
<1>1. call[k].st \in {"OK", "RETRY"}
  BY Zenon DEF AcquireReply, Steady, CalmCall
<1>2. call[k].lid \in Locks
  BY <1>1 DEF IInv, CallsFit, CallFits
<1> QED BY <1>1, <1>2, GrantedCalm, ToldCalm, Zenon

(* release(): everybody at the client who waits for the lock wakes up.     *)
LEMMA WokenAll ==
  ASSUME ClientTypeOK, NEW c, NEW l
  PROVE \A t \in Threads :
          Woken(c, l)[t] = IF pc[t] = "waiting" /\ Home(t) = c /\ arg[t] = l
                           THEN "woken" ELSE pc[t]
BY DEF Woken

(* release() to the cache or, if the lock was revoked, to the flush.       *)
LEMMA ReleaseCalm ==
  ASSUME IInv, Steady, ~overtaken, NEW w \in Workers, NEW l \in Locks,
         Release(w, l), UNCHANGED serverVars
  PROVE Steady'
<1> DEFINE c == ClientOf[w]
           q == Woken(c, l)
<1>0. /\ ClientTypeOK /\ c \in Clients /\ w \in Threads /\ Home(w) = c
      /\ call' = call /\ late' = late /\ where_is_lock' = where_is_lock
      /\ who_waiting_lock' = who_waiting_lock /\ serverlock_mutex' = serverlock_mutex
      /\ lockmap_mutex' = lockmap_mutex
  BY Names, Zenon DEF IInv, TypeOK, Release, callVars, serverVars
<1>1. /\ pc[w] = "idle" /\ l \in held[w] /\ ~lockmap_mutex[c]
      /\ held' = [held EXCEPT ![w] = @ \ {l}]
      /\ \/ SetLock(c, l, "NONE") /\ pc' = [q EXCEPT ![w] = "flush"]
                                  /\ arg' = [arg EXCEPT ![w] = l]
         \/ SetLock(c, l, "FREE") /\ pc' = q /\ arg' = arg
  BY Zenon DEF Release
<1>2. /\ q \in [Threads -> PCs]
      /\ \A t \in Threads :
           q[t] = IF pc[t] = "waiting" /\ Home(t) = c /\ arg[t] = l
                  THEN "woken" ELSE pc[t]
  BY <1>0, WokenMoves, WokenAll, Z3T(30)
<1> HIDE DEF c, q
<1>a. /\ \A t \in Threads :
           t # w => /\ arg'[t] = arg[t]
                    /\ pc'[t] = IF pc[t] = "waiting" /\ Home(t) = c /\ arg[t] = l
                                THEN "woken" ELSE pc[t]
      /\ \/ pc'[w] = "flush" /\ arg'[w] = l /\ SetLock(c, l, "NONE")
         \/ pc'[w] = "idle" /\ SetLock(c, l, "FREE")
  BY <1>0, <1>1, <1>2, Zenon DEF ClientTypeOK
<1>b. /\ \A d \in Clients, m \in Locks :
           d # c \/ m # l => lockstate_map'[d][m] = lockstate_map[d][m]
      /\ \A d \in Clients : d # c => lockstate_map'[d] = lockstate_map[d]
      /\ lockstate_map'[c][l] = IF pc'[w] = "flush" THEN "NONE" ELSE "FREE"
  BY <1>0, <1>a DEF ClientTypeOK, SetLock
<1>d. /\ l \notin held'[w]
      /\ \A v \in Workers : v # w => held'[v] = held[v]
      /\ \A v \in Workers, m \in Locks :
           m # l \/ ClientOf[v] # c => (m \in held'[v] <=> m \in held[v])
  BY <1>0, <1>1, Zenon DEF ClientTypeOK, c
<1>3. NoLate' /\ \A k \in Slots : CalmCall(k)'
  BY <1>0, CallsCalm
<1>4. \A v \in Workers : CalmWorker(v)'
  <2>1. \A v \in Workers : /\ Still(v) \/ ClientOf[v] = c
                           /\ pc'[v] = "acquiring" => pc[v] = "acquiring"
                           /\ pc'[v] # "retest"
    BY <1>a, Names, Zenon DEF Still, Steady, CalmWorker, c
  <2> QED BY <1>0, <1>1, <1>b, <2>1, WorkersCalm, Zenon DEF c
<1>5. Elsewhere(c, l)
  <2>1. \A d \in Clients, m \in Locks : d # c \/ m # l => SameState(d, m)
    BY <1>b DEF SameState, InUse, Cached
  <2>2. \A v \in Workers : \/ Still(v)
                           \/ /\ ClientOf[v] = c
                              /\ pc[v] \in {"waiting", "woken"} => arg[v] = l
                              /\ pc'[v] \in {"waiting", "woken"} => arg'[v] = l
    <3>1. ClientOf[w] = c /\ pc[w] = "idle" /\ pc'[w] \notin {"waiting", "woken"}
      BY <1>1, <1>a, Zenon DEF c
    <3>2. ASSUME NEW v \in Workers, v # w
          PROVE Still(v) \/ /\ ClientOf[v] = c /\ arg[v] = l /\ arg'[v] = l
      BY <1>a, <3>2, Names, Zenon DEF Still
    <3> QED BY <3>1, <3>2
  <2>3. \A t \in Threads, m \in Locks : m # l /\ InFlush(t, m) => InFlush(t, m)'
    BY <1>1, <1>a DEF InFlush
  <2> QED BY <1>0, <1>d, <2>1, <2>2, <2>3, Frame, SMTT(30)
<1>s. CalmState(c, l) /\ CalmQueue(c, l) /\ CalmLock(l)
  BY <1>0, Zenon DEF Steady
<1>6. /\ \A k \in Slots : ~Told(k, c, l)' /\ ~RetryTo(k, c, l)'
      /\ ~InQueue(c, l)'
  <2>1. \A k \in Slots : ~Told(k, c, l)
    BY <1>1, Asker, Zenon DEF Told, AcquireCalls
  <2>2. InUse(c, l)
    BY <1>1, <1>s, Zenon DEF CalmState, HeldHere, c
  <2>3. ~InQueue(c, l)
    BY <1>s, <2>1, <2>2, Zenon DEF CalmQueue, InUse
  <2> QED BY <1>0, <2>1, <2>3, Zenon DEF InQueue, Told, RetryTo
<1>t. /\ where_is_lock[l] = c
      /\ \A v \in Workers : l \in held[v] => v = w
  BY <1>1, Zenon DEF IInv, Tokens, OneToken, c
<1>7. CalmState(c, l)'
  <2>1. ~InUse(c, l)' /\ lockstate_map'[c][l] # "ACQUIRING"
    BY <1>b, Zenon DEF InUse
  <2>2. ~HeldHere(c, l)'
    BY <1>d, <1>t, Zenon DEF HeldHere
  <2>3. \A v \in Workers : Awaits(v, c, l)' => pc'[v] # "waiting"
    BY <1>a, Names, Zenon DEF Awaits
  <2> QED BY <2>1, <2>2, <2>3, Zenon DEF CalmState
<1>8. CalmQueue(c, l)'
  BY <1>6, Zenon DEF CalmQueue
<1>9. CalmLock(l)'
  <2>1. Somewhere(l)'
    BY <1>0, <1>a, <1>b, Zenon DEF Somewhere, Cached, InFlush
  <2> QED BY <1>0, <1>s, <1>t, <2>1, Names, Zenon DEF CalmLock
<1> QED BY <1>0, <1>3, <1>4, <1>5, <1>7, <1>8, <1>9, Local, ZenonT(40)

(* dorelease() sends the lock back.                                        *)
LEMMA SendReleaseCalm ==
  ASSUME IInv, Steady, NEW t \in Threads, NEW l \in Locks, arg[t] = l,
         SendRelease(t), UNCHANGED serverVars
  PROVE Steady'
<1> DEFINE c == Home(t)
           r == [st |-> "release", lid |-> l, peer |-> None, live |-> TRUE]
<1>0. /\ CallsTypeOK /\ ClientTypeOK /\ c \in Clients /\ pc[t] = "flush"
      /\ where_is_lock' = where_is_lock /\ who_waiting_lock' = who_waiting_lock
      /\ serverlock_mutex' = serverlock_mutex /\ late' = late
      /\ lockstate_map' = lockstate_map /\ lockmap_mutex' = lockmap_mutex
      /\ held' = held /\ arg' = arg
  BY Names, Zenon DEF IInv, TypeOK, serverVars, SendRelease
<1>a. (\A u \in Threads : u # t => Still(u)) /\ pc'[t] = "releasing"
  BY <1>0, Zenon DEF ClientTypeOK, SendRelease, Still
<1>d. PICK k \in Slots : /\ Caller(k) = t /\ call[k].st = "idle"
                         /\ call' = [call EXCEPT ![k] = r]
  BY SendSlot DEF SendRelease
<1>e. r \in Call /\ r.st = "release" /\ r.lid = l /\ r.live = TRUE
  BY DEF Call, CallStates
<1> HIDE DEF c, r
<1>f. call'[k] = r /\ \A j \in Slots : j # k => call'[j] = call[j]
  BY <1>0, <1>d, <1>e, CallUpdate, Zenon
<1>3. NoLate' /\ \A j \in Slots : CalmCall(j)'
  <2>1. CalmCall(k)'
    BY <1>e, <1>f, Zenon DEF CalmCall
  <2>2. ASSUME NEW j \in Slots, j # k PROVE CalmCall(j)'
    BY <1>0, <1>e, <1>f, <2>2, ZenonT(40) DEF CalmCall, Steady
  <2> QED BY <1>0, <2>1, <2>2, Zenon DEF NoLate, Steady
<1>4. \A v \in Workers : CalmWorker(v)'
  <2>1. \A v \in Workers : pc[v] # "retest"
    BY Zenon DEF Steady, CalmWorker
  <2>2. \A v \in Workers : pc'[v] # "retest" /\ (pc'[v] = "acquiring" => Still(v))
    BY <1>a, <2>1, Names, Zenon DEF Still
  <2> QED BY <1>0, <2>2, AskersCalm, Zenon
<1>5. Elsewhere(c, l)
  <2>1. \A d \in Clients, m \in Locks : SameState(d, m)
    BY <1>0 DEF SameState, InUse, Cached
  <2>2. \A v \in Workers : \/ Still(v)
                           \/ /\ ClientOf[v] = c
                              /\ pc[v] \notin {"waiting", "woken"}
                              /\ pc'[v] \notin {"waiting", "woken"}
    BY <1>0, <1>a, Names, Zenon DEF c
  <2>3. \A u \in Threads, m \in Locks : m # l /\ InFlush(u, m) => InFlush(u, m)'
    BY <1>a DEF InFlush, Still
  <2>4. \A j \in Slots : call'[j] = call[j] \/ OnlyAbout(j, c, l)
    BY <1>d, <1>e, <1>f, Zenon DEF OnlyAbout
  <2> QED BY <1>0, <2>1, <2>2, <2>3, <2>4, Frame, Zenon
<1>s. CalmState(c, l) /\ CalmQueue(c, l) /\ CalmLock(l)
  BY <1>0, Zenon DEF Steady
<1>6. /\ \A j \in Slots, d \in Clients : /\ Told(j, d, l)' <=> Told(j, d, l)
                                         /\ RetryTo(j, d, l)' <=> RetryTo(j, d, l)
      /\ \A d \in Clients : InQueue(d, l)' <=> InQueue(d, l)
  <2>1. \A j \in Slots, d \in Clients : /\ Told(j, d, l)' <=> Told(j, d, l)
                                        /\ RetryTo(j, d, l)' <=> RetryTo(j, d, l)
    BY <1>d, <1>e, <1>f, Zenon DEF Told, RetryTo
  <2> QED BY <1>0, <2>1, Zenon DEF InQueue
<1>7. CalmState(c, l)'
  BY <1>0, <1>6, <1>a, <1>s, Names, Zenon DEF CalmState, InUse, HeldHere, Awaits, Still
<1>8. CalmQueue(c, l)'
  <2>1. \A v \in Workers : Awaits(v, c, l) /\ pc[v] \in {"waiting", "woken"} =>
          Awaits(v, c, l)' /\ pc'[v] \in {"waiting", "woken"}
    BY <1>0, <1>a, Names, Zenon DEF Awaits, Still
  <2> QED BY <1>0, <1>6, <1>s, <2>1, Zenon DEF CalmQueue
<1>9. CalmLock(l)'
  <2>1. Somewhere(l)'
    BY <1>e, <1>f, Zenon DEF Somewhere, InCall
  <2>2. Asking(l) => Asking(l)'
    <3>1. ASSUME NEW v \in Workers, pc[v] = "woken", arg[v] = l,
                 lockstate_map[ClientOf[v]][l] = "NONE", ~InQueue(ClientOf[v], l)
          PROVE Asking(l)'
      BY <1>0, <1>6, <1>a, <3>1, Names, Zenon DEF Asking, Still
    <3>2. ASSUME NEW j \in Slots, call[j].st \in {"retry", "acquire"}, call[j].lid = l
          PROVE Asking(l)'
      BY <1>d, <1>f, <3>2, Zenon DEF Asking
    <3> QED BY <3>1, <3>2, Zenon DEF Asking
  <2> QED BY <1>0, <1>s, <2>1, <2>2, Zenon DEF CalmLock
<1> QED BY <1>0, <1>3, <1>4, <1>5, <1>7, <1>8, <1>9, Local, ZenonT(40)

(* The server has the lock back; give_back() wakes its client's threads.   *)
LEMMA ReleaseReplyCalm ==
  ASSUME IInv, Steady, NEW k \in Slots, NEW l \in Locks, arg[Caller(k)] = l,
         ReleaseReply(k), UNCHANGED serverVars
  PROVE Steady'
<1> DEFINE t == Caller(k)
           c == Source(k)
           q == IF t \in Clients THEN Woken(t, l) ELSE pc
<1>0. /\ CallsTypeOK /\ ClientTypeOK /\ t \in Threads /\ c \in Clients /\ c = Home(t)
      /\ call[k].st = "DONE"
      /\ where_is_lock' = where_is_lock /\ who_waiting_lock' = who_waiting_lock
      /\ serverlock_mutex' = serverlock_mutex /\ late' = late
      /\ lockstate_map' = lockstate_map /\ lockmap_mutex' = lockmap_mutex
      /\ held' = held
  BY Names DEF IInv, TypeOK, serverVars, ReleaseReply
<1>1. call[k].live /\ call[k].lid = l /\ pc[t] = "releasing"
  BY <1>0, Zenon DEF IInv, CallsFit, CallFits, Steady, CalmCall, AcquireCalls
<1>2. /\ q \in [Threads -> PCs]
      /\ \A u \in Threads : \/ q[u] = pc[u]
                            \/ /\ pc[u] = "waiting" /\ q[u] = "woken"
                               /\ Home(u) = c /\ arg[u] = l
  <2>1. CASE t \in Clients
    BY <1>0, <2>1, WokenMoves, WokenAll, Names, SMTT(30)
  <2>2. CASE t \notin Clients
    BY <1>0, <2>2, Zenon DEF ClientTypeOK
  <2> QED BY <2>1, <2>2, Zenon
<1>3. pc' = [q EXCEPT ![t] = "idle"] /\ arg' = [arg EXCEPT ![t] = None]
  BY Z3 DEF ReleaseReply, AfterRelease
<1> HIDE DEF t, c, q
<1>a. /\ pc'[t] = "idle"
      /\ \A u \in Threads : u # t => /\ arg'[u] = arg[u]
                                     /\ \/ pc'[u] = pc[u]
                                        \/ /\ pc[u] = "waiting" /\ pc'[u] = "woken"
                                           /\ Home(u) = c /\ arg[u] = l
  BY <1>0, <1>2, <1>3, Zenon DEF ClientTypeOK
<1>e. call'[k] = Idle /\ \A j \in Slots : j # k => call'[j] = call[j]
  BY <1>0, CallFields, CallUpdate, Zenon DEF ReleaseReply, Consume
<1>4. NoLate' /\ \A j \in Slots : CalmCall(j)'
  <2>1. CalmCall(k)'
    BY <1>e, CallFields, Z3 DEF CalmCall
  <2>2. ASSUME NEW j \in Slots, j # k PROVE CalmCall(j)'
    BY <1>0, <1>e, <2>2, CallFields, ZenonT(40) DEF CalmCall, Steady
  <2> QED BY <1>0, <2>1, <2>2, Zenon DEF NoLate, Steady
<1>5. \A v \in Workers : CalmWorker(v)'
  <2>1. \A v \in Workers : pc[v] # "retest"
    BY Zenon DEF Steady, CalmWorker
  <2>2. \A v \in Workers : pc'[v] # "retest" /\ (pc'[v] = "acquiring" => Still(v))
    BY <1>a, <2>1, Names DEF Still
  <2> QED BY <1>0, <2>2, AskersCalm
<1>6. Elsewhere(c, l)
  <2>1. \A d \in Clients, m \in Locks : SameState(d, m)
    BY <1>0 DEF SameState, InUse, Cached
  <2>2. \A v \in Workers : \/ Still(v)
                           \/ /\ ClientOf[v] = c
                              /\ pc[v] \in {"waiting", "woken"} => arg[v] = l
                              /\ pc'[v] \in {"waiting", "woken"} => arg'[v] = l
    <3>1. t \in Workers => ClientOf[t] = c
      BY <1>0, Names, Zenon
    <3>2. ASSUME NEW v \in Workers, v # t
          PROVE Still(v) \/ (ClientOf[v] = c /\ arg[v] = l /\ arg'[v] = l)
      BY <1>a, <3>2, Names, Zenon DEF Still
    <3> QED BY <1>1, <1>a, <3>1, <3>2, Zenon DEF t
  <2>3. \A u \in Threads, m \in Locks : m # l /\ InFlush(u, m) => InFlush(u, m)'
    BY <1>1, <1>a, Zenon DEF InFlush, t
  <2>4. \A j \in Slots : call'[j] = call[j] \/ OnlyAbout(j, c, l)
    BY <1>0, <1>1, <1>e, CallFields, Zenon DEF OnlyAbout
  <2> QED BY <1>0, <2>1, <2>2, <2>3, <2>4, Frame, Zenon
<1>s. CalmState(c, l) /\ CalmQueue(c, l) /\ CalmLock(l)
  BY <1>0, Zenon DEF Steady
<1>7. /\ \A j \in Slots, d \in Clients : /\ Told(j, d, l)' <=> Told(j, d, l)
                                         /\ RetryTo(j, d, l)' <=> RetryTo(j, d, l)
      /\ \A d \in Clients : InQueue(d, l)' <=> InQueue(d, l)
  <2>1. \A j \in Slots, d \in Clients : /\ Told(j, d, l)' <=> Told(j, d, l)
                                        /\ RetryTo(j, d, l)' <=> RetryTo(j, d, l)
    BY <1>0, <1>e, CallFields, Zenon DEF Told, RetryTo
  <2> QED BY <1>0, <2>1, Zenon DEF InQueue
<1>8. CalmState(c, l)'
  <2>1. \A v \in Workers : Awaits(v, c, l)' /\ pc'[v] = "waiting" =>
          Awaits(v, c, l) /\ pc[v] = "waiting"
    BY <1>a, Names, Zenon DEF Awaits
  <2> QED BY <1>0, <1>7, <1>s, <2>1, Zenon DEF CalmState, InUse, HeldHere
<1>9. CalmQueue(c, l)'
  <2>1. \A v \in Workers : Awaits(v, c, l) /\ pc[v] \in {"waiting", "woken"} =>
          Awaits(v, c, l)' /\ pc'[v] \in {"waiting", "woken"}
    BY <1>1, <1>a, Names, ZenonT(40) DEF Awaits, t
  <2> QED BY <1>0, <1>7, <1>s, <2>1, ZenonT(40) DEF CalmQueue
<1>10. CalmLock(l)'
  <2>1. \A j \in Slots : InCall(j, l) => InCall(j, l)'
    BY <1>0, <1>e, SMTT(20) DEF InCall
  <2>2. \A u \in Threads : InFlush(u, l) => InFlush(u, l)'
    BY <1>1, <1>a, ZenonT(40) DEF InFlush, t
  <2>3. Somewhere(l) => Somewhere(l)'
    BY <1>0, <2>1, <2>2, ZenonT(40) DEF Somewhere, Cached
  <2>4. Asking(l) => Asking(l)'
    <3>1. ASSUME NEW v \in Workers, pc[v] = "woken", arg[v] = l,
                 lockstate_map[ClientOf[v]][l] = "NONE", ~InQueue(ClientOf[v], l)
          PROVE Asking(l)'
      <4>1. v \in Threads /\ v # t /\ ClientOf[v] \in Clients
        BY <1>1, <3>1, Names, ZenonT(40) DEF t
      <4>2. pc'[v] = "woken" /\ arg'[v] = l
        BY <1>a, <3>1, <4>1, ZenonT(40)
      <4> QED BY <1>0, <1>7, <3>1, <4>1, <4>2, ZenonT(40) DEF Asking
    <3>2. ASSUME NEW j \in Slots, call[j].st \in {"retry", "acquire"}, call[j].lid = l
          PROVE Asking(l)'
      BY <1>0, <1>e, <3>2, ZenonT(40) DEF Asking
    <3> QED BY <3>1, <3>2, ZenonT(40) DEF Asking
  <2> QED BY <1>0, <1>s, <2>3, <2>4, ZenonT(40) DEF CalmLock
<1> QED BY <1>0, <1>4, <1>5, <1>6, <1>8, <1>9, <1>10, Local, ZenonT(40)

(* give_back() meets a FREE lock, ...                                      *)
LEMMA GiveBackCheckCalm ==
  ASSUME IInv, Steady, NEW c \in Clients, NEW l \in Locks,
         GiveBackCheck(c, l), UNCHANGED serverVars
  PROVE Steady'
<1>0. /\ ClientTypeOK /\ c \in Threads /\ c \notin Workers
      /\ call' = call /\ late' = late /\ where_is_lock' = where_is_lock
      /\ who_waiting_lock' = who_waiting_lock /\ serverlock_mutex' = serverlock_mutex
      /\ lockstate_map' = lockstate_map /\ lockmap_mutex' = lockmap_mutex
      /\ held' = held /\ pc[c] = "idle"
  BY Names, SMTT(20) DEF IInv, TypeOK, GiveBackCheck, callVars, serverVars
<1>1. \A t \in Threads : t # c => Still(t)
  BY <1>0 DEF GiveBackCheck, GoTo, ClientTypeOK, Still
<1>2. NoLate' /\ \A k \in Slots : CalmCall(k)'
  BY <1>0, CallsCalm, Zenon
<1>3. \A v \in Workers : Still(v) /\ CalmWorker(v)'
  <2>1. \A v \in Workers : Still(v) /\ CalmWorker(v)
    BY <1>0, <1>1, Names, ZenonT(40) DEF Steady
  <2>2. \A v \in Workers : pc'[v] # "retest"
    BY <2>1, Zenon DEF Still, CalmWorker
  <2> QED BY <1>0, <2>1, <2>2, AskersCalm, ZenonT(40)
<1>4. Elsewhere(c, l)
  <2>1. \A d \in Clients, m \in Locks : SameState(d, m)
    BY <1>0, Zenon DEF SameState, InUse, Cached
  <2>2. \A t \in Threads, m \in Locks : m # l /\ InFlush(t, m) => InFlush(t, m)'
    BY <1>0, <1>1, Zenon DEF InFlush, Still
  <2> QED BY <1>0, <1>3, <2>1, <2>2, Frame, ZenonT(40)
<1>s. CalmState(c, l) /\ CalmQueue(c, l) /\ CalmLock(l)
  BY Zenon DEF Steady
<1>5. /\ \A j \in Slots, d \in Clients : /\ Told(j, d, l)' <=> Told(j, d, l)
                                         /\ RetryTo(j, d, l)' <=> RetryTo(j, d, l)
      /\ \A d \in Clients : InQueue(d, l)' <=> InQueue(d, l)
  BY <1>0, SMTT(20) DEF Told, RetryTo, InQueue
<1>6. CalmState(c, l)'
  BY <1>0, <1>3, <1>5, <1>s, ZenonT(40) DEF CalmState, InUse, HeldHere, Awaits, Still
<1>7. CalmQueue(c, l)'
  <2>1. \A v \in Workers : Awaits(v, c, l)' <=> Awaits(v, c, l)
    BY <1>3, Zenon DEF Awaits, Still
  <2> QED BY <1>0, <1>3, <1>5, <1>s, <2>1, ZenonT(40) DEF CalmQueue, Still
<1>8. CalmLock(l)'
  <2>1. \A t \in Threads : InFlush(t, l) => InFlush(t, l)'
    BY <1>0, <1>1, Zenon DEF InFlush, Still
  <2>2. Somewhere(l) => Somewhere(l)'
    BY <1>0, <2>1, Zenon DEF Somewhere, Cached, InCall
  <2>3. Asking(l) => Asking(l)'
    BY <1>0, <1>3, <1>5, Names, ZenonT(40) DEF Asking, Still
  <2> QED BY <1>0, <1>s, <2>2, <2>3, ZenonT(40) DEF CalmLock
<1> QED BY <1>2, <1>3, <1>4, <1>6, <1>7, <1>8, Local, ZenonT(40)

(* ... and takes it, still FREE.                                           *)
LEMMA GiveBackTakeCalm ==
  ASSUME IInv, Steady, ~overtaken', NEW c \in Clients, NEW l \in Locks, arg[c] = l,
         GiveBackTake(c), UNCHANGED serverVars
  PROVE Steady'
<1>0. /\ ClientTypeOK /\ c \in Threads /\ c \notin Workers /\ Home(c) = c
      /\ call' = call /\ late' = late /\ where_is_lock' = where_is_lock
      /\ who_waiting_lock' = who_waiting_lock /\ serverlock_mutex' = serverlock_mutex
      /\ lockmap_mutex' = lockmap_mutex /\ ~lockmap_mutex[c]
      /\ held' = held /\ arg' = arg /\ pc[c] = "giveback"
      /\ lockstate_map[c][l] = "FREE" /\ ~overtaken
  BY Names, Zenon DEF IInv, TypeOK, GiveBackTake, callVars, serverVars
<1>1. (\A t \in Threads : t # c => Still(t)) /\ pc'[c] = "flush" /\ arg'[c] = l
  BY <1>0, Zenon DEF GiveBackTake, ClientTypeOK, Still
<1>b. /\ \A d \in Clients, m \in Locks :
           lockstate_map'[d][m] = IF d = c /\ m = l THEN "NONE" ELSE lockstate_map[d][m]
      /\ \A d \in Clients : d # c => lockstate_map'[d] = lockstate_map[d]
  BY <1>0 DEF GiveBackTake, ClientTypeOK, SetLock
<1>2. NoLate' /\ \A k \in Slots : CalmCall(k)'
  BY <1>0, CallsCalm, Zenon
<1>3. \A v \in Workers : Still(v)
  BY <1>0, <1>1, Names, Zenon
<1>4. \A v \in Workers : CalmWorker(v)'
  <2>1. \A v \in Workers : /\ pc'[v] = "acquiring" => pc[v] = "acquiring"
                           /\ pc'[v] # "retest"
    BY <1>3 DEF Still, Steady, CalmWorker
  <2> QED BY <1>0, <1>3, <1>b, <2>1, WorkersCalm, ZenonT(40)
<1>5. Elsewhere(c, l)
  <2>1. \A d \in Clients, m \in Locks : d # c \/ m # l => SameState(d, m)
    BY <1>b, ZenonT(40) DEF SameState, InUse, Cached
  <2>2. \A t \in Threads, m \in Locks : m # l /\ InFlush(t, m) => InFlush(t, m)'
    BY <1>0, <1>1, Zenon DEF InFlush, Still
  <2> QED BY <1>0, <1>3, <2>1, <2>2, Frame, ZenonT(40)
<1>s. CalmState(c, l) /\ CalmQueue(c, l) /\ CalmLock(l)
  BY Zenon DEF Steady
<1>6. /\ \A k \in Slots : ~Told(k, c, l)' /\ ~RetryTo(k, c, l)'
      /\ ~InQueue(c, l)'
  <2>1. \A k \in Slots : ~Told(k, c, l)
    BY <1>0, Asker, Zenon DEF Told, AcquireCalls
  <2>2. ~InQueue(c, l)
    BY <1>0, <1>s, <2>1, Zenon DEF CalmQueue
  <2> QED BY <1>0, <2>1, <2>2, Zenon DEF InQueue, Told, RetryTo
<1>7. CalmState(c, l)'
  <2>1. lockstate_map'[c][l] = "NONE" /\ ~InUse(c, l)
    BY <1>0, <1>b, Zenon DEF InUse
  <2>2. ~HeldHere(c, l)'
    BY <1>0, <1>s, <2>1, Zenon DEF CalmState, HeldHere
  <2>3. \A v \in Workers : Awaits(v, c, l)' => pc'[v] # "waiting"
    BY <1>0, <1>3, <1>s, <2>1, ZenonT(40) DEF CalmState, Awaits, Still
  <2> QED BY <2>1, <2>2, <2>3, Zenon DEF CalmState, InUse
<1>8. CalmQueue(c, l)'
  BY <1>6 DEF CalmQueue
<1>9. CalmLock(l)'
  <2>1. where_is_lock[l] = c
    BY <1>0, Zenon DEF IInv, Tokens, OneToken, Cached
  <2>2. Somewhere(l)'
    BY <1>0, <1>1, Zenon DEF Somewhere, InFlush
  <2> QED BY <1>0, <1>s, <2>1, <2>2, Names, ZenonT(40) DEF CalmLock
<1> QED BY <1>2, <1>4, <1>5, <1>7, <1>8, <1>9, Local, Zenon
-----------------------------------------------------------------------------
(* The handler of a call goes on or returns, with the caller waiting.      *)
LEMMA HandlerGoesOn ==
  ASSUME CallsTypeOK, NEW k \in Slots, call[k].live, NEW st \in CallStates,
         NEW p \in Clients \cup {None},
         Proceed(k, st, p) \/ (p = None /\ Reply(k, st))
  PROVE /\ call'[k].st = st /\ call'[k].lid = call[k].lid
        /\ call'[k].peer = p /\ call'[k].live
        /\ \A j \in Slots : j # k => call'[j] = call[j]
<1> DEFINE r == [st |-> st, lid |-> call[k].lid, peer |-> p, live |-> TRUE]
<1>1. call[k] \in Call /\ call[k].live = TRUE
  BY CallFields, Zenon DEF CallsTypeOK
<1>2. r \in Call
  BY <1>1, CallFields, ZenonT(40) DEF Call
<1>3. call' = [call EXCEPT ![k] = r]
  BY <1>1, Zenon DEF Proceed, Reply, Changed
<1>4. r.st = st /\ r.lid = call[k].lid /\ r.peer = p /\ r.live = TRUE
  OBVIOUS
<1> HIDE DEF r
<1> QED BY <1>2, <1>3, <1>4, CallUpdate, ZenonT(40)

(* What Append and Tail do to a waiting list.                              *)
LEMMA Queues ==
  ASSUME NEW q \in Seq(Clients), NEW c \in Clients
  PROVE /\ \A d \in Clients : Waits(Append(q, c), d) <=> Waits(q, d) \/ d = c
        /\ NoTwice(q) /\ ~Waits(q, c) => NoTwice(Append(q, c))
        /\ q # <<>> => /\ Head(q) \in Clients /\ Waits(q, Head(q))
                       /\ \A d \in Clients : Waits(q, d) => d = Head(q) \/ Waits(Tail(q), d)
                       /\ \A d \in Clients : Waits(Tail(q), d) => Waits(q, d)
                       /\ NoTwice(q) => NoTwice(Tail(q)) /\ ~Waits(Tail(q), Head(q))
<1>1. \A d \in Clients : Waits(Append(q, c), d) <=> Waits(q, d) \/ d = c
  BY DEF Waits
<1>2. NoTwice(q) /\ ~Waits(q, c) => NoTwice(Append(q, c))
  BY DEF Waits, NoTwice
<1>3. ASSUME q # <<>>
      PROVE /\ Head(q) \in Clients /\ Waits(q, Head(q))
            /\ \A d \in Clients : Waits(q, d) => d = Head(q) \/ Waits(Tail(q), d)
            /\ \A d \in Clients : Waits(Tail(q), d) => Waits(q, d)
            /\ NoTwice(q) => NoTwice(Tail(q)) /\ ~Waits(Tail(q), Head(q))
  <2>1. /\ Len(q) \in Nat \ {0} /\ Head(q) = q[1] /\ Head(q) \in Clients
        /\ Len(Tail(q)) = Len(q) - 1
        /\ \A i \in 1..(Len(q) - 1) : Tail(q)[i] = q[i + 1]
    BY <1>3
  <2>2. Waits(q, Head(q))
    BY <2>1 DEF Waits
  <2>3. ASSUME NEW d \in Clients, Waits(q, d) PROVE d = Head(q) \/ Waits(Tail(q), d)
    <3>1. PICK i \in 1..Len(q) : q[i] = d
      BY <2>3 DEF Waits
    <3>2. CASE i # 1
      <4>1. i - 1 \in 1..(Len(q) - 1) /\ Tail(q)[i - 1] = d
        BY <2>1, <3>1, <3>2, SMTT(30)
      <4> QED BY <2>1, <4>1, Zenon DEF Waits
    <3> QED BY <2>1, <3>1, <3>2, ZenonT(40)
  <2>4. ASSUME NEW d \in Clients, Waits(Tail(q), d) PROVE Waits(q, d)
    <3>1. PICK i \in 1..Len(Tail(q)) : Tail(q)[i] = d
      BY <2>4 DEF Waits
    <3> QED BY <2>1, <3>1, SMTT(20) DEF Waits
  <2>5. ASSUME NoTwice(q) PROVE NoTwice(Tail(q)) /\ ~Waits(Tail(q), Head(q))
    <3>1. NoTwice(Tail(q))
      BY <2>1, <2>5, SMTT(30) DEF NoTwice
    <3>2. ~Waits(Tail(q), Head(q))
      BY <2>1, <2>5, SMTT(30) DEF NoTwice, Waits
    <3> QED BY <3>1, <3>2, ZenonT(40)
  <2> QED BY <2>1, <2>2, <2>3, <2>4, <2>5, ZenonT(40)
<1> QED BY <1>1, <1>2, <1>3, Zenon

(* acquire() at the server: a lock that is nobody's is granted, ...        *)
LEMMA GrantCalm ==
  ASSUME IInv, Steady, ~overtaken, NEW k \in Slots, NEW l \in Locks,
         call[k].lid = l, call[k].st = "acquire", ~serverlock_mutex,
         where_is_lock[l] = None,
         where_is_lock' = [where_is_lock EXCEPT ![l] = Source(k)],
         Reply(k, "OK"),
         UNCHANGED <<who_waiting_lock, serverlock_mutex, late, clientVars>>
  PROVE Steady'
<1> DEFINE c == Source(k)
<1>0. /\ CallsTypeOK /\ ServerTypeOK /\ call[k].st \in AcquireCalls
      /\ call[k].live /\ c \in Clients
      /\ lockstate_map' = lockstate_map /\ lockmap_mutex' = lockmap_mutex
      /\ held' = held /\ pc' = pc /\ arg' = arg
  BY Names, Zenon DEF IInv, TypeOK, clientVars, AcquireCalls, Steady, CalmCall
<1>1. /\ lockstate_map[c][l] = "NONE"
      /\ \A j \in Slots : call[j].st \in AcquireCalls /\ Source(j) = c => j = k
  BY <1>0, Asker, Zenon
<1>2. /\ call'[k].st = "OK" /\ call'[k].lid = l /\ call'[k].live
      /\ \A j \in Slots : j # k => call'[j] = call[j]
  <2>1. "OK" \in CallStates /\ None \in Clients \cup {None}
    BY Zenon DEF CallStates, Replies
  <2> QED BY <1>0, <2>1, HandlerGoesOn, Zenon
<1>3. where_is_lock'[l] = c /\ \A m \in Locks : m # l => where_is_lock'[m] = where_is_lock[m]
  BY <1>0 DEF ServerTypeOK
<1> HIDE DEF c
<1>4. \A j \in Slots : call[j].st # "retry"
  BY Zenon DEF Steady, CalmCall
<1>5. NoLate' /\ \A j \in Slots : CalmCall(j)'
  <2>1. \A j \in Slots : CalmCall(j)
    BY Zenon DEF Steady
  <2> QED BY <1>2, <1>4, <2>1, Zenon DEF CalmCall, NoLate, Steady
<1>6. \A v \in Workers : CalmWorker(v)' /\ Still(v)
  BY <1>0, AskersCalm, Zenon DEF Still, Steady, CalmWorker
<1>7. Elsewhere(c, l)
  <2>1. \A d \in Clients, m \in Locks : SameState(d, m)
    BY <1>0, Zenon DEF SameState, InUse, Cached
  <2>2. \A t \in Threads, m \in Locks : InFlush(t, m) => InFlush(t, m)'
    BY <1>0, Zenon DEF InFlush
  <2>3. \A j \in Slots : call'[j] = call[j] \/ OnlyAbout(j, c, l)
    BY <1>2, Zenon DEF OnlyAbout
  <2> QED BY <1>0, <1>3, <1>6, <2>1, <2>2, <2>3, Frame, ZenonT(40)
<1>s. CalmState(c, l) /\ CalmQueue(c, l) /\ CalmLock(l)
  BY <1>0 DEF Steady
<1>8. /\ \A j \in Slots : ~Told(j, c, l)' /\ ~RetryTo(j, c, l)'
      /\ ~InQueue(c, l)'
  <2>1. \A j \in Slots : ~Told(j, c, l)
    BY <1>1, Zenon DEF Told, AcquireCalls
  <2>2. ~InQueue(c, l)
    BY <1>1, <1>s, <2>1, Zenon DEF CalmQueue
  <2> QED BY <1>2, <1>4, <2>1, <2>2, Zenon DEF InQueue, Told, RetryTo
<1>9. CalmState(c, l)'
  BY <1>0, <1>1, <1>s, Zenon DEF CalmState, InUse, HeldHere, Awaits
<1>10. CalmQueue(c, l)'
  BY <1>8, Zenon DEF CalmQueue
<1>11. CalmLock(l)'
  <2>1. Somewhere(l)'
    BY <1>2 DEF Somewhere, InCall
  <2> QED BY <1>0, <1>3, <1>s, <2>1, Names, ZenonT(40) DEF CalmLock
<1> QED BY <1>0, <1>5, <1>6, <1>7, <1>9, <1>10, <1>11, Local, ZenonT(40)

(* ... for another the client joins the waiting list.                      *)
LEMMA JoinCalm ==
  ASSUME IInv, Steady, NEW k \in Slots, NEW l \in Locks,
         call[k].lid = l, call[k].st = "acquire", ~serverlock_mutex,
         where_is_lock[l] # None,
         who_waiting_lock' = [who_waiting_lock EXCEPT ![l] =
            IF Waits(@, Source(k)) THEN @ ELSE Append(@, Source(k))],
         Proceed(k, "owner", None) \/ Reply(k, "RETRY"),
         UNCHANGED <<where_is_lock, serverlock_mutex, late, clientVars>>
  PROVE Steady'
<1> DEFINE c == Source(k)
           q == who_waiting_lock[l]
<1>0. /\ CallsTypeOK /\ ServerTypeOK /\ call[k].st \in AcquireCalls
      /\ call[k].live /\ c \in Clients
      /\ lockstate_map' = lockstate_map /\ lockmap_mutex' = lockmap_mutex
      /\ held' = held /\ pc' = pc /\ arg' = arg
  BY Names, Zenon DEF IInv, TypeOK, clientVars, AcquireCalls, Steady, CalmCall
<1>1. /\ lockstate_map[c][l] = "NONE"
      /\ \A j \in Slots : call[j].st \in AcquireCalls /\ Source(j) = c => j = k
  BY <1>0, Asker, Zenon
<1>2. /\ call'[k].st \in {"owner", "RETRY"} /\ call'[k].lid = l /\ call'[k].live
      /\ \A j \in Slots : j # k => call'[j] = call[j]
  <2>1. {"owner", "RETRY"} \subseteq CallStates /\ None \in Clients \cup {None}
    BY Zenon DEF CallStates, Replies
  <2> QED BY <1>0, <2>1, HandlerGoesOn, Zenon
<1>s. CalmState(c, l) /\ CalmQueue(c, l) /\ CalmLock(l)
  BY <1>0, Zenon DEF Steady
<1>3. (\A j \in Slots : ~Told(j, c, l)) /\ ~InQueue(c, l)
  <2>1. \A j \in Slots : ~Told(j, c, l)
    BY <1>1 DEF Told, AcquireCalls
  <2>2. ~InQueue(c, l)
    BY <1>1, <1>s, <2>1, Zenon DEF CalmQueue
  <2> QED BY <2>1, <2>2, Zenon
<1>4. /\ q \in Seq(Clients) /\ who_waiting_lock'[l] = Append(q, c)
      /\ \A m \in Locks : m # l => who_waiting_lock'[m] = who_waiting_lock[m]
  BY <1>0, <1>3, Zenon DEF ServerTypeOK, InQueue
<1>q. /\ \A d \in Clients : Waits(who_waiting_lock'[l], d) <=> Waits(q, d) \/ d = c
      /\ NoTwice(who_waiting_lock'[l])
  <2>1. NoTwice(q) /\ ~Waits(q, c)
    BY <1>3, <1>s, Zenon DEF CalmLock, InQueue
  <2> HIDE DEF q, c
  <2>2. /\ \A d \in Clients : Waits(Append(q, c), d) <=> Waits(q, d) \/ d = c
        /\ NoTwice(Append(q, c))
    BY <1>0, <1>4, <2>1, Queues, ZenonT(40)
  <2> QED BY <1>4, <2>2, Zenon
<1> HIDE DEF c
<1>5. \A j \in Slots : call[j].st # "retry"
  BY Zenon DEF Steady, CalmCall
<1>6. NoLate' /\ \A j \in Slots : CalmCall(j)'
  <2>1. \A j \in Slots : CalmCall(j)
    BY Zenon DEF Steady
  <2> QED BY <1>2, <1>5, <2>1, Zenon DEF CalmCall, NoLate, Steady
<1>7. \A v \in Workers : CalmWorker(v)' /\ Still(v)
  BY <1>0, AskersCalm, Zenon DEF Still, Steady, CalmWorker
<1>8. Elsewhere(c, l)
  <2>1. \A d \in Clients, m \in Locks : SameState(d, m)
    BY <1>0, Zenon DEF SameState, InUse, Cached
  <2>2. \A t \in Threads, m \in Locks : InFlush(t, m) => InFlush(t, m)'
    BY <1>0, Zenon DEF InFlush
  <2>3. \A j \in Slots : call'[j] = call[j] \/ OnlyAbout(j, c, l)
    BY <1>2 DEF OnlyAbout, c
  <2> QED BY <1>0, <1>4, <1>7, <1>q, <2>1, <2>2, <2>3, Frame, ZenonT(40)
<1>9. CalmState(c, l)'
  BY <1>0, <1>1, <1>s, Zenon DEF CalmState, InUse, HeldHere, Awaits
<1>10. CalmQueue(c, l)'
  <2>1. InQueue(c, l)' /\ Told(k, c, l)'
    BY <1>0, <1>2, <1>q, Zenon DEF InQueue, Told, c
  <2>2. \A j \in Slots : ~RetryTo(j, c, l)'
    BY <1>2, <1>5, Zenon DEF RetryTo
  <2> QED BY <2>1, <2>2, Zenon DEF CalmQueue
<1>11. CalmLock(l)'
  <2>1. \A j \in Slots : InCall(j, l) => InCall(j, l)'
    BY <1>2, Zenon DEF InCall
  <2>2. Somewhere(l) => Somewhere(l)'
    BY <1>0, <2>1, Zenon DEF Somewhere, Cached, InFlush
  <2> QED BY <1>q, <1>s, <2>2, ZenonT(40) DEF CalmLock
<1> QED BY <1>0, <1>6, <1>7, <1>8, <1>9, <1>10, <1>11, Local, ZenonT(40)

(* The server grants the lock or puts the client on the list.              *)
LEMMA ServerAcquireCalm ==
  ASSUME IInv, Steady, ~overtaken, NEW k \in Slots, ServerAcquire(k),
         UNCHANGED clientVars
  PROVE Steady'
<1>1. call[k].st = "acquire" /\ ~serverlock_mutex /\ call[k].lid \in Locks
  BY DEF ServerAcquire, IInv, CallsFit, CallFits
<1>2. PICK l \in Locks : l = call[k].lid
  BY <1>1
<1>3. CASE /\ where_is_lock[l] = None
           /\ where_is_lock' = [where_is_lock EXCEPT ![l] = Source(k)]
           /\ Reply(k, "OK")
           /\ UNCHANGED who_waiting_lock
  BY <1>1, <1>2, <1>3, GrantCalm, ZenonT(40) DEF ServerAcquire
<1>4. CASE /\ where_is_lock[l] # None
           /\ who_waiting_lock' =
                [who_waiting_lock EXCEPT ![l] =
                   IF Waits(@, Source(k)) THEN @ ELSE Append(@, Source(k))]
           /\ Proceed(k, "owner", None) \/ Reply(k, "RETRY")
           /\ UNCHANGED where_is_lock
  BY <1>1, <1>2, <1>4, JoinCalm, ZenonT(40) DEF ServerAcquire
<1> QED BY <1>2, <1>3, <1>4, ZenonT(40) DEF ServerAcquire

(* The handler reads the owner, or has revoked the lock: the client at the *)
(* other end marks a lock in use, and nothing else changes.                *)
LEMMA RevokingCalm ==
  ASSUME IInv, Steady, NEW k \in Slots, NEW l \in Locks,
         call[k].lid = l, call[k].st \in {"owner", "revoke"},
         call'[k].st \in {"revoke", "RETRY"}, call'[k].lid = l, call'[k].live,
         \A j \in Slots : j # k => call'[j] = call[j],
         \A d \in Clients, m \in Locks : SameState(d, m),
         \A d \in Clients : lockmap_mutex[d] => lockstate_map'[d] = lockstate_map[d],
         UNCHANGED <<serverVars, late, lockmap_mutex, held, pc, arg>>
  PROVE Steady'
<1> DEFINE c == Source(k)
<1>0. /\ c \in Clients /\ where_is_lock' = where_is_lock
      /\ who_waiting_lock' = who_waiting_lock /\ serverlock_mutex' = serverlock_mutex
  BY Names, Zenon DEF serverVars
<1> HIDE DEF c
<1>1. NoLate' /\ \A j \in Slots : CalmCall(j)'
  <2>1. \A j \in Slots : CalmCall(j)
    BY ZenonT(40) DEF Steady
  <2>2. CalmCall(k)'
    BY DEF CalmCall
  <2>3. \A i \in Slots : call'[i].st = "retry" => call[i].st = "retry"
    BY Zenon
  <2>4. ASSUME NEW j \in Slots, j # k PROVE CalmCall(j)'
    BY <1>0, <2>1, <2>3, <2>4, ZenonT(40) DEF CalmCall
  <2>5. NoLate'
    BY Zenon DEF NoLate, Steady
  <2> QED BY <2>2, <2>4, <2>5, ZenonT(40)
<1>2. \A v \in Workers : CalmWorker(v)' /\ Still(v)
  <2>1. \A v \in Workers : CalmWorker(v) /\ ClientOf[v] \in Clients
    BY Names, Zenon DEF Steady
  <2> QED BY <2>1, AskersCalm, Zenon DEF Still, CalmWorker
<1>3. Elsewhere(c, l)
  <2>1. \A t \in Threads, m \in Locks : InFlush(t, m) => InFlush(t, m)'
    BY Zenon DEF InFlush
  <2>2. \A j \in Slots : call'[j] = call[j] \/ OnlyAbout(j, c, l)
    BY Zenon DEF OnlyAbout, c
  <2> QED BY <1>0, <1>2, <2>1, <2>2, Frame, ZenonT(40)
<1>s. CalmState(c, l) /\ CalmQueue(c, l) /\ CalmLock(l) /\ SameState(c, l)
  BY <1>0 DEF Steady
<1>4. \A j \in Slots, d \in Clients : /\ Told(j, d, l)' <=> Told(j, d, l)
                                      /\ RetryTo(j, d, l)' <=> RetryTo(j, d, l)
  BY Zenon DEF Told, RetryTo
<1>5. \A d \in Clients : InQueue(d, l)' <=> InQueue(d, l)
  BY <1>0, <1>4, Zenon DEF InQueue
<1>6. CalmState(c, l)'
  BY <1>0, <1>5, <1>s, ZenonT(40) DEF CalmState, SameState, HeldHere, Awaits
<1>7. CalmQueue(c, l)'
  <2>1. \A v \in Workers : Awaits(v, c, l)' <=> Awaits(v, c, l)
    BY DEF Awaits
  <2> QED BY <1>0, <1>4, <1>5, <1>s, <2>1, ZenonT(40) DEF CalmQueue, SameState
<1>8. CalmLock(l)'
  <2>1. \A j \in Slots : InCall(j, l) => InCall(j, l)'
    BY Zenon DEF InCall
  <2>2. \A d \in Clients : Cached(d, l) => Cached(d, l)'
    BY DEF SameState
  <2>3. Somewhere(l) => Somewhere(l)'
    BY <2>1, <2>2, Zenon DEF Somewhere, InFlush
  <2>4. Asking(l) => Asking(l)'
    <3>1. ASSUME NEW v \in Workers, pc[v] = "woken", arg[v] = l,
                 lockstate_map[ClientOf[v]][l] = "NONE", ~InQueue(ClientOf[v], l)
          PROVE Asking(l)'
      <4>1. lockstate_map'[ClientOf[v]][l] = "NONE"
        BY <3>1, Names, ZenonT(40) DEF SameState
      <4> QED BY <1>5, <3>1, <4>1, Names, ZenonT(40) DEF Asking
    <3>2. ASSUME NEW j \in Slots, call[j].st \in {"retry", "acquire"}, call[j].lid = l
          PROVE Asking(l)'
      BY <3>2 DEF Asking
    <3> QED BY <3>1, <3>2, Zenon DEF Asking
  <2> QED BY <1>0, <1>s, <2>3, <2>4, ZenonT(40) DEF CalmLock
<1> QED BY <1>0, <1>1, <1>2, <1>3, <1>6, <1>7, <1>8, Local, ZenonT(40)

(* It reads the owner, outside the mutex, ...                              *)
LEMMA ReadOwnerCalm ==
  ASSUME IInv, Steady, NEW k \in Slots, ServerReadOwner(k), UNCHANGED clientVars
  PROVE Steady'
<1> DEFINE p == where_is_lock[call[k].lid]
<1>1. /\ CallsTypeOK /\ ServerTypeOK /\ call[k].st = "owner" /\ call[k].live
      /\ call[k].lid \in Locks /\ p \in Clients \cup {None}
      /\ Proceed(k, "revoke", p) /\ UNCHANGED <<serverVars, late>>
  BY DEF IInv, TypeOK, CallsFit, CallFits, Steady, CalmCall, ServerReadOwner,
         ServerTypeOK
<1> HIDE DEF p
<1>2. "revoke" \in CallStates
  BY Zenon DEF CallStates
<1>3. /\ call'[k].st = "revoke" /\ call'[k].lid = call[k].lid /\ call'[k].live
      /\ \A j \in Slots : j # k => call'[j] = call[j]
  BY <1>1, <1>2, HandlerGoesOn, Zenon
<1>4. \A d \in Clients, m \in Locks : SameState(d, m)
  BY Zenon DEF clientVars, SameState, InUse, Cached
<1> QED BY <1>1, <1>3, <1>4, RevokingCalm, ZenonT(40) DEF clientVars

(* ... and the revoke returns: the caller is told to wait.                 *)
LEMMA RevokeCalm ==
  ASSUME IInv, Steady, NEW k \in Slots, Revoke(k)
  PROVE Steady'
<1> DEFINE p == call[k].peer
           l == call[k].lid
<1>1. /\ CallsTypeOK /\ ClientTypeOK /\ call[k] \in Call
      /\ call[k].st = "revoke" /\ call[k].live
      /\ l \in Locks /\ p # None /\ Reply(k, "RETRY") /\ UNCHANGED <<serverVars, late>>
      /\ revoke_handler(p, l)
  BY Zenon DEF IInv, TypeOK, CallsFit, CallFits, Steady, CalmCall, Revoke, ServerRevokeOK,
         CallsTypeOK
<1>2. p \in Clients
  BY <1>1, CallFields, Zenon
<1>3. /\ call'[k].st = "RETRY" /\ call'[k].lid = l /\ call'[k].live
      /\ \A j \in Slots : j # k => call'[j] = call[j]
  <2>1. "RETRY" \in CallStates /\ None \in Clients \cup {None}
    BY Zenon DEF CallStates, Replies
  <2> QED BY <1>1, <2>1, HandlerGoesOn, Zenon
<1> HIDE DEF p, l
<1>4. /\ ~lockmap_mutex[p] /\ UNCHANGED <<lockmap_mutex, pc, arg, held>>
      /\ \A d \in Clients : d # p => lockstate_map'[d] = lockstate_map[d]
      /\ \A d \in Clients, m \in Locks :
           lockstate_map'[d][m] =
             IF d = p /\ m = l
             THEN IF lockstate_map[p][l] = "LOCKED" THEN "RELEASING"
                  ELSE IF lockstate_map[p][l] = "ABSENT" THEN "NONE"
                  ELSE lockstate_map[p][l]
             ELSE lockstate_map[d][m]
  BY <1>1, <1>2, Zenon DEF revoke_handler, SetLock, ClientTypeOK
<1>5. \A d \in Clients, m \in Locks : SameState(d, m)
  BY <1>4, ZenonT(40) DEF SameState, InUse, Cached
<1>6. PICK m \in Locks : m = l
  BY <1>1
<1>7. call[k].lid = m /\ call'[k].lid = m
  BY <1>3, <1>6, Zenon DEF l
<1> QED BY <1>1, <1>3, <1>4, <1>5, <1>7, RevokingCalm, ZenonT(40)

(* release() at the server: the lock is back, nobody waits for it, ...     *)
LEMMA TakenBackCalm ==
  ASSUME IInv, Steady, NEW k \in Slots, NEW l \in Locks,
         call[k].lid = l, call[k].st = "release", who_waiting_lock[l] = <<>>,
         where_is_lock' = [where_is_lock EXCEPT ![l] = None], Reply(k, "DONE"),
         UNCHANGED <<who_waiting_lock, serverlock_mutex, late, clientVars>>
  PROVE Steady'
<1> DEFINE c == Source(k)
<1>0. /\ CallsTypeOK /\ ServerTypeOK /\ call[k].live /\ c \in Clients
      /\ lockstate_map' = lockstate_map /\ lockmap_mutex' = lockmap_mutex
      /\ held' = held /\ pc' = pc /\ arg' = arg
  BY Names, Zenon DEF IInv, TypeOK, clientVars, Steady, CalmCall
<1>2. /\ call'[k].st = "DONE" /\ call'[k].lid = l /\ call'[k].live
      /\ \A j \in Slots : j # k => call'[j] = call[j]
  <2>1. "DONE" \in CallStates /\ None \in Clients \cup {None}
    BY DEF CallStates, Replies
  <2> QED BY <1>0, <2>1, HandlerGoesOn, ZenonT(40)
<1>3. where_is_lock'[l] = None /\ \A m \in Locks : m # l => where_is_lock'[m] = where_is_lock[m]
  BY <1>0, Zenon DEF ServerTypeOK
<1> HIDE DEF c
<1>5. NoLate' /\ \A j \in Slots : CalmCall(j)'
  <2>1. \A j \in Slots : CalmCall(j) /\ CallFits(j)
    BY Zenon DEF Steady, IInv, CallsFit
  <2>2. ASSUME NEW j \in Slots, j # k PROVE CalmCall(j)'
    <3>1. call[j].st = "retry" => where_is_lock'[call[j].lid] = None
      BY <1>3, <2>1, Zenon DEF CalmCall, CallFits
    <3> QED BY <1>2, <2>1, <2>2, <3>1, ZenonT(40) DEF CalmCall
  <2>3. CalmCall(k)'
    BY <1>2, Zenon DEF CalmCall
  <2> QED BY <2>2, <2>3, Zenon DEF NoLate, Steady
<1>6. \A v \in Workers : CalmWorker(v)' /\ Still(v)
  BY <1>0, AskersCalm, ZenonT(40) DEF Still, Steady, CalmWorker
<1>7. Elsewhere(c, l)
  <2>1. \A d \in Clients, m \in Locks : SameState(d, m)
    BY <1>0, Zenon DEF SameState, InUse, Cached
  <2>2. \A t \in Threads, m \in Locks : InFlush(t, m) => InFlush(t, m)'
    BY <1>0, Zenon DEF InFlush
  <2>3. \A j \in Slots : call'[j] = call[j] \/ OnlyAbout(j, c, l)
    BY <1>2, Zenon DEF OnlyAbout
  <2> QED BY <1>0, <1>3, <1>6, <2>1, <2>2, <2>3, Frame, ZenonT(40)
<1>s. CalmState(c, l) /\ CalmQueue(c, l) /\ CalmLock(l)
  BY <1>0, Zenon DEF Steady
<1>8. /\ \A j \in Slots : /\ Told(j, c, l)' <=> Told(j, c, l)
                          /\ RetryTo(j, c, l)' <=> RetryTo(j, c, l)
      /\ InQueue(c, l)' <=> InQueue(c, l)
  <2>1. \A j \in Slots : /\ Told(j, c, l)' <=> Told(j, c, l)
                         /\ RetryTo(j, c, l)' <=> RetryTo(j, c, l)
    BY <1>2, Zenon DEF Told, RetryTo
  <2> QED BY <2>1, Zenon DEF InQueue
<1>9. CalmState(c, l)'
  BY <1>0, <1>8, <1>s, Zenon DEF CalmState, InUse, HeldHere, Awaits
<1>10. CalmQueue(c, l)'
  <2>1. \A v \in Workers : Awaits(v, c, l)' <=> Awaits(v, c, l)
    BY <1>0, Zenon DEF Awaits
  <2> QED BY <1>0, <1>8, <1>s, <2>1, ZenonT(40) DEF CalmQueue
<1>11. CalmLock(l)'
  BY <1>3, <1>s, Zenon DEF CalmLock
<1> QED BY <1>0, <1>5, <1>6, <1>7, <1>9, <1>10, <1>11, Local, ZenonT(40)

(* ... or the first client on the list is told to retry, mutex held.       *)
LEMMA HandOnCalm ==
  ASSUME IInv, Steady, NEW k \in Slots, NEW l \in Locks, NEW h \in Clients,
         call[k].lid = l, call[k].st = "release", who_waiting_lock[l] # <<>>,
         h = Head(who_waiting_lock[l]), ~serverlock_mutex,
         where_is_lock' = [where_is_lock EXCEPT ![l] = None],
         who_waiting_lock' = [who_waiting_lock EXCEPT ![l] = Tail(@)],
         serverlock_mutex' = TRUE, Proceed(k, "retry", h),
         UNCHANGED <<late, clientVars>>
  PROVE Steady'
<1> DEFINE q == who_waiting_lock[l]
<1>0. /\ CallsTypeOK /\ ServerTypeOK /\ call[k].live
      /\ lockstate_map' = lockstate_map /\ lockmap_mutex' = lockmap_mutex
      /\ held' = held /\ pc' = pc /\ arg' = arg
  BY Names, Zenon DEF IInv, TypeOK, clientVars, Steady, CalmCall
<1>2. /\ call'[k].st = "retry" /\ call'[k].lid = l /\ call'[k].live
      /\ call'[k].peer = h /\ \A j \in Slots : j # k => call'[j] = call[j]
  <2>1. "retry" \in CallStates
    BY DEF CallStates
  <2> QED BY <1>0, <2>1, HandlerGoesOn, ZenonT(40)
<1>3. where_is_lock'[l] = None /\ \A m \in Locks : m # l => where_is_lock'[m] = where_is_lock[m]
  BY <1>0, Zenon DEF ServerTypeOK
<1>s. CalmState(h, l) /\ CalmQueue(h, l) /\ CalmLock(l)
  BY <1>0, Zenon DEF Steady
<1>4. /\ q \in Seq(Clients) /\ who_waiting_lock'[l] = Tail(q)
      /\ \A m \in Locks : m # l => who_waiting_lock'[m] = who_waiting_lock[m]
      /\ q # <<>> /\ h = Head(q) /\ NoTwice(q)
  BY <1>0, <1>s, ZenonT(40) DEF ServerTypeOK, CalmLock
<1> HIDE DEF q
<1>q. /\ Waits(q, h) /\ ~Waits(Tail(q), h) /\ NoTwice(Tail(q))
      /\ \A d \in Clients : d # h => (Waits(Tail(q), d) <=> Waits(q, d))
  BY <1>4, Queues, SMTT(30)
<1>5. \A j \in Slots : call[j].st # "retry"
  BY Zenon DEF Steady, CalmCall
<1>6. NoLate' /\ \A j \in Slots : CalmCall(j)'
  <2>1. \A j \in Slots : CalmCall(j)
    BY Zenon DEF Steady
  <2>2. NoLate'
    BY Zenon DEF NoLate, Steady
  <2>3. ASSUME NEW j \in Slots PROVE CalmCall(j)'
    <3>1. CASE j = k
      <4>1. \A i \in Slots : call'[i].st = "retry" => i = k
        BY <1>2, <1>5, ZenonT(40)
      <4>2. call'[k].st # "RPCERR"
        BY <1>2
      <4> QED BY <1>2, <1>3, <3>1, <4>1, <4>2, ZenonT(40) DEF CalmCall
    <3>2. CASE j # k
      <4>1. call'[j] = call[j] /\ call[j].st # "retry"
        BY <1>2, <1>5, <3>2, Zenon
      <4> QED BY <2>1, <4>1, Zenon DEF CalmCall
    <3> QED BY <3>1, <3>2, Zenon
  <2> QED BY <2>2, <2>3, Zenon
<1>7. \A v \in Workers : CalmWorker(v)' /\ Still(v)
  BY <1>0, AskersCalm, Zenon DEF Still, Steady, CalmWorker
<1>8. Elsewhere(h, l)
  <2>1. \A d \in Clients, m \in Locks : SameState(d, m)
    BY <1>0, Zenon DEF SameState, InUse, Cached
  <2>2. \A t \in Threads, m \in Locks : InFlush(t, m) => InFlush(t, m)'
    BY <1>0, Zenon DEF InFlush
  <2>3. \A j \in Slots : call'[j] = call[j] \/ OnlyAbout(j, h, l)
    BY <1>2, Zenon DEF OnlyAbout
  <2>4. \A d \in Clients : d # h =>
           (Waits(who_waiting_lock'[l], d) <=> Waits(who_waiting_lock[l], d))
    BY <1>4, <1>q, Zenon DEF q
  <2> QED BY <1>0, <1>3, <1>4, <1>7, <2>1, <2>2, <2>3, <2>4, Frame, ZenonT(40)
<1>9. RetryTo(k, h, l)' /\ InQueue(h, l)' /\ InQueue(h, l)
      /\ \A j \in Slots : Told(j, h, l)' <=> Told(j, h, l)
  BY <1>2, <1>q, Zenon DEF InQueue, RetryTo, Told, q
<1>10. CalmState(h, l)'
  BY <1>0, <1>9, <1>s, ZenonT(40) DEF CalmState, InUse, HeldHere, Awaits
<1>11. CalmQueue(h, l)'
  <2>1. \A v \in Workers : Awaits(v, h, l)' <=> Awaits(v, h, l)
    BY <1>0 DEF Awaits
  <2>2. ~Waits(who_waiting_lock'[l], h)
    BY <1>4, <1>q, Zenon
  <2> QED BY <1>0, <1>9, <1>s, <2>1, <2>2, ZenonT(40) DEF CalmQueue
<1>12. CalmLock(l)'
  <2>1. Asking(l)'
    BY <1>2, Zenon DEF Asking
  <2> QED BY <1>3, <1>4, <1>q, <2>1, ZenonT(40) DEF CalmLock
<1> QED BY <1>0, <1>6, <1>7, <1>8, <1>10, <1>11, <1>12, Local, ZenonT(40)

(* The server takes the lock back and tells the first waiter.              *)
LEMMA ServerReleaseCalm ==
  ASSUME IInv, Steady, NEW k \in Slots, ServerRelease(k), UNCHANGED clientVars
  PROVE Steady'
<1>1. /\ call[k].st = "release" /\ ~serverlock_mutex /\ call[k].lid \in Locks
      /\ ServerTypeOK
  BY Zenon DEF ServerRelease, IInv, TypeOK, CallsFit, CallFits
<1>2. PICK l \in Locks : l = call[k].lid
  BY <1>1, Zenon
<1>3. CASE who_waiting_lock[l] = <<>>
  BY <1>1, <1>2, <1>3, TakenBackCalm, ZenonT(40) DEF ServerRelease
<1>4. CASE who_waiting_lock[l] # <<>>
  <2>1. Head(who_waiting_lock[l]) \in Clients
    BY <1>1, <1>4, SMTT(20) DEF ServerTypeOK
  <2>2. PICK h \in Clients : h = Head(who_waiting_lock[l])
    BY <2>1, Zenon
  <2> QED BY <1>1, <1>2, <1>4, <2>2, HandOnCalm, ZenonT(40) DEF ServerRelease
<1> QED BY <1>3, <1>4, ZenonT(40)

(* The retry callback reaches a client that is ACQUIRING: every sleeper    *)
(* wakes up and may ask again, the client is off the list.                 *)
LEMMA RetryCalm ==
  ASSUME IInv, Steady, NEW k \in Slots, Retry(k)
  PROVE Steady'
<1>1. /\ CallsTypeOK /\ ClientTypeOK /\ call[k].st = "retry" /\ call[k].live
      /\ call[k].lid \in Locks /\ call[k].peer \in Clients
      /\ serverlock_mutex' = FALSE /\ Reply(k, "DONE")
      /\ UNCHANGED <<late, where_is_lock, who_waiting_lock>>
      /\ retry_handler(call[k].peer, call[k].lid)
      /\ CalmCall(k)
  BY Zenon DEF IInv, TypeOK, CallsFit, CallFits, Steady, CalmCall, Retry, ServerRetryReturns
<1>l. PICK l \in Locks : call[k].lid = l
  BY <1>1, Zenon
<1>c. PICK c \in Clients : call[k].peer = c
  BY <1>1, Zenon
<1>2. /\ call'[k].st = "DONE" /\ call'[k].lid = l /\ call'[k].live
      /\ \A j \in Slots : j # k => call'[j] = call[j]
  <2>1. "DONE" \in CallStates /\ None \in Clients \cup {None}
    BY DEF CallStates, Replies
  <2> QED BY <1>1, <1>l, <2>1, HandlerGoesOn, ZenonT(40)
<1>s. CalmState(c, l) /\ CalmQueue(c, l) /\ CalmLock(l)
  BY Zenon DEF Steady
<1>3. ~lockmap_mutex[c] /\ RetryTo(k, c, l) /\ InQueue(c, l)
  BY <1>1, <1>l, <1>c, Zenon DEF retry_handler, InQueue, RetryTo
<1>4. \A j \in Slots : ~Told(j, c, l)
  BY <1>3, Asker, Zenon DEF Told, AcquireCalls
<1>5. /\ lockstate_map[c][l] = "ACQUIRING"
      /\ \E w \in Workers : Awaits(w, c, l) /\ pc[w] \in {"waiting", "woken"}
  BY <1>3, <1>4, <1>s, Zenon DEF CalmQueue
<1>6. /\ lockstate_map'[c][l] = "NONE"
      /\ \A d \in Clients : d # c => lockstate_map'[d] = lockstate_map[d]
      /\ \A d \in Clients, m \in Locks : d # c \/ m # l =>
           lockstate_map'[d][m] = lockstate_map[d][m]
      /\ lockmap_mutex' = lockmap_mutex /\ arg' = arg /\ held' = held
      /\ pc' = Woken(c, l)
  <2>1. retry_handler(c, l)
    BY <1>1, <1>l, <1>c, Zenon
  <2>2. /\ lockstate_map' = [lockstate_map EXCEPT ![c][l] = "NONE"]
        /\ lockmap_mutex' = lockmap_mutex /\ arg' = arg /\ held' = held
        /\ pc' = Woken(c, l)
    BY <1>5, <2>1, ZenonT(40) DEF retry_handler, SetLock
  <2> QED BY <1>1, <2>2, Zenon DEF ClientTypeOK
<1>w. pc' = Woken(c, l)
  BY <1>6
<1>7. \A t \in Threads :
        pc'[t] = IF pc[t] = "waiting" /\ Home(t) = c /\ arg[t] = l
                 THEN "woken" ELSE pc[t]
  <2>1. \A t \in Threads :
          Woken(c, l)[t] = IF pc[t] = "waiting" /\ Home(t) = c /\ arg[t] = l
                           THEN "woken" ELSE pc[t]
    BY <1>1, WokenAll, SMTT(20)
  <2> QED BY <1>w, <2>1, ZenonT(40)
<1>8. \A v \in Workers :
        /\ v \in Threads /\ Home(v) = ClientOf[v] /\ arg'[v] = arg[v]
        /\ pc'[v] = IF pc[v] = "waiting" /\ ClientOf[v] = c /\ arg[v] = l
                    THEN "woken" ELSE pc[v]
        /\ Still(v) \/ (ClientOf[v] = c /\ arg[v] = l /\ arg'[v] = l)
        /\ pc[v] # "retest"
  BY <1>6, <1>7, Names, ZenonT(60) DEF Still, Steady, CalmWorker
<1>9. NoLate' /\ \A j \in Slots : CalmCall(j)'
  <2>1. \A j \in Slots : CalmCall(j)
    BY DEF Steady
  <2>2. ASSUME NEW j \in Slots, j # k PROVE CalmCall(j)'
    <3>1. call[j].st # "retry"
      BY <1>1, <2>2, ZenonT(40) DEF CalmCall
    <3> QED BY <1>2, <2>1, <2>2, <3>1, Zenon DEF CalmCall
  <2>3. CalmCall(k)'
    BY <1>2 DEF CalmCall
  <2> QED BY <1>1, <2>2, <2>3, Zenon DEF NoLate, Steady
<1>10. \A v \in Workers : CalmWorker(v)'
  <2>1. \A d \in Clients : d # c => /\ lockmap_mutex'[d] = lockmap_mutex[d]
                                    /\ lockstate_map'[d] = lockstate_map[d]
    BY <1>6, Zenon
  <2>2. \A v \in Workers : /\ Still(v) \/ ClientOf[v] = c
                           /\ pc'[v] = "acquiring" => pc[v] = "acquiring"
                           /\ pc'[v] # "retest"
    BY <1>8
  <2> QED BY <1>3, <2>1, <2>2, WorkersCalm, ZenonT(40)
<1>11. Elsewhere(c, l)
  <2>1. \A d \in Clients, m \in Locks : d # c \/ m # l => SameState(d, m)
    BY <1>6, Zenon DEF SameState, InUse, Cached
  <2>2. \A t \in Threads, m \in Locks : m # l /\ InFlush(t, m) => InFlush(t, m)'
    BY <1>6, <1>7, Zenon DEF InFlush
  <2>3. \A j \in Slots : call'[j] = call[j] \/ OnlyAbout(j, c, l)
    BY <1>1, <1>2, <1>l, <1>c, ZenonT(40) DEF OnlyAbout
  <2> QED BY <1>1, <1>6, <1>8, <2>1, <2>2, <2>3, Frame, ZenonT(40)
<1>12. ~InQueue(c, l)' /\ \A j \in Slots : ~Told(j, c, l)'
  <2>1. \A j \in Slots : ~RetryTo(j, c, l)'
    BY <1>1, <1>2, Zenon DEF RetryTo, CalmCall
  <2>2. ~Waits(who_waiting_lock'[l], c)
    BY <1>1, <1>3, <1>s, ZenonT(40) DEF CalmQueue
  <2>3. \A j \in Slots : ~Told(j, c, l)'
    BY <1>2, <1>4, Zenon DEF Told
  <2> QED BY <2>1, <2>2, <2>3, ZenonT(40) DEF InQueue
<1>13. CalmState(c, l)'
  <2>1. ~InUse(c, l) /\ ~InUse(c, l)'
    BY <1>5, <1>6, Zenon DEF InUse
  <2>2. ~HeldHere(c, l)'
    BY <1>6, <1>s, <2>1, ZenonT(40) DEF CalmState, HeldHere
  <2>3. \A v \in Workers : Awaits(v, c, l)' => pc'[v] # "waiting"
    BY <1>8, Zenon DEF Awaits
  <2> QED BY <1>6, <2>1, <2>2, <2>3, ZenonT(40) DEF CalmState
<1>14. CalmQueue(c, l)'
  <2>1. \A j \in Slots : ~RetryTo(j, c, l)'
    BY <1>12, Zenon DEF InQueue
  <2> QED BY <1>12, <2>1, Zenon DEF CalmQueue
<1>15. CalmLock(l)'
  <2>1. Asking(l)'
    <3>1. PICK w \in Workers : Awaits(w, c, l) /\ pc[w] \in {"waiting", "woken"}
      BY <1>5, Zenon
    <3>2. ClientOf[w] = c /\ arg'[w] = l /\ pc'[w] = "woken"
      BY <1>8, <3>1, Zenon DEF Awaits
    <3> QED BY <1>6, <1>12, <3>2, Zenon DEF Asking
  <2>2. where_is_lock[l] = None
    BY <1>1, <1>l, Zenon DEF CalmCall
  <2> QED BY <1>1, <1>s, <2>1, <2>2, ZenonT(40) DEF CalmLock
<1> QED BY <1>9, <1>10, <1>11, <1>13, <1>14, <1>15, Local, ZenonT(40)
-----------------------------------------------------------------------------
(* The first state.                                                        *)
LEMMA CalmInitially == Init => Calm
<1> SUFFICES ASSUME Init PROVE Steady
  BY Zenon DEF Calm
<1>0. /\ \A w \in Workers : w \in Threads /\ ClientOf[w] \in Clients
      /\ \A k \in Slots : call[k] = Idle
      /\ \A l \in Locks : where_is_lock[l] = None /\ who_waiting_lock[l] = <<>>
  BY Names, Zenon DEF Init, CallsInit, ServerInit
<1>1. /\ \A w \in Workers : pc[w] = "idle" /\ held[w] = {}
      /\ \A c \in Clients, l \in Locks : lockstate_map[c][l] = "ABSENT"
  BY <1>0, Zenon DEF Init, ClientInit
<1>2. \A k \in Slots : call[k].st = "idle"
  BY <1>0, CallFields, Zenon
<1>3. NoLate
  BY DEF Init, CallsInit, NoLate
<1>4. \A k \in Slots : CalmCall(k)
  BY <1>2, Zenon DEF CalmCall
<1>5. \A w \in Workers : CalmWorker(w)
  BY <1>1, Zenon DEF CalmWorker
<1>6. ASSUME NEW c \in Clients, NEW l \in Locks PROVE CalmState(c, l) /\ CalmQueue(c, l)
  <2>1. ~InQueue(c, l) /\ \A k \in Slots : ~Told(k, c, l) /\ ~RetryTo(k, c, l)
    BY <1>0, <1>2, SMTT(30) DEF InQueue, Told, RetryTo, Waits
  <2>2. ~InUse(c, l) /\ ~HeldHere(c, l) /\ lockstate_map[c][l] # "ACQUIRING"
    BY <1>1, Zenon DEF InUse, HeldHere
  <2> QED BY <1>1, <2>1, <2>2, ZenonT(40) DEF CalmState, CalmQueue, Awaits
<1>7. \A l \in Locks : CalmLock(l)
  BY <1>0, SMTT(30) DEF CalmLock, NoTwice
<1> QED BY <1>3, <1>4, <1>5, <1>6, <1>7, ZenonT(40) DEF Steady

(* Neither a timeout nor an overtaken give_back() is ever forgotten.       *)
LEMMA CalmBefore ==
  ASSUME IInv, Next, ~overtaken', timeouts' = 0
  PROVE /\ ~overtaken /\ timeouts = 0
        /\ \A k \in Slots : ~ServerRevokeFails(k) /\ ~ServerRetryTimesOut(k)
                            /\ ~AcquireTimesOut(k) /\ ~ReleaseTimesOut(k)
<1>1. timeouts \in Nat
  BY Names, SMTT(30) DEF IInv, TypeOK, CallsTypeOK
<1>2. \A k \in Slots : /\ ~ServerRevokeFails(k) /\ ~ServerRetryTimesOut(k)
                       /\ ~AcquireTimesOut(k) /\ ~ReleaseTimesOut(k)
  <2>1. timeouts' # timeouts + 1
    BY <1>1, SMTT(30)
  <2>2. \A k \in Slots : ~Abandon(k) /\ ~AbandonCallback(k)
    BY <2>1, Zenon DEF Abandon, AbandonCallback
  <2> QED BY <2>2, Zenon DEF ServerRevokeFails, ServerRetryTimesOut, AcquireTimesOut,
                      ReleaseTimesOut
<1>3. ASSUME ClientStep PROVE ~overtaken /\ timeouts = 0
  <2>0. ASSUME NEW w \in Workers, NEW l \in Locks, Acquire(w, l)
        PROVE ~overtaken /\ timeouts = 0
    <3>1. overtaken' = overtaken /\ timeouts' = timeouts
      BY <2>0, Zenon DEF Acquire
    <3> QED BY <3>1, Zenon
  <2>1. ASSUME NEW w \in Workers, NEW l \in Locks, Release(w, l)
        PROVE ~overtaken /\ timeouts = 0
    <3>1. overtaken' = overtaken /\ timeouts' = timeouts
      BY <2>1, Zenon DEF Release, callVars
    <3> QED BY <3>1, Zenon
  <2>2. ASSUME NEW t \in Threads, SendRelease(t) PROVE ~overtaken /\ timeouts = 0
    BY <2>2, Zenon DEF SendRelease
  <2>3. ASSUME NEW k \in Slots, AcquireReply(k) \/ ReleaseReply(k)
        PROVE ~overtaken /\ timeouts = 0
    <3>1. overtaken' = overtaken /\ timeouts' = timeouts
      BY <2>3, Zenon DEF AcquireReply, ReleaseReply
    <3> QED BY <3>1, Zenon
  <2>4. ASSUME NEW c \in Clients, GiveBackTake(c) PROVE ~overtaken /\ timeouts = 0
    BY <2>4, Zenon DEF GiveBackTake, callVars
  <2>5. ASSUME NEW c \in Clients, NEW l \in Locks, GiveBackCheck(c, l)
        PROVE ~overtaken /\ timeouts = 0
    BY <2>5, Zenon DEF GiveBackCheck, callVars
  <2> QED BY <1>2, <1>3, <2>0, <2>1, <2>2, <2>3, <2>4, <2>5, ZenonT(40) DEF ClientStep
<1>4. ASSUME ServerStep PROVE ~overtaken /\ timeouts = 0
  <2>1. overtaken' = overtaken
    BY <1>4, Zenon DEF ServerStep, clientVars
  <2>2. timeouts' = timeouts
    BY <1>2, <1>4, Zenon DEF ServerStep, ServerAcquire, ServerReadOwner, ServerRelease
  <2> QED BY <2>1, <2>2, Zenon
<1>5. ASSUME CallbackStep PROVE ~overtaken /\ timeouts = 0
  <2>1. \A c, l : revoke_handler(c, l) \/ retry_handler(c, l) =>
                    overtaken' = overtaken
    BY Zenon DEF revoke_handler, retry_handler
  <2>2. \A k \in Slots : Revoke(k) \/ Retry(k) =>
                           overtaken' = overtaken /\ timeouts' = timeouts
    BY <2>1, Zenon DEF Revoke, Retry, ServerRevokeOK, ServerRetryReturns
  <2>3. \A c \in Clients, l \in Locks : LateRevoke(c, l) \/ LateRetry(c, l) =>
                                          overtaken' = overtaken /\ timeouts' = timeouts
    BY <2>1, Zenon DEF LateRevoke, LateRetry
  <2> QED BY <1>5, <2>2, <2>3, Zenon DEF CallbackStep
<1> QED BY <1>2, <1>3, <1>4, <1>5, ZenonT(40) DEF Next

(* All steps; one that times out or overtakes ends what Calm is about.     *)
LEMMA CalmInductive == IInv /\ Calm /\ [Next]_vars => Calm'
<1> SUFFICES ASSUME IInv, Calm, [Next]_vars, ~overtaken', timeouts' = 0
             PROVE Steady'
  BY DEF Calm
<1>1. CASE Next
  <2>0. /\ ~overtaken /\ timeouts = 0 /\ Steady
        /\ \A k \in Slots : /\ ~ServerRevokeFails(k) /\ ~ServerRetryTimesOut(k)
                            /\ ~AcquireTimesOut(k) /\ ~ReleaseTimesOut(k)
    BY <1>1, CalmBefore, Zenon DEF Calm
  <2>1. CASE ClientStep
    <3>1. ASSUME NEW t \in Threads, SendRelease(t) PROVE Steady'
      <4>1. arg[t] \in Locks
        BY <3>1, Zenon DEF SendRelease, IInv, ThreadsFit, ThreadFits
      <4> QED BY <2>0, <2>1, <3>1, <4>1, SendReleaseCalm, ZenonT(40) DEF ClientStep
    <3>2. ASSUME NEW k \in Slots, ReleaseReply(k) PROVE Steady'
      <4>1. arg[Caller(k)] \in Locks
        <5>1. /\ call[k].st = "DONE" /\ CallFits(k) /\ ThreadFits(Caller(k))
          BY <3>2, Names, Zenon DEF ReleaseReply, IInv, CallsFit, ThreadsFit
        <5>2. pc[Caller(k)] = "releasing"
          BY <5>1, Zenon DEF CallFits, Replies, AcquireCalls
        <5> QED BY <5>1, <5>2, Zenon DEF ThreadFits
      <4> QED BY <2>0, <2>1, <3>2, <4>1, ReleaseReplyCalm, Zenon DEF ClientStep
    <3>3. ASSUME NEW c \in Clients, GiveBackTake(c) PROVE Steady'
      <4>1. arg[c] \in Locks
        BY <3>3, Names, Zenon DEF GiveBackTake, IInv, ThreadsFit, ThreadFits
      <4> QED BY <2>0, <2>1, <3>3, <4>1, GiveBackTakeCalm, ZenonT(40) DEF ClientStep
    <3> QED BY <2>0, <2>1, <3>1, <3>2, <3>3, AcquireCalm, ReleaseCalm,
               AcquireReplyCalm, GiveBackCheckCalm, ZenonT(40) DEF ClientStep
  <2>2. CASE ServerStep
    BY <2>0, <2>2, ServerAcquireCalm, ReadOwnerCalm, ServerReleaseCalm, Zenon DEF ServerStep
  <2>3. CASE CallbackStep
    <3>1. \A c \in Clients, l \in Locks : ~LateRevoke(c, l) /\ ~LateRetry(c, l)
      <4>1. \A c \in Clients, l \in Locks :
              late[<<"revoke", c, l>>] = 0 /\ late[<<"retry", c, l>>] = 0
        <5>1. NoLate
          BY <2>0, Zenon DEF Steady
        <5>2. \A c \in Clients, l \in Locks :
                /\ <<"revoke", c, l>> \in Callbacks \X Clients \X Locks
                /\ <<"retry", c, l>> \in Callbacks \X Clients \X Locks
          BY DEF Callbacks
        <5> QED BY <5>1, <5>2, Zenon DEF NoLate
      <4>2. ~(0 > 0)
        OBVIOUS
      <4> QED BY <4>1, <4>2, Zenon DEF LateRevoke, LateRetry
    <3> QED BY <2>0, <2>3, <3>1, RevokeCalm, RetryCalm, Zenon DEF CallbackStep
  <2> QED BY <1>1, <2>1, <2>2, <2>3, Zenon DEF Next
<1>2. CASE UNCHANGED vars
  <2>0. UNCHANGED <<call, late, lockstate_map, lockmap_mutex, pc, arg, held,
                    where_is_lock, who_waiting_lock, serverlock_mutex>>
    BY <1>2, Zenon DEF vars, callVars, clientVars, serverVars
  <2>1. Steady
    BY <1>2, Zenon DEF Calm, vars, callVars, clientVars
  <2>2. NoLate' /\ \A k \in Slots : CalmCall(k)'
    BY <2>0, <2>1, CallsCalm, Zenon
  <2>3. \A w \in Workers : CalmWorker(w)'
    BY <2>0, <2>1, Zenon DEF Steady, CalmWorker
  <2>4. ASSUME NEW c \in Clients, NEW l \in Locks
        PROVE CalmState(c, l)' /\ CalmQueue(c, l)'
    <3>1. CalmState(c, l) /\ CalmQueue(c, l)
      BY <2>1, Zenon DEF Steady
    <3>2. InQueue(c, l)' <=> InQueue(c, l)
      BY <2>0, Zenon DEF InQueue, RetryTo
    <3>3. CalmState(c, l)'
      BY <2>0, <3>1, <3>2, Zenon DEF CalmState, InUse, HeldHere, Awaits
    <3>4. CalmQueue(c, l)'
      BY <2>0, <3>1, <3>2, Zenon DEF CalmQueue, Awaits, RetryTo, Told
    <3> QED BY <3>3, <3>4, Zenon
  <2>5. ASSUME NEW l \in Locks PROVE CalmLock(l)'
    <3>1. CalmLock(l)
      BY <2>1, Zenon DEF Steady
    <3>2. \A c \in Clients : InQueue(c, l)' <=> InQueue(c, l)
      BY <2>0, Zenon DEF InQueue, RetryTo
    <3>3. Asking(l)' <=> Asking(l)
      BY <2>0, <3>2, Names, Zenon DEF Asking
    <3>4. Somewhere(l)' <=> Somewhere(l)
      BY <2>0, Zenon DEF Somewhere, Cached, InFlush, InCall
    <3> QED BY <2>0, <3>1, <3>3, <3>4, Zenon DEF CalmLock
  <2> QED BY <2>2, <2>3, <2>4, <2>5, Zenon DEF Steady
<1> QED BY <1>1, <1>2, Zenon

(* As long as every call is answered, and no give_back() was overtaken,    *)
(* the client's table, the waiting lists and the calls on their way agree. *)
THEOREM CalmHolds == Spec => []Calm
BY Invariant, CalmInitially, CalmInductive, PTL DEF Spec

(* LockNotLost: as long as no call has timed out, a lock that the server   *)
(* has handed out is held, cached, about to be given back or in a message. *)
THEOREM NoLockIsLost == Spec => []LockNotLost
<1>1. ASSUME NEW l \in Locks, Somewhere(l) PROVE TokenPlaces(l) # {}
  <2>1. ASSUME NEW w \in Workers, l \in held[w] PROVE TokenPlaces(l) # {}
    <3>1. <<"held", w>> \in Place /\ HasToken(<<"held", w>>, l)
      BY <2>1, Zenon DEF Place, HasToken
    <3> QED BY <3>1, Zenon DEF TokenPlaces
  <2>2. ASSUME NEW c \in Clients, Cached(c, l) PROVE TokenPlaces(l) # {}
    <3>1. <<"cached", c>> \in Place /\ HasToken(<<"cached", c>>, l)
      BY <2>2, Zenon DEF Place, HasToken, Cached
    <3> QED BY <3>1, Zenon DEF TokenPlaces
  <2>3. ASSUME NEW t \in Threads, InFlush(t, l) PROVE TokenPlaces(l) # {}
    <3>1. <<"flush", t>> \in Place /\ HasToken(<<"flush", t>>, l)
      BY <2>3, Zenon DEF Place, HasToken, InFlush
    <3> QED BY <3>1, Zenon DEF TokenPlaces
  <2>4. ASSUME NEW k \in Slots, InCall(k, l) PROVE TokenPlaces(l) # {}
    <3>1. <<"call", k>> \in Place /\ HasToken(<<"call", k>>, l)
      BY <2>4, Zenon DEF Place, HasToken, InCall
    <3> QED BY <3>1, Zenon DEF TokenPlaces
  <2> QED BY <1>1, <2>1, <2>2, <2>3, <2>4, Zenon DEF Somewhere
<1>2. Calm => LockNotLost
  BY <1>1, Zenon DEF Calm, Steady, CalmLock, LockNotLost
<1> QED BY <1>2, CalmHolds, PTL

(* SleeperIsRemembered: as long as no call has timed out, a thread asleep  *)
(* in acquire() belongs to a client that has the lock, is on the server's  *)
(* waiting list or is being told to retry.                                 *)
THEOREM NoSleeperIsForgotten == Spec => []SleeperIsRemembered
<1>1. IInv /\ Calm => SleeperIsRemembered
  <2> SUFFICES ASSUME IInv, Steady, NEW w \in Workers, pc[w] = "waiting"
               PROVE \/ \E p \in TokenPlaces(arg[w]) : OwnerOf(p) = ClientOf[w]
                     \/ InQueue(ClientOf[w], arg[w])
    BY Zenon DEF Calm, SleeperIsRemembered, InQueue, RetryTo
  <2> DEFINE c == ClientOf[w]
             l == arg[w]
  <2>1. c \in Clients /\ l \in Locks /\ CalmState(c, l) /\ Awaits(w, c, l)
    BY Names, ZenonT(40) DEF IInv, ThreadsFit, ThreadFits, Steady, Awaits
  <2>2. CASE InUse(c, l)
    <3>1. PICK v \in Workers : ClientOf[v] = c /\ l \in held[v]
      BY <2>1, <2>2, ZenonT(40) DEF CalmState, HeldHere
    <3>2. <<"held", v>> \in Place /\ HasToken(<<"held", v>>, l)
      BY <3>1, Zenon DEF Place, HasToken
    <3>3. OwnerOf(<<"held", v>>) = c
      BY <3>1, Names, ZenonT(40) DEF OwnerOf
    <3> QED BY <3>2, <3>3, Zenon DEF TokenPlaces
  <2> QED BY <2>1, <2>2, ZenonT(40) DEF CalmState
<1> QED BY <1>1, Invariant, CalmHolds, PTL

(* WaitersHaveAPredecessor: as long as no call has timed out, a lock with  *)
(* waiters that is back at the server is about to be asked for by a client *)
(* that was told to retry.                                                 *)
THEOREM ListIsServed == Spec => []WaitersHaveAPredecessor
<1>1. IInv /\ Calm => WaitersHaveAPredecessor
  <2> SUFFICES ASSUME IInv, Steady, NEW l \in Locks, Asking(l)
               PROVE \/ \E k \in Slots : call[k].lid = l /\ call[k].st = "retry"
                     \/ \E w \in Workers :
                          arg[w] = l /\ pc[w] \in {"woken", "retest", "acquiring"}
    BY Zenon DEF Calm, Steady, CalmLock, WaitersHaveAPredecessor
  <2>1. ASSUME NEW k \in Slots, call[k].st = "acquire", call[k].lid = l
        PROVE \E w \in Workers : arg[w] = l /\ pc[w] = "acquiring"
    BY <2>1, Asker, Zenon DEF AcquireCalls
  <2> QED BY <2>1, Zenon DEF Asking
<1> QED BY <1>1, Invariant, CalmHolds, PTL
=============================================================================
