-------------------------- MODULE LockCacheProofs --------------------------
(***************************************************************************)
(* Proofs about LockCache, for any clients, threads, locks and number of   *)
(* timeouts: types, and the safety properties that follow from there being *)
(* at most one token of each lock.  Then that the tokens move only as      *)
(* LockToken allows, whatever times out.  Last, what has to hold so that   *)
(* as long as every call is answered no lock is lost and no sleeping       *)
(* thread or waiting list is forgotten: the invariant Calm, and that       *)
(* acquire() keeps it.  LockCalmProofs goes on with the other steps.       *)
(***************************************************************************)
EXTENDS LockCache, TLAPS

(* How calls and threads fit together.  An abandoned call no longer has a  *)
(* thread; a thread has one live call, which is about the lock it works on.*)
AcquireCalls == {"acquire", "owner", "revoke", "OK", "RETRY", "RPCERR"}

CallFits(k) ==
  /\ call[k].st = "idle" => ~call[k].live
  /\ call[k].st # "idle" => call[k].lid \in Locks
  /\ call[k].st \in Replies => call[k].live
  /\ call[k].st = "retry" => call[k].peer \in Clients
  /\ call[k].st \in AcquireCalls => Caller(k) \in Workers
  /\ call[k].live => /\ call[k].lid = arg[Caller(k)]
                     /\ pc[Caller(k)] = IF call[k].st \in AcquireCalls
                                        THEN "acquiring" ELSE "releasing"

OneLive ==
  \A k, j \in Slots :
    call[k].live /\ call[j].live /\ Caller(k) = Caller(j) => k = j

CallsFit == OneLive /\ \A k \in Slots : CallFits(k)

ThreadFits(t) ==
  /\ pc[t] # "idle" => arg[t] \in Locks
  /\ t \in Clients => pc[t] \in {"idle", "giveback", "flush", "releasing"}
  /\ t \in Workers => pc[t] # "giveback"

ThreadsFit == \A t \in Threads : ThreadFits(t)

(* The token of l, place by place.                                         *)
Cached(c, l) == lockstate_map[c][l] = "FREE"
InFlush(t, l) == pc[t] = "flush" /\ arg[t] = l
InCall(k, l) == call[k].st \in {"OK", "release"} /\ call[k].lid = l

OneToken(l) ==
  /\ \A w \in Workers : l \in held[w] =>
       /\ where_is_lock[l] = ClientOf[w]
       /\ \A v \in Workers : l \in held[v] => v = w
       /\ \A c \in Clients : ~Cached(c, l)
       /\ \A t \in Threads : ~InFlush(t, l)
       /\ \A k \in Slots : ~InCall(k, l)
  /\ \A c \in Clients : Cached(c, l) =>
       /\ where_is_lock[l] = c
       /\ \A t \in Threads : ~InFlush(t, l)
       /\ \A k \in Slots : ~InCall(k, l)
  /\ \A t \in Threads : InFlush(t, l) =>
       /\ where_is_lock[l] = Home(t)
       /\ \A u \in Threads : InFlush(u, l) => u = t
       /\ \A k \in Slots : ~InCall(k, l)
  /\ \A k \in Slots : InCall(k, l) =>
       /\ where_is_lock[l] = Source(k)
       /\ \A j \in Slots : InCall(j, l) => j = k

Tokens == ~overtaken => \A l \in Locks : OneToken(l)

(* The inductive invariant.                                                *)
IInv == TypeOK /\ CallsFit /\ ThreadsFit /\ Tokens
-----------------------------------------------------------------------------
(* The prover of a step that names none.                                   *)
USE ZenonT(40)

(* Where calls and threads belong.                                         *)
LEMMA Names ==
  /\ \A k \in Slots : /\ Caller(k) \in Threads
                      /\ Source(k) \in Clients
                      /\ Source(k) = Home(Caller(k))
  /\ \A t \in Threads : Home(t) \in Clients /\ (t \in Workers \/ t \in Clients)
  /\ \A w \in Workers : /\ w \in Threads
                        /\ w \notin Clients
                        /\ ClientOf[w] \in Clients
                        /\ Home(w) = ClientOf[w]
  /\ \A c \in Clients : c \in Threads /\ Home(c) = c /\ c \notin Workers
  /\ None \notin Clients /\ None \notin Locks /\ MaxTimeouts \in Nat
BY LockCallsAssumption DEF Slots, Caller, Source, Home, Threads

(* Send() uses an idle slot of the thread.                                 *)
LEMMA SendSlot ==
  ASSUME NEW t \in Threads, NEW st, NEW l, Send(t, st, l)
  PROVE \E k \in Slots :
          /\ Caller(k) = t
          /\ call[k].st = "idle"
          /\ call' = [call EXCEPT ![k] =
                        [st |-> st, lid |-> l, peer |-> None, live |-> TRUE]]
BY  DEF Send, Slots, Caller

(* One call changes.                                                       *)
LEMMA CallUpdate ==
  ASSUME CallsTypeOK, NEW k \in Slots, NEW r \in Call,
         call' = [call EXCEPT ![k] = r]
  PROVE /\ call' \in [Slots -> Call]
        /\ call'[k] = r
        /\ \A j \in Slots : j # k => call'[j] = call[j]
BY DEF CallsTypeOK

(* The fields of a call, and of an idle slot.                              *)
LEMMA CallFields ==
  /\ \A r \in Call : /\ r.st \in CallStates
                     /\ r.lid \in Locks \cup {None}
                     /\ r.peer \in Clients \cup {None}
                     /\ r.live \in BOOLEAN
  /\ Idle \in Call
  /\ Idle.st = "idle" /\ Idle.lid = None /\ Idle.peer = None /\ Idle.live = FALSE
BY DEF Call, CallStates, Idle

(* A call that does not change, of a thread that does not move, still fits.*)
LEMMA CallStays ==
  ASSUME NEW j \in Slots, CallFits(j), call'[j] = call[j],
         call[j].live => /\ pc'[Caller(j)] = pc[Caller(j)]
                         /\ arg'[Caller(j)] = arg[Caller(j)]
  PROVE CallFits(j)'
BY SMT DEF CallFits

(* A call goes on or ends: its new value r is Idle, or has the same lock   *)
(* and the same kind.  The threads that wait for a call stay where they    *)
(* are, except the one that stops waiting for this call.                   *)
InACall(t) == pc[t] \in {"acquiring", "releasing"}
Still(t) == pc'[t] = pc[t] /\ arg'[t] = arg[t]

GoesOn(k, r) ==
  /\ call[k].st # "idle" /\ r.st # "idle"
  /\ r.lid = call[k].lid
  /\ r.live => call[k].live
  /\ r.st \in Replies => r.live
  /\ r.st = "retry" => r.peer \in Clients
  /\ r.st \in AcquireCalls <=> call[k].st \in AcquireCalls

(* A call that ends or goes on leaves the other calls and fits its thread. *)
LEMMA CallMoves ==
  ASSUME CallsTypeOK, CallsFit, NEW k \in Slots, NEW r \in Call,
         call' = [call EXCEPT ![k] = r],
         r = Idle \/ GoesOn(k, r),
         \A t \in Threads : InACall(t) =>
            Still(t) \/ (t = Caller(k) /\ call[k].live /\ ~r.live)
  PROVE /\ call' \in [Slots -> Call]
        /\ call'[k] = r
        /\ \A j \in Slots : j # k => call'[j] = call[j]
        /\ CallsFit'
<1>1. /\ call' \in [Slots -> Call]
      /\ call'[k] = r
      /\ \A j \in Slots : j # k => call'[j] = call[j]
  BY CallUpdate
<1>2. OneLive /\ \A j \in Slots : CallFits(j)
  BY DEF CallsFit
<1>3. r.live => call[k].live
  BY CallFields DEF GoesOn
<1>4. OneLive'
  BY <1>1, <1>2, <1>3 DEF OneLive
<1>5. CallFits(k)'
  <2>1. CASE r = Idle
    BY <1>1, <2>1, CallFields DEF CallFits, Replies, AcquireCalls
  <2>2. CASE GoesOn(k, r)
    <3>1. r.live => Still(Caller(k))
      BY <1>2, <1>3, Names DEF CallFits, InACall
    <3> QED BY <1>1, <1>2, <1>3, <2>2, <3>1, SMT DEF CallFits, GoesOn, Still
  <2> QED BY <2>1, <2>2
<1>6. ASSUME NEW j \in Slots, j # k PROVE CallFits(j)'
  <2>1. CallFits(j) /\ call'[j] = call[j]
    BY <1>1, <1>2, <1>6
  <2>2. call[j].live => InACall(Caller(j)) /\ Caller(j) \in Threads
    BY <2>1, Names DEF CallFits, InACall
  <2>3. call[j].live => Still(Caller(j))
    BY <1>2, <1>6, <2>2 DEF OneLive
  <2> QED BY <2>1, <2>3, CallStays DEF Still
<1> QED BY <1>1, <1>4, <1>5, <1>6 DEF CallsFit

(* The same for the handler's return.                                      *)
LEMMA ReplyMoves ==
  ASSUME CallsTypeOK, CallsFit, NEW k \in Slots, NEW st \in Replies,
         call[k].st # "idle", st # "DONE" <=> call[k].st \in AcquireCalls,
         Reply(k, st), \A t \in Threads : InACall(t) => Still(t)
  PROVE /\ call' \in [Slots -> Call]
        /\ CallsFit'
        /\ \A j \in Slots, m \in Locks :
             InCall(j, m)' => InCall(j, m) \/ (st = "OK" /\ j = k /\ m = call[k].lid)
<1> DEFINE r == IF call[k].live THEN Changed(k, st, None, TRUE) ELSE Idle
<1>1. call' = [call EXCEPT ![k] = r]
  BY DEF Reply
<1>2. st \in CallStates /\ None \in Clients \cup {None} /\ TRUE \in BOOLEAN
  BY DEF CallStates
<1>3. r \in Call /\ (r = Idle \/ (GoesOn(k, r) /\ r.st = st))
  <2>1. CASE call[k].live
    <3> DEFINE s == Changed(k, st, None, TRUE)
    <3>1. /\ s \in Call /\ s.st = st /\ s.lid = call[k].lid
          /\ s.peer = None /\ s.live = TRUE
      BY <1>2, CallFields DEF Changed, Call, CallsTypeOK
    <3> HIDE DEF s
    <3>2. GoesOn(k, s)
      BY <2>1, <3>1 DEF GoesOn, Replies, AcquireCalls
    <3> QED BY <2>1, <3>1, <3>2 DEF s
  <2>2. CASE ~call[k].live
    BY <2>2, CallFields
  <2> QED BY <2>1, <2>2
<1> HIDE DEF r
<1>4. /\ call' \in [Slots -> Call] /\ CallsFit' /\ call'[k] = r
      /\ \A j \in Slots : j # k => call'[j] = call[j]
  BY <1>1, <1>3, CallMoves
<1>5. ASSUME NEW j \in Slots, NEW m \in Locks, InCall(j, m)'
      PROVE InCall(j, m) \/ (st = "OK" /\ j = k /\ m = call[k].lid)
  BY <1>3, <1>4, <1>5, CallFields DEF InCall, GoesOn, Replies
<1> QED BY <1>4, <1>5

(* The same for the caller that gets its reply, or gives up.               *)
LEMMA ConsumeMoves ==
  ASSUME CallsTypeOK, CallsFit, NEW k \in Slots, call[k].live, Consume(k),
         \A t \in Threads : InACall(t) /\ t # Caller(k) => Still(t)
  PROVE /\ call' \in [Slots -> Call]
        /\ CallsFit'
        /\ \A j \in Slots, m \in Locks : InCall(j, m)' => InCall(j, m) /\ j # k
<1>1. /\ call' \in [Slots -> Call] /\ CallsFit' /\ call'[k] = Idle
      /\ \A j \in Slots : j # k => call'[j] = call[j]
  BY CallMoves, CallFields, ZenonT(40) DEF Consume
<1> QED BY <1>1, CallFields DEF InCall

(* A caller that gives up: the call stays, without its caller.             *)
LEMMA AbandonMoves ==
  ASSUME CallsTypeOK, CallsFit, NEW k \in Slots, Abandon(k),
         \A t \in Threads : InACall(t) /\ t # Caller(k) => Still(t)
  PROVE /\ call' \in [Slots -> Call]
        /\ CallsFit'
        /\ timeouts' \in 0..MaxTimeouts
        /\ \A j \in Slots, m \in Locks : InCall(j, m)' => InCall(j, m)
<1> DEFINE r == IF call[k].st \in Replies THEN Idle
                ELSE Changed(k, call[k].st, call[k].peer, FALSE)
<1>1. call' = [call EXCEPT ![k] = r] /\ call[k].live
  BY DEF Abandon
<1>2. r \in Call /\ ~r.live /\ (r = Idle \/ (GoesOn(k, r) /\ r.st = call[k].st))
  <2>1. CASE call[k].st \in Replies
    BY <2>1, CallFields
  <2>2. CASE call[k].st \notin Replies
    <3> DEFINE s == Changed(k, call[k].st, call[k].peer, FALSE)
    <3>1. /\ s \in Call /\ s.st = call[k].st /\ s.lid = call[k].lid
          /\ s.peer = call[k].peer /\ s.live = FALSE
      BY CallFields DEF Changed, Call, CallsTypeOK
    <3> HIDE DEF s
    <3>2. GoesOn(k, s)
      BY <1>1, <2>2, <3>1 DEF GoesOn, CallsFit, CallFits
    <3> QED BY <2>2, <3>1, <3>2 DEF s
  <2> QED BY <2>1, <2>2
<1> HIDE DEF r
<1>3. /\ call' \in [Slots -> Call] /\ CallsFit' /\ call'[k] = r
      /\ \A j \in Slots : j # k => call'[j] = call[j]
  BY <1>1, <1>2, CallMoves
<1>4. timeouts' \in 0..MaxTimeouts
  BY Names, SMTT(30) DEF Abandon, CallsTypeOK
<1>5. ASSUME NEW j \in Slots, NEW m \in Locks, InCall(j, m)'
      PROVE InCall(j, m)
  BY <1>2, <1>3, <1>5, CallFields DEF InCall, GoesOn
<1> QED BY <1>3, <1>4, <1>5

(* The same for the handler that calls a client back.                      *)
LEMMA ProceedMoves ==
  ASSUME CallsTypeOK, CallsFit, NEW k \in Slots, NEW c \in Clients \cup {None},
         NEW st \in {"owner", "revoke", "retry"}, Proceed(k, st, c),
         call[k].st # "idle",
         st = "retry" => c \in Clients,
         st # "retry" <=> call[k].st \in AcquireCalls,
         pc' = pc, arg' = arg
  PROVE /\ call' \in [Slots -> Call]
        /\ CallsFit'
        /\ \A j \in Slots, m \in Locks : InCall(j, m)' => InCall(j, m) /\ j # k
<1> DEFINE r == Changed(k, st, c, call[k].live)
<1>1. call' = [call EXCEPT ![k] = r]
  BY DEF Proceed
<1>2. /\ r \in Call /\ r.st = st /\ r.lid = call[k].lid
      /\ r.peer = c /\ r.live = call[k].live
  BY CallFields DEF Changed, Call, CallsTypeOK, CallStates
<1> HIDE DEF r
<1>3. GoesOn(k, r)
  BY <1>2 DEF GoesOn, Replies, AcquireCalls
<1>4. /\ call' \in [Slots -> Call] /\ CallsFit' /\ call'[k] = r
      /\ \A j \in Slots : j # k => call'[j] = call[j]
  BY <1>1, <1>2, <1>3, CallMoves DEF Still
<1> QED BY <1>2, <1>4 DEF InCall

(* A callback that times out is counted among the late ones.               *)
LEMMA AbandonCallbackMoves ==
  ASSUME CallsTypeOK, CallsFit, NEW k \in Slots, AbandonCallback(k)
  PROVE /\ late' \in [Callbacks \X Clients \X Locks -> Nat]
        /\ timeouts' \in 0..MaxTimeouts
<1> DEFINE x == <<call[k].st, call[k].peer, call[k].lid>>
<1>1. late' = late \/ late' = [late EXCEPT ![x] = @ + 1]
  BY DEF AbandonCallback
<1> HIDE DEF x
<1>2. late' \in [Callbacks \X Clients \X Locks -> Nat]
  BY <1>1, SMT DEF CallsTypeOK
<1>3. timeouts' \in 0..MaxTimeouts
  BY Names, SMT DEF AbandonCallback, CallsTypeOK
<1> QED BY <1>2, <1>3

(* A broadcast moves only threads that wait.                               *)
LEMMA WokenMoves ==
  ASSUME ClientTypeOK, NEW c, NEW l
  PROVE /\ Woken(c, l) \in [Threads -> PCs]
        /\ \A t \in Threads : \/ Woken(c, l)[t] = pc[t]
                              \/ pc[t] = "waiting" /\ Woken(c, l)[t] = "woken"
BY DEF ClientTypeOK, Woken, PCs

(* At the end of a release its thread is idle; sleepers may be woken.      *)
LEMMA AfterReleaseMoves ==
  ASSUME ClientTypeOK, NEW t \in Threads, AfterRelease(t)
  PROVE /\ pc' \in [Threads -> PCs] /\ arg' \in [Threads -> Locks \cup {None}]
        /\ pc'[t] = "idle"
        /\ \A u \in Threads :
             u # t => /\ arg'[u] = arg[u]
                      /\ \/ pc'[u] = pc[u]
                         \/ pc[u] = "waiting" /\ pc'[u] = "woken"
<1> DEFINE p == IF t \in Clients THEN Woken(t, arg[t]) ELSE pc
<1>1. /\ p \in [Threads -> PCs]
      /\ \A u \in Threads : \/ p[u] = pc[u]
                            \/ pc[u] = "waiting" /\ p[u] = "woken"
  BY WokenMoves, SMT DEF ClientTypeOK
<1>2. pc' = [p EXCEPT ![t] = "idle"] /\ arg' = [arg EXCEPT ![t] = None]
  BY DEF AfterRelease
<1> HIDE DEF p
<1> QED BY <1>1, <1>2 DEF ClientTypeOK, PCs

(* Setting one entry of lockstate_map leaves the others.                   *)
LEMMA SetLockMoves ==
  ASSUME ClientTypeOK, NEW c \in Clients, NEW l \in Locks, NEW s \in LockStates,
         SetLock(c, l, s)
  PROVE /\ lockstate_map' \in [Clients -> [Locks -> LockStates]]
        /\ \A d \in Clients, m \in Locks :
             lockstate_map'[d][m] = IF d = c /\ m = l THEN s ELSE lockstate_map[d][m]
BY  DEF ClientTypeOK, SetLock

(* A token that gets no new place is still the only one.                   *)
LEMMA TokenStays ==
  ASSUME NEW l \in Locks, OneToken(l), where_is_lock'[l] = where_is_lock[l],
         \A w \in Workers : l \in held'[w] => l \in held[w],
         \A c \in Clients : Cached(c, l)' => Cached(c, l),
         \A t \in Threads : InFlush(t, l)' => InFlush(t, l),
         \A k \in Slots : InCall(k, l)' => InCall(k, l)
  PROVE OneToken(l)'
BY  DEF OneToken
(* A token whose only place is ...                                         *)
LEMMA TokenHeld ==
  ASSUME NEW l \in Locks, NEW w \in Workers, where_is_lock'[l] = ClientOf[w],
         \A v \in Workers : l \in held'[v] => v = w,
         \A c \in Clients : ~Cached(c, l)',
         \A t \in Threads : ~InFlush(t, l)',
         \A k \in Slots : ~InCall(k, l)'
  PROVE OneToken(l)'
BY  DEF OneToken

(* A token that is now cached and nowhere else is the only one.            *)
LEMMA TokenCached ==
  ASSUME NEW l \in Locks, NEW c \in Clients, where_is_lock'[l] = c,
         \A v \in Workers : l \notin held'[v],
         \A d \in Clients : Cached(d, l)' => d = c,
         \A t \in Threads : ~InFlush(t, l)',
         \A k \in Slots : ~InCall(k, l)'
  PROVE OneToken(l)'
BY DEF OneToken

(* The same for a token that is now in a flush, ...                        *)
LEMMA TokenFlush ==
  ASSUME NEW l \in Locks, NEW t \in Threads, where_is_lock'[l] = Home(t),
         \A v \in Workers : l \notin held'[v],
         \A c \in Clients : ~Cached(c, l)',
         \A u \in Threads : InFlush(u, l)' => u = t,
         \A k \in Slots : ~InCall(k, l)'
  PROVE OneToken(l)'
BY DEF OneToken

(* ... in a call ...                                                       *)
LEMMA TokenCall ==
  ASSUME NEW l \in Locks, NEW k \in Slots, where_is_lock'[l] = Source(k),
         \A v \in Workers : l \notin held'[v],
         \A c \in Clients : ~Cached(c, l)',
         \A t \in Threads : ~InFlush(t, l)',
         \A j \in Slots : InCall(j, l)' => j = k
  PROVE OneToken(l)'
BY DEF OneToken

(* ... or nowhere.                                                         *)
LEMMA TokenNowhere ==
  ASSUME NEW l \in Locks,
         \A v \in Workers : l \notin held'[v],
         \A c \in Clients : ~Cached(c, l)',
         \A t \in Threads : ~InFlush(t, l)',
         \A k \in Slots : ~InCall(k, l)'
  PROVE OneToken(l)'
BY DEF OneToken
-----------------------------------------------------------------------------
(* acquire() up to its first sleep, request or return.                     *)
LEMMA AcquireStep ==
  ASSUME IInv, NEW w \in Workers, NEW l \in Locks, Acquire(w, l),
         UNCHANGED serverVars
  PROVE IInv'
<1> DEFINE c == ClientOf[w]
<1>0. /\ CallsTypeOK /\ ClientTypeOK /\ ServerTypeOK /\ OneLive
      /\ \A k \in Slots : CallFits(k)
      /\ \A t \in Threads : ThreadFits(t)
      /\ ~overtaken => \A m \in Locks : OneToken(m)
  BY DEF IInv, TypeOK, CallsFit, ThreadsFit, Tokens
<1>s. ServerTypeOK' /\ where_is_lock' = where_is_lock
  BY <1>0 DEF ServerTypeOK, serverVars
<1>w. w \in Threads /\ c \in Clients /\ pc[w] \in {"idle", "woken", "retest"}
      /\ overtaken' = overtaken
  BY Names DEF Acquire
<1>c. \A j \in Slots : call[j].live => Caller(j) # w
  BY <1>0, <1>w, Names DEF CallFits
<1>1. CASE /\ lockstate_map[c][l] = "FREE"
           /\ SetLock(c, l, "LOCKED")
           /\ SetMutex(c, FALSE)
           /\ held' = [held EXCEPT ![w] = @ \cup {l}]
           /\ GoTo(w, "idle", None)
           /\ UNCHANGED call
  <2>1. CallsTypeOK' /\ call' = call
    BY <1>0, <1>1 DEF CallsTypeOK, Acquire
  <2>2. ClientTypeOK'
    BY <1>0, <1>1, <1>w DEF ClientTypeOK, SetLock, SetMutex, GoTo, LockStates, PCs
  <2>3. OneLive' /\ \A k \in Slots : CallFits(k)'
    <3>1. OneLive'
      BY <1>0, <2>1 DEF OneLive
    <3>2. \A t \in Threads : t # w => pc'[t] = pc[t] /\ arg'[t] = arg[t]
      BY <1>0, <1>1, <1>w DEF GoTo, ClientTypeOK
    <3>3. ASSUME NEW k \in Slots PROVE CallFits(k)'
      BY <1>0, <1>c, <2>1, <3>2, Names, CallStays
    <3> QED BY <3>1, <3>3
  <2>4. \A t \in Threads : ThreadFits(t)'
    BY <1>0, <1>1, <1>w, Names, SMT DEF ThreadFits, GoTo, ClientTypeOK
  <2>5. ASSUME ~overtaken, NEW m \in Locks PROVE OneToken(m)'
    <3>0. OneToken(m)
      BY <1>0, <2>5
    <3>a. \A d \in Clients : Cached(d, m)' => Cached(d, m) /\ ~(d = c /\ m = l)
      <4>1. \A d \in Clients :
              lockstate_map'[d][m] = IF d = c /\ m = l THEN "LOCKED" ELSE lockstate_map[d][m]
        BY <1>0, <1>1, <1>w, SetLockMoves, SMT DEF LockStates
      <4> QED BY <4>1 DEF Cached
    <3>b. \A t \in Threads : InFlush(t, m)' => InFlush(t, m)
      BY <1>0, <1>1, <1>w DEF InFlush, GoTo, ClientTypeOK
    <3>c. \A k \in Slots : InCall(k, m)' <=> InCall(k, m)
      BY <2>1 DEF InCall
    <3>1. CASE m = l
      <4>1. /\ where_is_lock[m] = c
            /\ \A v \in Workers : m \notin held[v]
            /\ \A d \in Clients : Cached(d, m) => d = c
            /\ \A t \in Threads : ~InFlush(t, m)
            /\ \A k \in Slots : ~InCall(k, m)
        <5>1. Cached(c, m)
          BY <1>1, <3>1 DEF Cached
        <5> QED BY <1>w, <3>0, <5>1 DEF OneToken
      <4>2. \A v \in Workers : m \in held'[v] => v = w
        BY <1>0, <1>1, <4>1 DEF ClientTypeOK
      <4>3. /\ \A d \in Clients : ~Cached(d, m)'
            /\ \A t \in Threads : ~InFlush(t, m)'
            /\ \A k \in Slots : ~InCall(k, m)'
        BY <3>1, <3>a, <3>b, <3>c, <4>1
      <4> QED BY <1>s, <4>1, <4>2, <4>3 DEF OneToken
    <3>2. CASE m # l
      <4>1. \A v \in Workers : m \in held'[v] => m \in held[v]
        BY <1>0, <1>1, <3>2 DEF ClientTypeOK
      <4> QED BY <1>s, <3>0, <3>a, <3>b, <3>c, <4>1, TokenStays
    <3> QED BY <3>1, <3>2
  <2> QED BY <1>s, <1>w, <2>1, <2>2, <2>3, <2>4, <2>5
          DEF IInv, TypeOK, CallsFit, ThreadsFit, Tokens
<1>2. CASE /\ lockstate_map[c][l] \in {"LOCKED", "ACQUIRING", "RELEASING"}
           /\ SetMutex(c, FALSE)
           /\ GoTo(w, "waiting", l)
           /\ UNCHANGED <<lockstate_map, held, call>>
  <2>1. CallsTypeOK' /\ call' = call
    BY <1>0, <1>2 DEF CallsTypeOK, Acquire
  <2>2. ClientTypeOK'
    BY <1>0, <1>2, <1>w DEF ClientTypeOK, SetMutex, GoTo, PCs
  <2>3. OneLive' /\ \A k \in Slots : CallFits(k)'
    <3>1. OneLive'
      BY <1>0, <2>1 DEF OneLive
    <3>2. \A t \in Threads : t # w => pc'[t] = pc[t] /\ arg'[t] = arg[t]
      BY <1>0, <1>2, <1>w, ZenonT(40) DEF GoTo, ClientTypeOK
    <3>3. ASSUME NEW k \in Slots PROVE CallFits(k)'
      BY <1>0, <1>c, <2>1, <3>2, Names, CallStays
    <3> QED BY <3>1, <3>3
  <2>4. \A t \in Threads : ThreadFits(t)'
    BY <1>0, <1>2, <1>w, Names, Z3 DEF ThreadFits, GoTo, ClientTypeOK
  <2>5. ASSUME ~overtaken, NEW m \in Locks PROVE OneToken(m)'
    BY <1>0, <1>2, <1>s, <1>w, <2>1, <2>5, Names, TokenStays
       DEF Cached, InFlush, InCall, GoTo, ClientTypeOK
  <2> QED BY <1>s, <1>w, <2>1, <2>2, <2>3, <2>4, <2>5
          DEF IInv, TypeOK, CallsFit, ThreadsFit, Tokens
<1>3. CASE /\ lockstate_map[c][l] \in {"ABSENT", "NONE"}
           /\ SetLock(c, l, "NONE")
           /\ SetMutex(c, TRUE)
           /\ GoTo(w, "acquiring", l)
           /\ Send(w, "acquire", l)
           /\ UNCHANGED held
  <2> DEFINE r == [st |-> "acquire", lid |-> l, peer |-> None, live |-> TRUE]
  <2>1. PICK k \in Slots : /\ Caller(k) = w
                           /\ call[k].st = "idle"
                           /\ call' = [call EXCEPT ![k] = r]
    BY <1>3, <1>w, SendSlot, ZenonT(40)
  <2>a. r \in Call /\ r.st = "acquire" /\ r.lid = l /\ r.live = TRUE
    BY DEF Call, CallStates
  <2> HIDE DEF r
  <2>b. /\ call' \in [Slots -> Call]
        /\ call'[k] = r
        /\ \A j \in Slots : j # k => call'[j] = call[j]
    BY <1>0, <2>1, <2>a, CallUpdate
  <2>2. CallsTypeOK' /\ ClientTypeOK'
    BY <1>0, <1>3, <1>w, <2>b
       DEF CallsTypeOK, ClientTypeOK, Acquire, SetLock, SetMutex, GoTo, LockStates, PCs
  <2>3. OneLive' /\ \A j \in Slots : CallFits(j)'
    <3>1. OneLive'
      BY <1>0, <2>1, <2>a, <2>b, <1>c, SMTT(20) DEF OneLive
    <3>2. CallFits(k)'
      BY <1>0, <1>3, <1>w, <2>1, <2>a, <2>b, ZenonT(40)
         DEF CallFits, AcquireCalls, Replies, GoTo, ClientTypeOK
    <3>3. ASSUME NEW j \in Slots, j # k PROVE CallFits(j)'
      BY <1>0, <1>3, <1>w, <2>b, <1>c, <3>3, Names, CallStays, ZenonT(40) DEF GoTo, ClientTypeOK
    <3> QED BY <3>1, <3>2, <3>3
  <2>4. \A t \in Threads : ThreadFits(t)'
    BY <1>0, <1>3, <1>w, Names, SMTT(20) DEF ThreadFits, GoTo, ClientTypeOK
  <2>5. ASSUME ~overtaken, NEW m \in Locks PROVE OneToken(m)'
    <3>1. \A d \in Clients : Cached(d, m)' => Cached(d, m)
      BY <1>0, <1>3, <1>w DEF Cached, SetLock, ClientTypeOK
    <3>2. \A t \in Threads : InFlush(t, m)' => InFlush(t, m)
      BY <1>0, <1>3, <1>w DEF InFlush, GoTo, ClientTypeOK
    <3>3. \A j \in Slots : InCall(j, m)' => InCall(j, m)
      BY <2>a, <2>b DEF InCall
    <3> QED BY <1>0, <1>3, <1>s, <2>5, <3>1, <3>2, <3>3, TokenStays
  <2> QED BY <1>s, <1>w, <2>2, <2>3, <2>4, <2>5
          DEF IInv, TypeOK, CallsFit, ThreadsFit, Tokens
<1> QED BY <1>1, <1>2, <1>3 DEF Acquire

(* The reply to acquire(): OK, RETRY or an error.                          *)
LEMMA AcquireReplyStep ==
  ASSUME IInv, NEW k \in Slots, AcquireReply(k), UNCHANGED serverVars
  PROVE IInv'
<1> DEFINE w == Caller(k)
           c == ClientOf[w]
           l == arg[w]
<1>0. CallsTypeOK /\ ClientTypeOK /\ ServerTypeOK /\ CallsFit /\ ThreadsFit
  BY  DEF IInv, TypeOK
<1>1. /\ call[k].st \in {"OK", "RETRY", "RPCERR"} /\ call[k].live
      /\ w \in Workers /\ w \in Threads /\ c \in Clients
      /\ pc[w] = "acquiring" /\ l \in Locks /\ call[k].lid = l
  BY <1>0, Names DEF AcquireReply, CallsFit, CallFits, Replies, AcquireCalls
<1>2. /\ late' = late /\ timeouts' = timeouts /\ overtaken' = overtaken
      /\ Consume(k)
  BY DEF AcquireReply
<1>a. /\ \/ lockstate_map' = lockstate_map
         \/ \E s \in {"LOCKED", "ACQUIRING"} : SetLock(c, l, s)
      /\ lockmap_mutex' = lockmap_mutex \/ SetMutex(c, FALSE)
      /\ \/ held' = held
         \/ call[k].st = "OK" /\ held' = [held EXCEPT ![w] = @ \cup {l}]
      /\ \/ GoTo(w, "idle", None)
         \/ \E p \in {"waiting", "retest"} : GoTo(w, p, l)
  BY  DEF AcquireReply
<1> HIDE DEF w, c, l
<1>b. /\ \A t \in Threads : t # w => Still(t)
      /\ pc' \in [Threads -> PCs] /\ arg' \in [Threads -> Locks \cup {None}]
      /\ pc'[w] # "flush" /\ pc'[w] # "giveback"
      /\ pc'[w] # "idle" => arg'[w] = l
  BY <1>0, <1>1, <1>a, SMT DEF ClientTypeOK, GoTo, PCs, Still
<1>c. lockstate_map' \in [Clients -> [Locks -> LockStates]]
  BY <1>0, <1>1, <1>a, SMT DEF ClientTypeOK, SetLock, LockStates
<1>3. ClientTypeOK'
  <2>1. held' \in [Workers -> SUBSET Locks]
    BY <1>0, <1>1, <1>a, SMT DEF ClientTypeOK
  <2>2. lockmap_mutex' \in [Clients -> BOOLEAN]
    BY <1>0, <1>1, <1>a DEF ClientTypeOK, SetMutex
  <2> QED BY <1>0, <1>2, <1>b, <1>c, <2>1, <2>2 DEF ClientTypeOK
<1>4. /\ call' \in [Slots -> Call] /\ CallsFit'
      /\ \A j \in Slots, m \in Locks : InCall(j, m)' => InCall(j, m) /\ j # k
  BY <1>0, <1>1, <1>2, <1>b, ConsumeMoves DEF w
<1>5. ServerTypeOK' /\ where_is_lock' = where_is_lock /\ CallsTypeOK'
  BY <1>0, <1>2, <1>4 DEF ServerTypeOK, serverVars, CallsTypeOK
<1>6. ThreadsFit'
  BY <1>0, <1>1, <1>b, Names, ZenonT(40) DEF ThreadsFit, ThreadFits, Still
<1>7. ASSUME ~overtaken, NEW m \in Locks PROVE OneToken(m)'
  <2>0. OneToken(m)
    BY <1>7 DEF IInv, Tokens
  <2>1. \A t \in Threads : InFlush(t, m)' => InFlush(t, m)
    BY <1>b DEF InFlush, Still
  <2>2. \A d \in Clients : Cached(d, m)' => Cached(d, m)
    BY <1>0, <1>1, <1>a, SMTT(20) DEF Cached, SetLock, ClientTypeOK
  <2>3. CASE \A v \in Workers : m \in held'[v] => m \in held[v]
    BY <1>4, <1>5, <2>0, <2>1, <2>2, <2>3, TokenStays
  <2>4. CASE m = l /\ call[k].st = "OK" /\ held' = [held EXCEPT ![w] = @ \cup {l}]
    <3>1. InCall(k, m)
      BY <1>1, <2>4 DEF InCall
    <3>2. /\ where_is_lock[m] = ClientOf[w]
          /\ \A v \in Workers : m \in held'[v] => v = w
          /\ \A d \in Clients : ~Cached(d, m)
          /\ \A t \in Threads : ~InFlush(t, m)
          /\ \A j \in Slots : InCall(j, m) => j = k
      <4>1. /\ where_is_lock[m] = Source(k)
            /\ \A j \in Slots : InCall(j, m) => j = k
            /\ \A v \in Workers : m \notin held[v]
            /\ \A d \in Clients : ~Cached(d, m)
            /\ \A t \in Threads : ~InFlush(t, m)
        BY <2>0, <3>1 DEF OneToken
      <4>2. Source(k) = ClientOf[w]
        BY <1>1, Names DEF w
      <4>3. \A v \in Workers : v # w => held'[v] = held[v]
        BY <1>0, <2>4 DEF ClientTypeOK
      <4> QED BY <4>1, <4>2, <4>3
    <3> QED BY <1>1, <1>4, <1>5, <2>1, <2>2, <3>2, TokenHeld
  <2> QED BY <1>0, <1>1, <1>a, <2>3, <2>4, SMT DEF ClientTypeOK
<1> QED BY <1>2, <1>3, <1>4, <1>5, <1>6, <1>7 DEF IInv, TypeOK, Tokens

(* acquire() gives up on its request.                                      *)
LEMMA AcquireTimesOutStep ==
  ASSUME IInv, NEW k \in Slots, AcquireTimesOut(k), UNCHANGED serverVars
  PROVE IInv'
<1>0. CallsTypeOK /\ ClientTypeOK /\ ServerTypeOK /\ CallsFit /\ ThreadsFit
  BY  DEF IInv, TypeOK
<1>1. /\ Caller(k) \in Threads /\ arg[Caller(k)] \in Locks
      /\ Caller(k) \in Workers
  BY <1>0, Names DEF AcquireTimesOut, ThreadsFit, ThreadFits
<1>2. /\ ClientTypeOK' /\ overtaken' = overtaken
      /\ \A t \in Threads : t # Caller(k) => Still(t)
      /\ pc'[Caller(k)] = "retest" /\ arg' = arg
  BY <1>0, <1>1 DEF AcquireTimesOut, ClientTypeOK, PCs, Still
<1>3. /\ CallsTypeOK' /\ CallsFit'
      /\ \A j \in Slots, m \in Locks : InCall(j, m)' => InCall(j, m)
  BY <1>0, <1>2, AbandonMoves DEF AcquireTimesOut, CallsTypeOK
<1>4. ServerTypeOK' /\ where_is_lock' = where_is_lock
  BY <1>0 DEF ServerTypeOK, serverVars
<1>5. ThreadsFit'
  BY <1>0, <1>1, <1>2, Names, Z3 DEF ThreadsFit, ThreadFits, Still
<1>6. ASSUME ~overtaken, NEW m \in Locks PROVE OneToken(m)'
  <2>1. \A t \in Threads : InFlush(t, m)' => InFlush(t, m)
    BY <1>2 DEF InFlush, Still
  <2> QED BY <1>3, <1>4, <1>6, <2>1, TokenStays
          DEF IInv, Tokens, AcquireTimesOut, Cached
<1> QED BY <1>2, <1>3, <1>4, <1>5, <1>6 DEF IInv, TypeOK, Tokens

(* release() to the cache, or to the flush if the lock was revoked.        *)
LEMMA ReleaseStep ==
  ASSUME IInv, NEW w \in Workers, NEW l \in Locks, Release(w, l),
         UNCHANGED serverVars
  PROVE IInv'
<1> DEFINE c == ClientOf[w]
<1>0. CallsTypeOK /\ ClientTypeOK /\ ServerTypeOK /\ CallsFit /\ ThreadsFit
  BY DEF IInv, TypeOK
<1>1. w \in Threads /\ c \in Clients /\ w \notin Clients /\ Home(w) = c
  BY Names
<1>2. /\ pc[w] = "idle" /\ l \in held[w]
      /\ held' = [held EXCEPT ![w] = @ \ {l}]
      /\ lockmap_mutex' = lockmap_mutex /\ overtaken' = overtaken
      /\ call' = call /\ late' = late /\ timeouts' = timeouts
      /\ \/ /\ SetLock(c, l, "NONE")
            /\ pc' = [Woken(c, l) EXCEPT ![w] = "flush"]
            /\ arg' = [arg EXCEPT ![w] = l]
         \/ /\ SetLock(c, l, "FREE")
            /\ pc' = Woken(c, l)
            /\ arg' = arg
  BY  DEF Release, callVars
<1> HIDE DEF c
<1>3. /\ pc' \in [Threads -> PCs] /\ arg' \in [Threads -> Locks \cup {None}]
      /\ \A t \in Threads : t # w => /\ arg'[t] = arg[t]
                                     /\ \/ pc'[t] = pc[t]
                                        \/ pc[t] = "waiting" /\ pc'[t] = "woken"
      /\ \/ pc'[w] = "flush" /\ arg'[w] = l /\ SetLock(c, l, "NONE")
         \/ pc'[w] = "idle" /\ SetLock(c, l, "FREE")
  <2> DEFINE q == Woken(c, l)
  <2>1. /\ q \in [Threads -> PCs]
        /\ \A t \in Threads : \/ q[t] = pc[t]
                              \/ pc[t] = "waiting" /\ q[t] = "woken"
    BY <1>0, WokenMoves
  <2>2. \/ SetLock(c, l, "NONE") /\ pc' = [q EXCEPT ![w] = "flush"]
                               /\ arg' = [arg EXCEPT ![w] = l]
        \/ SetLock(c, l, "FREE") /\ pc' = q /\ arg' = arg
    BY <1>2
  <2> HIDE DEF q
  <2> QED BY <1>0, <1>1, <1>2, <2>1, <2>2, Z3 DEF ClientTypeOK, PCs
<1>4. ClientTypeOK'
  <2>1. lockstate_map' \in [Clients -> [Locks -> LockStates]]
    BY <1>0, <1>1, <1>2, SetLockMoves DEF LockStates
  <2>2. held' \in [Workers -> SUBSET Locks]
    BY <1>0, <1>2 DEF ClientTypeOK
  <2> QED BY <1>0, <1>2, <1>3, <2>1, <2>2 DEF ClientTypeOK
<1>5. CallsTypeOK' /\ ServerTypeOK' /\ where_is_lock' = where_is_lock
  BY <1>0, <1>2 DEF CallsTypeOK, ServerTypeOK, serverVars
<1>6. CallsFit'
  <2>1. ASSUME NEW j \in Slots, call[j].live
        PROVE /\ pc'[Caller(j)] = pc[Caller(j)]
              /\ arg'[Caller(j)] = arg[Caller(j)]
    <3>1. Caller(j) \in Threads /\ InACall(Caller(j))
      BY <1>0, <2>1, Names DEF CallsFit, CallFits, InACall
    <3> QED BY <1>2, <1>3, <3>1 DEF InACall
  <2>2. \A j \in Slots : CallFits(j)'
    BY <1>0, <1>2, <2>1, CallStays DEF CallsFit
  <2> QED BY <1>0, <1>2, <2>2 DEF CallsFit, OneLive
<1>7. ThreadsFit'
  BY <1>0, <1>1, <1>3, Names, SMT DEF ThreadsFit, ThreadFits
<1>8. ASSUME ~overtaken, NEW m \in Locks PROVE OneToken(m)'
  <2>0. OneToken(m)
    BY <1>8 DEF IInv, Tokens
  <2>1. \A k \in Slots : InCall(k, m)' => InCall(k, m)
    BY <1>2, Z3 DEF InCall
  <2>2. CASE m # l
    <3>1. \A t \in Threads : InFlush(t, m)' => InFlush(t, m)
      BY <1>3, <2>2 DEF InFlush
    <3>2. \A d \in Clients : Cached(d, m)' => Cached(d, m)
      BY <1>0, <1>1, <1>2, <2>2, SMT DEF Cached, SetLock, ClientTypeOK
    <3>3. \A v \in Workers : m \in held'[v] => m \in held[v]
      BY <1>0, <1>2 DEF ClientTypeOK
    <3> QED BY <1>5, <2>0, <2>1, <3>1, <3>2, <3>3, TokenStays
  <2>3. CASE m = l
    <3>1. /\ where_is_lock[m] = c
          /\ \A v \in Workers : m \notin held'[v]
          /\ \A d \in Clients : ~Cached(d, m)
          /\ \A t \in Threads : ~InFlush(t, m)
          /\ \A k \in Slots : ~InCall(k, m)'
      <4>1. /\ where_is_lock[m] = c
            /\ \A v \in Workers : m \in held[v] => v = w
            /\ \A d \in Clients : ~Cached(d, m)
            /\ \A t \in Threads : ~InFlush(t, m)
            /\ \A k \in Slots : ~InCall(k, m)
        BY <1>2, <2>0, <2>3 DEF OneToken, c
      <4>2. \A v \in Workers : m \in held'[v] => m \in held[v] /\ v # w
        BY <1>0, <1>2, <2>3 DEF ClientTypeOK
      <4> QED BY <2>1, <4>1, <4>2
    <3>2. \A t \in Threads : InFlush(t, m)' => t = w /\ pc'[w] = "flush"
      BY <1>3, <3>1 DEF InFlush
    <3>3. CASE pc'[w] = "flush"
      <4>1. \A d \in Clients : ~Cached(d, m)'
        BY <1>0, <1>1, <1>3, <2>3, <3>1, <3>3, SMTT(20) DEF Cached, SetLock, ClientTypeOK
      <4> QED BY <1>1, <1>5, <3>1, <3>2, <4>1, TokenFlush
    <3>4. CASE pc'[w] = "idle"
      <4>1. \A d \in Clients : Cached(d, m)' => d = c
        BY <1>0, <1>1, <1>3, <2>3, <3>1, <3>4 DEF Cached, SetLock, ClientTypeOK
      <4> QED BY <1>1, <1>5, <3>1, <3>2, <3>4, <4>1, TokenCached
    <3> QED BY <1>3, <3>3, <3>4
  <2> QED BY <2>2, <2>3
<1> QED BY <1>2, <1>4, <1>5, <1>6, <1>7, <1>8 DEF IInv, TypeOK, Tokens

(* After the flush the lock is sent back.                                  *)
LEMMA SendReleaseStep ==
  ASSUME IInv, NEW t \in Threads, SendRelease(t), UNCHANGED serverVars
  PROVE IInv'
<1> DEFINE l == arg[t]
           r == [st |-> "release", lid |-> l, peer |-> None, live |-> TRUE]
<1>0. CallsTypeOK /\ ClientTypeOK /\ ServerTypeOK /\ CallsFit /\ ThreadsFit
  BY DEF IInv, TypeOK
<1>1. /\ l \in Locks /\ pc[t] = "flush" /\ pc' = [pc EXCEPT ![t] = "releasing"]
      /\ Send(t, "release", l)
      /\ UNCHANGED <<lockstate_map, lockmap_mutex, arg, held, overtaken, late,
                     timeouts>>
  BY <1>0 DEF SendRelease, ThreadsFit, ThreadFits
<1>2. PICK k \in Slots : /\ Caller(k) = t
                         /\ call[k].st = "idle"
                         /\ call' = [call EXCEPT ![k] = r]
  BY <1>1, SendSlot, ZenonT(40)
<1>3. r \in Call /\ r.st = "release" /\ r.lid = l /\ r.live = TRUE
  BY <1>1 DEF Call, CallStates
<1> HIDE DEF r, l
<1>4. /\ call' \in [Slots -> Call]
      /\ call'[k] = r
      /\ \A j \in Slots : j # k => call'[j] = call[j]
  BY <1>0, <1>2, <1>3, CallUpdate
<1>5. \A j \in Slots : call[j].live => Caller(j) # t
  BY <1>0, <1>1 DEF CallsFit, CallFits
<1>6. CallsTypeOK' /\ ClientTypeOK' /\ ServerTypeOK' /\ where_is_lock' = where_is_lock
  BY <1>0, <1>1, <1>4
     DEF CallsTypeOK, ClientTypeOK, ServerTypeOK, serverVars, PCs
<1>7. CallsFit'
  <2>1. OneLive'
    BY <1>0, <1>2, <1>3, <1>4, <1>5, ZenonT(40) DEF CallsFit, OneLive
  <2>2. CallFits(k)'
    BY <1>0, <1>1, <1>2, <1>3, <1>4, SMTT(20)
       DEF CallFits, AcquireCalls, Replies, ClientTypeOK, l
  <2>3. ASSUME NEW j \in Slots, j # k PROVE CallFits(j)'
    BY <1>0, <1>1, <1>4, <1>5, <2>3, Names, CallStays, ZenonT(40) DEF CallsFit, ClientTypeOK
  <2> QED BY <2>1, <2>2, <2>3 DEF CallsFit
<1>8. ThreadsFit'
  BY <1>0, <1>1 DEF ThreadsFit, ThreadFits, ClientTypeOK
<1>9. ASSUME ~overtaken, NEW m \in Locks PROVE OneToken(m)'
  <2>0. OneToken(m) /\ UNCHANGED <<held, lockstate_map, where_is_lock>>
    BY <1>1, <1>6, <1>9 DEF IInv, Tokens
  <2>1. \A u \in Threads : InFlush(u, m)' => InFlush(u, m) /\ u # t
    BY <1>0, <1>1 DEF InFlush, ClientTypeOK
  <2>2. CASE m # l
    <3>1. \A j \in Slots : InCall(j, m)' => InCall(j, m)
      BY <1>3, <1>4, <2>2, ZenonT(40) DEF InCall
    <3> QED BY <2>0, <2>1, <3>1, TokenStays DEF Cached
  <2>3. CASE m = l
    <3>1. InFlush(t, m)
      BY <1>1, <2>3 DEF InFlush, l
    <3>2. /\ where_is_lock[m] = Home(t) /\ Home(t) = Source(k)
          /\ \A v \in Workers : m \notin held[v]
          /\ \A d \in Clients : ~Cached(d, m)
          /\ \A u \in Threads : InFlush(u, m) => u = t
          /\ \A j \in Slots : ~InCall(j, m)
      BY <1>2, <2>0, <3>1, Names, ZenonT(40) DEF OneToken
    <3>3. \A j \in Slots : InCall(j, m)' => j = k
      BY <1>4, <3>2, Z3T(30) DEF InCall
    <3>4. \A u \in Threads : ~InFlush(u, m)'
      BY <2>1, <3>2
    <3> QED BY <2>0, <3>2, <3>3, <3>4, TokenCall DEF Cached
  <2> QED BY <2>2, <2>3
<1> QED BY <1>1, <1>6, <1>7, <1>8, <1>9 DEF IInv, TypeOK, Tokens

(* The reply to a release ends it, ...                                     *)
LEMMA ReleaseReplyStep ==
  ASSUME IInv, NEW k \in Slots, ReleaseReply(k), UNCHANGED serverVars
  PROVE IInv'
<1> DEFINE t == Caller(k)
<1>0. CallsTypeOK /\ ClientTypeOK /\ ServerTypeOK /\ CallsFit /\ ThreadsFit
  BY DEF IInv, TypeOK
<1>1. t \in Threads /\ call[k].live /\ Consume(k) /\ AfterRelease(t)
      /\ UNCHANGED <<lockstate_map, lockmap_mutex, held, overtaken, late, timeouts>>
  BY <1>0, Names DEF ReleaseReply, CallsFit, CallFits, Replies
<1>2. /\ pc' \in [Threads -> PCs] /\ arg' \in [Threads -> Locks \cup {None}]
      /\ pc'[t] = "idle"
      /\ \A u \in Threads :
             u # t => /\ arg'[u] = arg[u]
                      /\ \/ pc'[u] = pc[u]
                         \/ pc[u] = "waiting" /\ pc'[u] = "woken"
  BY <1>0, <1>1, AfterReleaseMoves
<1>3. \A u \in Threads : InACall(u) /\ u # t => Still(u)
  BY <1>2 DEF InACall, Still
<1>4. /\ call' \in [Slots -> Call] /\ CallsFit'
      /\ \A j \in Slots, m \in Locks : InCall(j, m)' => InCall(j, m)
  BY <1>0, <1>1, <1>3, ConsumeMoves
<1>5. /\ CallsTypeOK' /\ ClientTypeOK' /\ ServerTypeOK'
      /\ where_is_lock' = where_is_lock
  BY <1>0, <1>1, <1>2, <1>4 DEF CallsTypeOK, ClientTypeOK, ServerTypeOK, serverVars
<1>6. ThreadsFit'
  BY <1>0, <1>2 DEF ThreadsFit, ThreadFits
<1>7. ASSUME ~overtaken, NEW m \in Locks PROVE OneToken(m)'
  <2>1. \A u \in Threads : InFlush(u, m)' => InFlush(u, m)
    BY <1>2 DEF InFlush
  <2> QED BY <1>1, <1>4, <1>5, <1>7, <2>1, TokenStays DEF IInv, Tokens, Cached
<1> QED BY <1>1, <1>4, <1>5, <1>6, <1>7 DEF IInv, TypeOK, Tokens

(* ... and so does giving up on it.                                        *)
LEMMA ReleaseTimesOutStep ==
  ASSUME IInv, NEW k \in Slots, ReleaseTimesOut(k), UNCHANGED serverVars
  PROVE IInv'
<1> DEFINE t == Caller(k)
<1>0. CallsTypeOK /\ ClientTypeOK /\ ServerTypeOK /\ CallsFit /\ ThreadsFit
  BY DEF IInv, TypeOK
<1>1. t \in Threads /\ Abandon(k) /\ AfterRelease(t) /\ SetMutex(Source(k), FALSE)
      /\ UNCHANGED <<lockstate_map, held, overtaken, late>>
  BY Names DEF ReleaseTimesOut
<1>2. /\ pc' \in [Threads -> PCs] /\ arg' \in [Threads -> Locks \cup {None}]
      /\ pc'[t] = "idle"
      /\ \A u \in Threads :
             u # t => /\ arg'[u] = arg[u]
                      /\ \/ pc'[u] = pc[u]
                         \/ pc[u] = "waiting" /\ pc'[u] = "woken"
  BY <1>0, <1>1, AfterReleaseMoves
<1>3. \A u \in Threads : InACall(u) /\ u # t => Still(u)
  BY <1>2 DEF InACall, Still
<1>4. /\ CallsTypeOK' /\ CallsFit'
      /\ \A j \in Slots, m \in Locks : InCall(j, m)' => InCall(j, m)
  BY <1>0, <1>1, <1>3, AbandonMoves DEF CallsTypeOK
<1>5. ClientTypeOK' /\ ServerTypeOK' /\ where_is_lock' = where_is_lock
  <2>1. lockmap_mutex' \in [Clients -> BOOLEAN]
    BY <1>0, <1>1 DEF ClientTypeOK, SetMutex
  <2> QED BY <1>0, <1>1, <1>2, <2>1 DEF ClientTypeOK, ServerTypeOK, serverVars
<1>6. ThreadsFit'
  BY <1>0, <1>2 DEF ThreadsFit, ThreadFits
<1>7. ASSUME ~overtaken, NEW m \in Locks PROVE OneToken(m)'
  <2>1. \A u \in Threads : InFlush(u, m)' => InFlush(u, m)
    BY <1>2 DEF InFlush
  <2> QED BY <1>1, <1>4, <1>5, <1>7, <2>1, TokenStays DEF IInv, Tokens, Cached
<1> QED BY <1>1, <1>4, <1>5, <1>6, <1>7, Z3 DEF IInv, TypeOK, Tokens

(* The two steps of give_back().  A lock that is still FREE when the mutex *)
(* is taken turns from cached to being flushed.                            *)
LEMMA GiveBackStep ==
  ASSUME IInv, NEW c \in Clients, UNCHANGED serverVars,
         GiveBackTake(c) \/ \E l \in Locks : GiveBackCheck(c, l)
  PROVE IInv'
<1>0. CallsTypeOK /\ ClientTypeOK /\ ServerTypeOK /\ CallsFit /\ ThreadsFit
  BY DEF IInv, TypeOK
<1>1. c \in Threads /\ Home(c) = c /\ c \notin Workers
  BY Names
<1>2. call' = call /\ held' = held /\ CallsTypeOK'
      /\ ServerTypeOK' /\ where_is_lock' = where_is_lock
      /\ lockmap_mutex' = lockmap_mutex
  BY <1>0
     DEF GiveBackTake, GiveBackCheck, callVars, CallsTypeOK, ServerTypeOK, serverVars
<1>3. /\ pc' \in [Threads -> PCs] /\ arg' \in [Threads -> Locks \cup {None}]
      /\ pc[c] \in {"idle", "giveback"} /\ pc'[c] \in {"giveback", "flush"}
      /\ arg'[c] \in Locks
      /\ \A t \in Threads : t # c => Still(t)
  BY <1>0, <1>1, SMTT(20) DEF GiveBackTake, GiveBackCheck, GoTo, ClientTypeOK, PCs, Still,
                    ThreadsFit, ThreadFits
<1>4. CallsFit'
  <2>1. ASSUME NEW j \in Slots, call[j].live PROVE Still(Caller(j))
    BY <1>0, <1>3, <2>1, Names DEF CallsFit, CallFits
  <2>2. \A j \in Slots : CallFits(j)'
    BY <1>0, <1>2, <2>1, CallStays DEF CallsFit, Still
  <2> QED BY <1>0, <1>2, <2>2 DEF CallsFit, OneLive
<1>5. ThreadsFit'
  BY <1>0, <1>1, <1>3 DEF ThreadsFit, ThreadFits, Still
<1>6. CASE \E l \in Locks : GiveBackCheck(c, l)
  <2>1. lockstate_map' = lockstate_map /\ overtaken' = overtaken /\ pc'[c] = "giveback"
    BY <1>0, <1>1, <1>6, Z3 DEF GiveBackCheck, GoTo, ClientTypeOK
  <2>2. ASSUME ~overtaken, NEW m \in Locks PROVE OneToken(m)'
    <3>1. \A u \in Threads : InFlush(u, m)' => InFlush(u, m)
      BY <1>3, <2>1 DEF InFlush, Still
    <3> QED BY <1>2, <2>1, <2>2, <3>1, TokenStays DEF IInv, Tokens, Cached, InCall
  <2> QED BY <1>0, <1>2, <1>3, <1>4, <1>5, <2>1, <2>2
          DEF IInv, TypeOK, Tokens, ClientTypeOK
<1>7. CASE GiveBackTake(c)
  <2> DEFINE l == arg[c]
  <2>0. /\ l \in Locks /\ SetLock(c, l, "NONE") /\ arg' = arg /\ pc'[c] = "flush"
        /\ overtaken' = (overtaken \/ lockstate_map[c][l] # "FREE")
    BY <1>0, <1>1, <1>7 DEF GiveBackTake, ThreadsFit, ThreadFits, ClientTypeOK
  <2> HIDE DEF l
  <2>1. /\ lockstate_map' \in [Clients -> [Locks -> LockStates]]
        /\ \A d \in Clients, m \in Locks :
             lockstate_map'[d][m] = IF d = c /\ m = l THEN "NONE"
                                    ELSE lockstate_map[d][m]
    <3>1. "NONE" \in LockStates
      BY DEF LockStates
    <3> QED BY <1>0, <2>0, <3>1, SetLockMoves, SMT
  <2>2. ASSUME ~overtaken', NEW m \in Locks PROVE OneToken(m)'
    <3>0. OneToken(m) /\ Cached(c, l)
      BY <2>0, <2>2 DEF IInv, Tokens, Cached
    <3>1. \A d \in Clients : Cached(d, m)' => Cached(d, m) /\ ~(d = c /\ m = l)
      BY <2>1 DEF Cached
    <3>2. CASE m # l
      <4>1. \A u \in Threads : InFlush(u, m)' => InFlush(u, m)
        BY <1>3, <2>0, <3>2 DEF InFlush, Still, l
      <4> QED BY <1>2, <3>0, <3>1, <4>1, TokenStays DEF InCall
    <3>3. CASE m = l
      <4>1. /\ where_is_lock[m] = Home(c)
            /\ \A v \in Workers : m \notin held[v]
            /\ \A d \in Clients : Cached(d, m) => d = c
            /\ \A u \in Threads : ~InFlush(u, m)
            /\ \A k \in Slots : ~InCall(k, m)
        BY <1>1, <3>0, <3>3, ZenonT(40) DEF OneToken
      <4>2. \A u \in Threads : InFlush(u, m)' => u = c
        BY <1>3, <4>1 DEF InFlush, Still
      <4>3. /\ \A v \in Workers : m \notin held'[v]
            /\ \A k \in Slots : ~InCall(k, m)'
            /\ where_is_lock'[m] = Home(c)
        BY <1>2, <4>1 DEF InCall
      <4>4. \A d \in Clients : ~Cached(d, m)'
        BY <3>1, <3>3, <4>1
      <4> QED BY <1>1, <4>2, <4>3, <4>4, TokenFlush
    <3> QED BY <3>2, <3>3
  <2>3. ClientTypeOK'
    BY <1>0, <1>2, <1>3, <2>0, <2>1 DEF ClientTypeOK
  <2> QED BY <1>2, <1>4, <1>5, <2>2, <2>3 DEF IInv, TypeOK, Tokens
<1> QED BY <1>6, <1>7

(* The server grants a lock that is nobody's, or makes the client wait.    *)
LEMMA ServerAcquireStep ==
  ASSUME IInv, NEW k \in Slots, ServerAcquire(k), UNCHANGED clientVars
  PROVE IInv'
<1> DEFINE l == call[k].lid
           c == Source(k)
<1>0. CallsTypeOK /\ ClientTypeOK /\ ServerTypeOK /\ CallsFit /\ ThreadsFit
  BY  DEF IInv, TypeOK
<1>1. /\ call[k].st = "acquire" /\ l \in Locks /\ c \in Clients
      /\ late' = late /\ timeouts' = timeouts /\ serverlock_mutex' = serverlock_mutex
  BY <1>0, Names DEF ServerAcquire, CallsFit, CallFits
<1>2. /\ UNCHANGED <<lockstate_map, lockmap_mutex, pc, arg, held, overtaken>>
      /\ ClientTypeOK' /\ ThreadsFit' /\ \A t \in Threads : Still(t)
  BY <1>0 DEF clientVars, ClientTypeOK, ThreadsFit, ThreadFits, Still
<1>3. \/ /\ where_is_lock[l] = None
         /\ where_is_lock' = [where_is_lock EXCEPT ![l] = c]
         /\ Reply(k, "OK")
         /\ who_waiting_lock' = who_waiting_lock
      \/ /\ where_is_lock' = where_is_lock
         /\ who_waiting_lock' = [who_waiting_lock EXCEPT ![l] =
                                   IF Waits(@, c) THEN @ ELSE Append(@, c)]
         /\ Proceed(k, "owner", None) \/ Reply(k, "RETRY")
  BY  DEF ServerAcquire
<1> HIDE DEF l, c
<1>4. ServerTypeOK'
  <2>1. \A q \in Seq(Clients) : (IF Waits(q, c) THEN q ELSE Append(q, c))
                                  \in Seq(Clients)
    BY <1>1, SMT
  <2> QED BY <1>0, <1>1, <1>3, <2>1, ZenonT(40) DEF ServerTypeOK
<1>5. CASE /\ where_is_lock[l] = None
           /\ where_is_lock' = [where_is_lock EXCEPT ![l] = c]
           /\ Reply(k, "OK")
  <2>1. /\ call' \in [Slots -> Call] /\ CallsFit'
        /\ \A j \in Slots, m \in Locks :
             InCall(j, m)' => InCall(j, m) \/ (j = k /\ m = l)
    BY <1>0, <1>1, <1>2, <1>5, ReplyMoves DEF Replies, AcquireCalls, l
  <2>2. ASSUME ~overtaken, NEW m \in Locks PROVE OneToken(m)'
    <3>0. OneToken(m)
      BY <2>2 DEF IInv, Tokens
    <3>1. CASE m = l
      <4>1. /\ \A v \in Workers : m \notin held[v]
            /\ \A d \in Clients : ~Cached(d, m)
            /\ \A t \in Threads : ~InFlush(t, m)
            /\ \A j \in Slots : ~InCall(j, m)
        BY <1>5, <3>0, <3>1, Names, ZenonT(40) DEF OneToken
      <4>2. where_is_lock'[m] = Source(k)
        BY <1>0, <1>1, <1>5, <3>1 DEF ServerTypeOK, c
      <4> QED BY <1>2, <2>1, <4>1, <4>2, TokenCall DEF Cached, InFlush
    <3>2. CASE m # l
      BY <1>0, <1>2, <1>5, <2>1, <3>0, <3>2, TokenStays
         DEF Cached, InFlush, ServerTypeOK
    <3> QED BY <3>1, <3>2
  <2> QED BY <1>0, <1>1, <1>2, <1>4, <2>1, <2>2
          DEF IInv, TypeOK, CallsTypeOK, Tokens
<1>6. CASE /\ where_is_lock' = where_is_lock
           /\ Proceed(k, "owner", None) \/ Reply(k, "RETRY")
  <2>1. /\ call' \in [Slots -> Call] /\ CallsFit'
        /\ \A j \in Slots, m \in Locks : InCall(j, m)' => InCall(j, m)
    <3>1. CASE Reply(k, "RETRY")
      BY <1>0, <1>1, <1>2, <3>1, ReplyMoves DEF Replies, AcquireCalls
    <3>2. CASE Proceed(k, "owner", None)
      BY <1>0, <1>1, <1>2, <3>2, ProceedMoves DEF AcquireCalls
    <3> QED BY <1>6, <3>1, <3>2
  <2>2. ASSUME ~overtaken, NEW m \in Locks PROVE OneToken(m)'
    BY <1>2, <1>6, <2>1, <2>2, TokenStays DEF IInv, Tokens, Cached, InFlush
  <2> QED BY <1>0, <1>1, <1>2, <1>4, <2>1, <2>2
          DEF IInv, TypeOK, CallsTypeOK, Tokens
<1> QED BY <1>3, <1>5, <1>6

(* The other steps of the server's acquire(), and the end of release().    *)
LEMMA ServerOtherStep ==
  ASSUME IInv, NEW k \in Slots, UNCHANGED clientVars,
         ServerReadOwner(k) \/ ServerRevokeFails(k) \/ ServerRetryTimesOut(k)
  PROVE IInv'
<1>0. CallsTypeOK /\ ClientTypeOK /\ ServerTypeOK /\ CallsFit /\ ThreadsFit
  BY  DEF IInv, TypeOK
<1>1. /\ UNCHANGED <<lockstate_map, lockmap_mutex, pc, arg, held, overtaken>>
      /\ ClientTypeOK' /\ ThreadsFit' /\ \A t \in Threads : Still(t)
  BY <1>0, Z3 DEF clientVars, ClientTypeOK, ThreadsFit, ThreadFits, Still
<1>2. /\ where_is_lock' = where_is_lock /\ who_waiting_lock' = who_waiting_lock
      /\ serverlock_mutex' = serverlock_mutex \/ serverlock_mutex' = FALSE
      /\ call[k].st # "idle"
  BY  DEF ServerReadOwner, ServerRevokeFails, ServerRetryTimesOut, serverVars
<1>3. ServerTypeOK'
  BY <1>0, <1>2 DEF ServerTypeOK
<1>4. CallsTypeOK' /\ CallsFit'
      /\ \A j \in Slots, m \in Locks : InCall(j, m)' => InCall(j, m)
  <2>1. CASE ServerReadOwner(k)
    <3> DEFINE p == where_is_lock[call[k].lid]
    <3>1. p \in Clients \cup {None} /\ call[k].st = "owner" /\ Proceed(k, "revoke", p)
          /\ late' = late /\ timeouts' = timeouts
      BY <1>0, <1>2, <2>1 DEF ServerReadOwner, ServerTypeOK, CallsFit, CallFits
    <3> HIDE DEF p
    <3> QED BY <1>0, <1>1, <3>1, ProceedMoves DEF AcquireCalls, CallsTypeOK
  <2>2. CASE ServerRevokeFails(k)
    BY <1>0, <1>1, <2>2, ReplyMoves, AbandonCallbackMoves
       DEF ServerRevokeFails, Replies, AcquireCalls, CallsTypeOK
  <2>3. CASE ServerRetryTimesOut(k)
    BY <1>0, <1>1, <2>3, ReplyMoves, AbandonCallbackMoves
       DEF ServerRetryTimesOut, Replies, AcquireCalls, CallsTypeOK
  <2> QED BY <2>1, <2>2, <2>3
<1>5. ASSUME ~overtaken, NEW m \in Locks PROVE OneToken(m)'
  BY <1>1, <1>2, <1>4, <1>5, TokenStays DEF IInv, Tokens, Cached, InFlush
<1> QED BY <1>1, <1>3, <1>4, <1>5 DEF IInv, TypeOK, Tokens

(* release() takes the lock from the client that sent it.                  *)
LEMMA ServerReleaseStep ==
  ASSUME IInv, NEW k \in Slots, ServerRelease(k), UNCHANGED clientVars
  PROVE IInv'
<1> DEFINE l == call[k].lid
           q == who_waiting_lock[l]
<1>0. CallsTypeOK /\ ClientTypeOK /\ ServerTypeOK /\ CallsFit /\ ThreadsFit
  BY DEF IInv, TypeOK
<1>1. /\ UNCHANGED <<lockstate_map, lockmap_mutex, pc, arg, held, overtaken>>
      /\ ClientTypeOK' /\ ThreadsFit' /\ \A t \in Threads : Still(t)
  BY <1>0 DEF clientVars, ClientTypeOK, ThreadsFit, ThreadFits, Still
<1>2. /\ call[k].st = "release" /\ l \in Locks /\ InCall(k, l)
      /\ where_is_lock' = [where_is_lock EXCEPT ![l] = None]
      /\ late' = late /\ timeouts' = timeouts
      /\ \/ /\ Reply(k, "DONE")
            /\ UNCHANGED <<who_waiting_lock, serverlock_mutex>>
         \/ /\ q # <<>> /\ Proceed(k, "retry", Head(q))
            /\ who_waiting_lock' = [who_waiting_lock EXCEPT ![l] = Tail(@)]
            /\ serverlock_mutex' = TRUE
  BY <1>0 DEF ServerRelease, CallsFit, CallFits, InCall
<1>3. q \in Seq(Clients)
  BY <1>0, <1>2 DEF ServerTypeOK
<1> HIDE DEF l
<1>4. ServerTypeOK'
  <2>1. where_is_lock' \in [Locks -> Clients \cup {None}]
    BY <1>0, <1>2 DEF ServerTypeOK
  <2>2. CASE UNCHANGED <<who_waiting_lock, serverlock_mutex>>
    BY <1>0, <2>1, <2>2 DEF ServerTypeOK
  <2>3. CASE /\ q # <<>> /\ serverlock_mutex' = TRUE
             /\ who_waiting_lock' = [who_waiting_lock EXCEPT ![l] = Tail(@)]
    <3>1. Tail(q) \in Seq(Clients)
      BY <1>3, <2>3, SMT
    <3>2. who_waiting_lock' = [who_waiting_lock EXCEPT ![l] = Tail(q)]
      BY <2>3
    <3> HIDE DEF q
    <3>3. who_waiting_lock' \in [Locks -> Seq(Clients)]
      BY <1>0, <3>1, <3>2 DEF ServerTypeOK
    <3> QED BY <2>1, <2>3, <3>3 DEF ServerTypeOK
  <2> QED BY <1>2, <2>2, <2>3
<1>5. /\ CallsTypeOK' /\ CallsFit'
      /\ \A j \in Slots, m \in Locks : InCall(j, m)' => InCall(j, m) /\ j # k
  <2>1. CASE Reply(k, "DONE")
    <3>1. /\ call' \in [Slots -> Call] /\ CallsFit'
          /\ \A j \in Slots, m \in Locks : InCall(j, m)' => InCall(j, m)
      BY <1>0, <1>1, <1>2, <2>1, ReplyMoves DEF Replies, AcquireCalls
    <3>2. call'[k].st # "release" /\ call'[k].st # "OK"
      BY <1>0, <2>1 DEF Reply, Changed, Idle, CallsTypeOK
    <3> QED BY <1>0, <1>2, <3>1, <3>2, ZenonT(40) DEF CallsTypeOK, InCall
  <2>2. CASE q # <<>> /\ Proceed(k, "retry", Head(q))
    <3>1. Head(q) \in Clients
      BY <1>3, <2>2, SMTT(20)
    <3> HIDE DEF q
    <3> QED BY <1>0, <1>1, <1>2, <2>2, <3>1, ProceedMoves
            DEF AcquireCalls, CallsTypeOK
  <2> QED BY <1>2, <2>1, <2>2
<1>6. ASSUME ~overtaken, NEW m \in Locks PROVE OneToken(m)'
  <2>0. OneToken(m)
    BY <1>6 DEF IInv, Tokens
  <2>1. CASE m = l
    <3>1. /\ \A v \in Workers : m \notin held[v]
          /\ \A d \in Clients : ~Cached(d, m)
          /\ \A t \in Threads : ~InFlush(t, m)
          /\ \A j \in Slots : InCall(j, m) => j = k
      BY <1>2, <2>0, <2>1 DEF OneToken
    <3> QED BY <1>1, <1>5, <3>1, TokenNowhere DEF Cached, InFlush
  <2>2. CASE m # l
    BY <1>0, <1>1, <1>2, <1>5, <2>0, <2>2, TokenStays
       DEF Cached, InFlush, ServerTypeOK
  <2> QED BY <2>1, <2>2
<1> QED BY <1>1, <1>4, <1>5, <1>6 DEF IInv, TypeOK, Tokens

(* The handlers of the client give no lock a new place.                    *)
LEMMA HandlerMoves ==
  ASSUME ClientTypeOK, ThreadsFit, NEW c \in Clients, NEW l \in Locks,
         revoke_handler(c, l) \/ retry_handler(c, l)
  PROVE /\ ClientTypeOK' /\ ThreadsFit' /\ held' = held /\ overtaken' = overtaken
        /\ \A t \in Threads : InACall(t) => Still(t)
        /\ \A m \in Locks : /\ \A d \in Clients : Cached(d, m)' => Cached(d, m)
                            /\ \A t \in Threads : InFlush(t, m)' => InFlush(t, m)
<1>1. \/ lockstate_map' = lockstate_map
      \/ \E s \in LockStates : /\ s # "FREE" \/ s = lockstate_map[c][l]
                               /\ SetLock(c, l, s)
  BY  DEF revoke_handler, retry_handler, LockStates, ClientTypeOK
<1>2. /\ lockstate_map' \in [Clients -> [Locks -> LockStates]]
      /\ \A d \in Clients, m \in Locks : Cached(d, m)' => Cached(d, m)
  BY <1>1, SetLockMoves, Z3 DEF Cached, ClientTypeOK
<1>3. /\ UNCHANGED <<lockmap_mutex, arg, held, overtaken>>
      /\ pc' = pc \/ pc' = Woken(c, l)
  BY  DEF revoke_handler, retry_handler
<1>4. /\ pc' \in [Threads -> PCs]
      /\ \A t \in Threads : pc'[t] = pc[t] \/ (pc[t] = "waiting" /\ pc'[t] = "woken")
  BY <1>3, WokenMoves, SMTT(20) DEF ClientTypeOK
<1>5. ClientTypeOK'
  BY <1>2, <1>3, <1>4 DEF ClientTypeOK
<1>6. ThreadsFit' /\ \A t \in Threads : InACall(t) => Still(t)
  BY <1>3, <1>4 DEF ThreadsFit, ThreadFits, InACall, Still
<1>7. \A m \in Locks, t \in Threads : InFlush(t, m)' => InFlush(t, m)
  BY <1>3, <1>4 DEF InFlush
<1> QED BY <1>2, <1>3, <1>5, <1>6, <1>7

(* revoke_handler() and retry_handler(), in time or late.                  *)
LEMMA CallbackSteps ==
  ASSUME IInv, CallbackStep
  PROVE IInv'
<1>0. CallsTypeOK /\ ClientTypeOK /\ ServerTypeOK /\ CallsFit /\ ThreadsFit
  BY  DEF IInv, TypeOK
<1>1. ASSUME NEW c \in Clients, NEW l \in Locks,
             revoke_handler(c, l) \/ retry_handler(c, l),
             CallsTypeOK', ServerTypeOK', where_is_lock' = where_is_lock,
             CallsFit',
             \A j \in Slots, m \in Locks : InCall(j, m)' => InCall(j, m)
      PROVE IInv'
  <2>1. /\ ClientTypeOK' /\ ThreadsFit' /\ held' = held /\ overtaken' = overtaken
        /\ \A m \in Locks : /\ \A d \in Clients : Cached(d, m)' => Cached(d, m)
                            /\ \A t \in Threads : InFlush(t, m)' => InFlush(t, m)
    BY <1>0, <1>1, HandlerMoves, Z3
  <2>2. ASSUME ~overtaken, NEW m \in Locks PROVE OneToken(m)'
    <3>1. OneToken(m)
      BY <2>2 DEF IInv, Tokens
    <3> QED BY <1>1, <2>1, <3>1, TokenStays
  <2> QED BY <1>1, <2>1, <2>2 DEF IInv, TypeOK, Tokens
<1>2. ASSUME NEW k \in Slots, Revoke(k) \/ Retry(k) PROVE IInv'
  <2> DEFINE c == call[k].peer
             l == call[k].lid
  <2>1. /\ call[k].st \in {"revoke", "retry"} /\ call[k] \in Call
        /\ call[k].st = "revoke" => c # None
        /\ late' = late /\ timeouts' = timeouts
        /\ where_is_lock' = where_is_lock /\ who_waiting_lock' = who_waiting_lock
        /\ serverlock_mutex' = serverlock_mutex \/ serverlock_mutex' = FALSE
        /\ Reply(k, IF call[k].st = "revoke" THEN "RETRY" ELSE "DONE")
        /\ revoke_handler(c, l) \/ retry_handler(c, l)
    BY <1>0, <1>2, Z3 DEF Revoke, Retry, ServerRevokeOK, ServerRetryReturns,
                      serverVars, CallsTypeOK
  <2>2. c \in Clients /\ l \in Locks
    BY <1>0, <2>1, CallFields DEF CallsFit, CallFits
  <2> HIDE DEF c, l
  <2>3. \A t \in Threads : InACall(t) => Still(t)
    BY <1>0, <2>1, <2>2, HandlerMoves, ZenonT(40)
  <2>4. /\ call' \in [Slots -> Call] /\ CallsFit'
        /\ \A j \in Slots, m \in Locks : InCall(j, m)' => InCall(j, m)
    <3>1. CASE call[k].st = "revoke"
      BY <1>0, <2>1, <2>3, <3>1, ReplyMoves DEF Replies, AcquireCalls
    <3>2. CASE call[k].st = "retry"
      BY <1>0, <2>1, <2>3, <3>2, ReplyMoves DEF Replies, AcquireCalls
    <3> QED BY <2>1, <3>1, <3>2, Z3
  <2>5. CallsTypeOK' /\ ServerTypeOK'
    BY <1>0, <2>1, <2>4 DEF CallsTypeOK, ServerTypeOK
  <2> QED BY <1>1, <2>1, <2>2, <2>4, <2>5
<1>3. ASSUME NEW c \in Clients, NEW l \in Locks, LateRevoke(c, l) \/ LateRetry(c, l)
      PROVE IInv'
  <2>1. PICK x \in {<<"revoke", c, l>>, <<"retry", c, l>>} :
           /\ late[x] > 0 /\ late' = [late EXCEPT ![x] = @ - 1]
           /\ call' = call /\ timeouts' = timeouts
           /\ UNCHANGED <<where_is_lock, who_waiting_lock, serverlock_mutex>>
           /\ revoke_handler(c, l) \/ retry_handler(c, l)
    BY <1>3 DEF LateRevoke, LateRetry, serverVars
  <2>2. x \in Callbacks \X Clients \X Locks
    BY SMT DEF Callbacks
  <2>3. CallsTypeOK' /\ ServerTypeOK'
    <3>1. late[x] \in Nat
      BY <1>0, <2>2 DEF CallsTypeOK
    <3>2. late[x] - 1 \in Nat
      BY <2>1, <3>1, SMT
    <3> QED BY <1>0, <2>1, <2>2, <3>2 DEF CallsTypeOK, ServerTypeOK
  <2>4. \A t \in Threads : InACall(t) => Still(t)
    BY <1>0, <2>1, HandlerMoves
  <2>5. CallsFit'
    <3>1. \A j \in Slots : CallFits(j)'
      <4>1. ASSUME NEW j \in Slots, call[j].live PROVE Still(Caller(j))
        BY <1>0, <2>4, <4>1, Names DEF CallsFit, CallFits, InACall
      <4> QED BY <1>0, <2>1, <4>1, CallStays DEF CallsFit, Still
    <3> QED BY <1>0, <2>1, <3>1 DEF CallsFit, OneLive
  <2> QED BY <1>1, <2>1, <2>3, <2>5 DEF InCall
<1> QED BY <1>2, <1>3 DEF CallbackStep
-----------------------------------------------------------------------------
(* The first state.                                                        *)
LEMMA Initially == Init => IInv
<1> SUFFICES ASSUME Init PROVE IInv
  OBVIOUS
<1>1. /\ call = [k \in Slots |-> Idle] /\ pc = [t \in Threads |-> "idle"]
      /\ lockstate_map = [c \in Clients |-> [l \in Locks |-> "ABSENT"]]
      /\ held = [w \in Workers |-> {}]
  BY  DEF Init, CallsInit, ClientInit
<1>2. CallsTypeOK
  BY CallFields, Names, SMT DEF Init, CallsInit, CallsTypeOK
<1>3. ClientTypeOK
  BY  DEF Init, ClientInit, ClientTypeOK, LockStates, PCs
<1>4. ServerTypeOK
  <2>1. <<>> \in Seq(Clients)
    BY SMT
  <2> QED BY <2>1 DEF Init, ServerInit, ServerTypeOK
<1>5. CallsFit
  BY <1>1, CallFields DEF CallsFit, OneLive, CallFits, Replies, AcquireCalls
<1>6. ThreadsFit
  BY <1>1 DEF ThreadsFit, ThreadFits
<1>7. Tokens
  BY <1>1, CallFields, ZenonT(40) DEF Tokens, OneToken, Cached, InFlush, InCall
<1> QED BY <1>2, <1>3, <1>4, <1>5, <1>6, <1>7 DEF IInv, TypeOK

(* The invariant is inductive: every action of clients and server keeps it.*)
LEMMA Inductive == IInv /\ [Next]_vars => IInv'
<1> SUFFICES ASSUME IInv, [Next]_vars PROVE IInv'
  OBVIOUS 
<1>1. CASE ClientStep
  BY <1>1, AcquireStep, AcquireReplyStep, AcquireTimesOutStep, ReleaseStep,
     SendReleaseStep, ReleaseReplyStep, ReleaseTimesOutStep, GiveBackStep
     DEF ClientStep
<1>2. CASE ServerStep
  BY <1>2, ServerAcquireStep, ServerOtherStep, ServerReleaseStep DEF ServerStep
<1>3. CASE CallbackStep
  BY <1>3, CallbackSteps
<1>4. CASE UNCHANGED vars
  <2> USE <1>4 DEF vars, callVars, clientVars, serverVars
  <2>1. TypeOK'
    BY  DEF IInv, TypeOK, CallsTypeOK, ClientTypeOK, ServerTypeOK
  <2>2. CallsFit' /\ ThreadsFit'
    <3>1. CallsFit'
      BY ZenonT(40)  DEF IInv, CallsFit, OneLive, CallFits
    <3>2. ThreadsFit'
      BY  DEF IInv, ThreadsFit, ThreadFits
    <3> QED BY <3>1, <3>2
  <2>3. ASSUME ~overtaken', NEW l \in Locks PROVE OneToken(l)'
    <3>1. OneToken(l)
      BY <2>3 DEF IInv, Tokens
    <3>2. /\ \A c \in Clients : Cached(c, l)' = Cached(c, l)
          /\ \A t \in Threads : InFlush(t, l)' = InFlush(t, l)
          /\ \A k \in Slots : InCall(k, l)' = InCall(k, l)
      BY  DEF Cached, InFlush, InCall
    <3> QED BY <3>1, <3>2 DEF OneToken
  <2> QED BY <2>1, <2>2, <2>3 DEF IInv, Tokens
<1> QED BY <1>1, <1>2, <1>3, <1>4 DEF Next

(* The invariant holds in every behaviour.                                 *)
THEOREM Invariant == Spec => []IInv
BY Initially, Inductive, PTL DEF Spec

(* TypeOK: every variable of the protocol keeps its type.                  *)
THEOREM TypeCorrect == Spec => []TypeOK
<1>1. IInv => TypeOK
  BY Z3 DEF IInv
<1> QED BY <1>1, Invariant, PTL

(* MutualExclusionUnlessOvertaken: two threads hold a lock only after a    *)
(* give_back() has overwritten the state of a lock that was not FREE any   *)
(* more, however calls time out and callbacks arrive late.                 *)
THEOREM ExclusionHolds == Spec => []MutualExclusionUnlessOvertaken
<1>1. IInv => MutualExclusionUnlessOvertaken
  BY  DEF IInv, TypeOK, ClientTypeOK, Tokens, OneToken, MutualExclusion,
         MutualExclusionUnlessOvertaken
<1> QED BY <1>1, Invariant, PTL

(* FlushUnderLock: dorelease() flushes a lock's extent only while the lock *)
(* is its client's own, neither held nor cached.                           *)
THEOREM FlushIsSafe == Spec => []FlushUnderLock
<1>1. IInv => FlushUnderLock
  <2> SUFFICES ASSUME IInv, ~overtaken, NEW t \in Threads, pc[t] = "flush"
               PROVE /\ where_is_lock[arg[t]] = Home(t)
                     /\ \A w \in Workers : arg[t] \notin held[w]
                     /\ \A c \in Clients : lockstate_map[c][arg[t]] # "FREE"
    BY  DEF FlushUnderLock
  <2>1. arg[t] \in Locks
    BY  DEF IInv, ThreadsFit, ThreadFits
  <2>2. OneToken(arg[t]) /\ InFlush(t, arg[t])
    BY <2>1 DEF IInv, Tokens, InFlush
  <2> QED BY <2>2 DEF OneToken, Cached
<1> QED BY <1>1, Invariant, PTL

(* TokenUnique: a lock is in at most one place, held, cached, being        *)
(* flushed or in a call, and where_is_lock names the client of that place. *)
THEOREM TokenIsUnique == Spec => []TokenUnique
<1>1. IInv => TokenUnique
  <2> SUFFICES ASSUME IInv, ~overtaken, NEW l \in Locks,
                      NEW p \in Place, HasToken(p, l)
               PROVE /\ where_is_lock[l] = OwnerOf(p)
                     /\ \A q \in Place : HasToken(q, l) => p = q
    BY DEF TokenUnique, TokenPlaces
  <2>0. OneToken(l)
    BY Z3 DEF IInv, Tokens
  <2>1. ASSUME NEW q \in Place, HasToken(q, l)
        PROVE \/ \E w \in Workers : q = <<"held", w>> /\ l \in held[w]
              \/ \E c \in Clients : q = <<"cached", c>> /\ Cached(c, l)
              \/ \E t \in Threads : q = <<"flush", t>> /\ InFlush(t, l)
              \/ \E k \in Slots : q = <<"call", k>> /\ InCall(k, l)
    <3>1. CASE q \in {<<"held", w>> : w \in Workers}
      <4>1. PICK w \in Workers : q = <<"held", w>>
        BY <3>1
      <4>2. q[1] = "held" /\ q[2] = w
        BY <4>1
      <4>3. l \in held[q[2]]
        BY <2>1, <4>2 DEF HasToken
      <4> QED BY <4>1, <4>2, <4>3
    <3>2. CASE q \in {<<"cached", c>> : c \in Clients}
      <4>1. PICK c \in Clients : q = <<"cached", c>>
        BY <3>2
      <4>2. q[1] = "cached" /\ q[2] = c
        BY <4>1
      <4>3. Cached(q[2], l)
        BY <2>1, <4>2 DEF HasToken, Cached
      <4> QED BY <4>1, <4>2, <4>3
    <3>3. CASE q \in {<<"flush", t>> : t \in Threads}
      <4>1. PICK t \in Threads : q = <<"flush", t>>
        BY <3>3
      <4>2. q[1] = "flush" /\ q[2] = t
        BY <4>1
      <4>3. InFlush(q[2], l)
        BY <2>1, <4>2 DEF HasToken, InFlush
      <4> QED BY <4>1, <4>2, <4>3
    <3>4. CASE q \in {<<"call", k>> : k \in Slots}
      <4>1. PICK k \in Slots : q = <<"call", k>>
        BY <3>4
      <4>2. q[1] = "call" /\ q[2] = k
        BY <4>1
      <4>3. InCall(q[2], l)
        BY <2>1, <4>2 DEF HasToken, InCall
      <4> QED BY <4>1, <4>2, <4>3
    <3> QED BY <3>1, <3>2, <3>3, <3>4 DEF Place
  <2>2. where_is_lock[l] = OwnerOf(p)
    <3>1. CASE \E w \in Workers : p = <<"held", w>> /\ l \in held[w]
      <4>1. PICK w \in Workers : p = <<"held", w>> /\ l \in held[w]
        BY <3>1
      <4>2. where_is_lock[l] = ClientOf[w]
        BY <2>0, <4>1 DEF OneToken
      <4> QED BY <4>1, <4>2, Names DEF OwnerOf
    <3>2. CASE \E c \in Clients : p = <<"cached", c>> /\ Cached(c, l)
      <4>1. PICK c \in Clients : p = <<"cached", c>> /\ Cached(c, l)
        BY <3>2
      <4>2. where_is_lock[l] = c
        BY <2>0, <4>1 DEF OneToken
      <4> QED BY <4>1, <4>2, Names DEF OwnerOf
    <3>3. CASE \E t \in Threads : p = <<"flush", t>> /\ InFlush(t, l)
      <4>1. PICK t \in Threads : p = <<"flush", t>> /\ InFlush(t, l)
        BY <3>3, Z3
      <4>2. where_is_lock[l] = Home(t)
        BY <2>0, <4>1 DEF OneToken
      <4> QED BY <4>1, <4>2 DEF OwnerOf
    <3>4. CASE \E k \in Slots : p = <<"call", k>> /\ InCall(k, l)
      <4>1. PICK k \in Slots : p = <<"call", k>> /\ InCall(k, l)
        BY <3>4
      <4>2. where_is_lock[l] = Source(k)
        BY <2>0, <4>1, Z3 DEF OneToken
      <4> QED BY <4>1, <4>2 DEF OwnerOf
    <3> QED BY <2>1, <3>1, <3>2, <3>3, <3>4
  <2>3. ASSUME NEW q \in Place, HasToken(q, l) PROVE p = q
    BY <2>0, <2>1, <2>3, ZenonT(40) DEF OneToken
  <2> QED BY <2>2, <2>3
<1> QED BY <1>1, Invariant, PTL

(* ReleasedByOwner: the server's release() handler, which does not look at *)
(* its caller, takes a lock only from the client that sent the release.    *)
THEOREM OnlyOwnerReleases == Spec => ReleasedByOwner
<1> DEFINE Taken(l) == /\ where_is_lock'[l] = None
                       /\ \E k \in Slots : /\ call[k].st = "release"
                                           /\ call[k].lid = l
                                           /\ call'[k] # call[k]
                                           /\ Source(k) = where_is_lock[l]
<1>1. ASSUME IInv, [Next]_vars, ~overtaken, NEW l \in Locks,
             where_is_lock[l] # None, where_is_lock'[l] # where_is_lock[l]
      PROVE Taken(l)
  <2>0. /\ CallsTypeOK /\ CallsFit /\ OneToken(l)
        /\ where_is_lock \in [Locks -> Clients \cup {None}]
    BY <1>1, Z3 DEF IInv, TypeOK, ServerTypeOK, Tokens
  <2>1. PICK k \in Slots : ServerAcquire(k) \/ ServerRelease(k)
    BY <1>1 DEF Next, ClientStep, ServerStep, CallbackStep, vars, serverVars,
       ServerReadOwner, ServerRevokeFails, ServerRetryTimesOut, Revoke, Retry,
       ServerRevokeOK, ServerRetryReturns, LateRevoke, LateRetry
  <2>2. CASE ServerAcquire(k)
    BY <1>1, <2>0, <2>2 DEF ServerAcquire
  <2>3. CASE ServerRelease(k)
    <3>1. where_is_lock' = [where_is_lock EXCEPT ![call[k].lid] = None]
          /\ call[k].st = "release"
      BY <2>3 DEF ServerRelease
    <3>2. call[k].lid = l /\ where_is_lock'[l] = None
      BY <1>1, <2>0, <3>1, Z3
    <3>3. Source(k) = where_is_lock[l]
      BY <2>0, <3>1, <3>2 DEF OneToken, InCall
    <3>4. call'[k].st # "release"
      BY <2>0, <2>3, SMTT(20) DEF ServerRelease, Reply, Proceed, Changed, Idle, CallsTypeOK
    <3> QED BY <3>1, <3>2, <3>3, <3>4
  <2> QED BY <2>1, <2>2, <2>3
<1>2. IInv /\ [Next]_vars =>
        [~overtaken =>
           \A l \in Locks :
             where_is_lock[l] # None /\ where_is_lock'[l] # where_is_lock[l]
               => Taken(l)]_vars
  BY <1>1, SMTT(20)
<1> QED BY <1>2, Invariant, PTL DEF Spec, ReleasedByOwner

-----------------------------------------------------------------------------
(* The tokens move as LockToken allows.                                    *)

(* The token of l is in none of its places.                                *)
Nowhere(l) ==
  /\ \A w \in Workers : l \notin held[w]
  /\ \A c \in Clients : ~Cached(c, l)
  /\ \A t \in Threads : ~InFlush(t, l)
  /\ \A k \in Slots : ~InCall(k, l)

(* A place has the token of l when one of the four predicates says so.     *)
LEMMA Places ==
  ASSUME NEW l \in Locks
  PROVE /\ \A w \in Workers : /\ <<"held", w>> \in Place
                              /\ HasToken(<<"held", w>>, l) <=> l \in held[w]
                              /\ TokenAt(<<"held", w>>) = [at |-> "held", by |-> w]
        /\ \A c \in Clients : /\ <<"cached", c>> \in Place
                              /\ HasToken(<<"cached", c>>, l) <=> Cached(c, l)
                              /\ TokenAt(<<"cached", c>>) = [at |-> "cached", by |-> c]
        /\ \A t \in Threads : /\ <<"flush", t>> \in Place
                              /\ HasToken(<<"flush", t>>, l) <=> InFlush(t, l)
                              /\ TokenAt(<<"flush", t>>) = [at |-> "flush", by |-> Home(t)]
        /\ \A k \in Slots : /\ <<"call", k>> \in Place
                            /\ HasToken(<<"call", k>>, l) <=> InCall(k, l)
                            /\ TokenAt(<<"call", k>>) =
                                 [at |-> IF call[k].st = "OK" THEN "granted" ELSE "released",
                                  by |-> Source(k)]
        /\ \A p \in Place : \/ \E w \in Workers : p = <<"held", w>>
                            \/ \E c \in Clients : p = <<"cached", c>>
                            \/ \E t \in Threads : p = <<"flush", t>>
                            \/ \E k \in Slots : p = <<"call", k>>
<1>1. \A w \in Workers : /\ <<"held", w>> \in Place
                         /\ HasToken(<<"held", w>>, l) <=> l \in held[w]
                         /\ TokenAt(<<"held", w>>) = [at |-> "held", by |-> w]
  BY DEF Place, HasToken, TokenAt
<1>2. \A c \in Clients : /\ <<"cached", c>> \in Place
                         /\ HasToken(<<"cached", c>>, l) <=> Cached(c, l)
                         /\ TokenAt(<<"cached", c>>) = [at |-> "cached", by |-> c]
  BY DEF Place, HasToken, TokenAt, Cached
<1>3. \A t \in Threads : /\ <<"flush", t>> \in Place
                         /\ HasToken(<<"flush", t>>, l) <=> InFlush(t, l)
                         /\ TokenAt(<<"flush", t>>) = [at |-> "flush", by |-> Home(t)]
  BY SMT DEF Place, HasToken, TokenAt, InFlush
<1>4. \A k \in Slots : /\ <<"call", k>> \in Place
                       /\ HasToken(<<"call", k>>, l) <=> InCall(k, l)
                       /\ TokenAt(<<"call", k>>) =
                            [at |-> IF call[k].st = "OK" THEN "granted" ELSE "released",
                             by |-> Source(k)]
  BY SMT DEF Place, HasToken, TokenAt, InCall
<1>5. \A p \in Place : \/ \E w \in Workers : p = <<"held", w>>
                       \/ \E c \in Clients : p = <<"cached", c>>
                       \/ \E t \in Threads : p = <<"flush", t>>
                       \/ \E k \in Slots : p = <<"call", k>>
  BY DEF Place
<1> QED BY <1>1, <1>2, <1>3, <1>4, <1>5

(* The place that has a token, seen through HasToken.                      *)
LEMMA Holder ==
  ASSUME NEW l \in Locks, NEW p \in Place, HasToken(p, l)
  PROVE \/ \E w \in Workers : p = <<"held", w>> /\ l \in held[w]
        \/ \E c \in Clients : p = <<"cached", c>> /\ Cached(c, l)
        \/ \E t \in Threads : p = <<"flush", t>> /\ InFlush(t, l)
        \/ \E k \in Slots : p = <<"call", k>> /\ InCall(k, l)
<1>1. CASE \E w \in Workers : p = <<"held", w>>
  BY <1>1, Places, ZenonT(40)
<1>2. CASE \E c \in Clients : p = <<"cached", c>>
  BY <1>2, Places, ZenonT(40)
<1>3. CASE \E t \in Threads : p = <<"flush", t>>
  BY <1>3, Places, ZenonT(40)
<1>4. CASE \E k \in Slots : p = <<"call", k>>
  BY <1>4, Places, ZenonT(40)
<1> QED BY <1>1, <1>2, <1>3, <1>4, Places

(* Where there is at most one token, TokenMap shows it.                    *)
Seen(l) ==
  /\ \A w \in Workers : l \in held[w] => TokenMap[l] = [at |-> "held", by |-> w]
  /\ \A c \in Clients : Cached(c, l) => TokenMap[l] = [at |-> "cached", by |-> c]
  /\ \A t \in Threads : InFlush(t, l) => TokenMap[l] = [at |-> "flush", by |-> Home(t)]
  /\ \A k \in Slots : InCall(k, l) =>
       TokenMap[l] = [at |-> IF call[k].st = "OK" THEN "granted" ELSE "released",
                      by |-> Source(k)]
  /\ Nowhere(l) => TokenMap[l] = [at |-> IF where_is_lock[l] = None THEN "server"
                                         ELSE "lost", by |-> None]

(* The mapping gives each lock the place where its token is, ...           *)
LEMMA TokenSeen == \A l \in Locks : OneToken(l) => Seen(l)
<1> SUFFICES ASSUME NEW l \in Locks, OneToken(l) PROVE Seen(l)
  OBVIOUS
<1>1. TokenMap[l] = IF \E p \in Place : HasToken(p, l)
                    THEN TokenAt(CHOOSE p \in Place : HasToken(p, l))
                    ELSE IF where_is_lock[l] = None THEN [at |-> "server", by |-> None]
                    ELSE [at |-> "lost", by |-> None]
  BY DEF TokenMap
<1>2. ASSUME NEW q \in Place, HasToken(q, l),
             \A p \in Place : HasToken(p, l) => p = q
      PROVE TokenMap[l] = TokenAt(q)
  <2>1. (CHOOSE p \in Place : HasToken(p, l)) = q
    BY <1>2
  <2> QED BY <1>1, <1>2, <2>1
<1>3. ASSUME NEW w \in Workers, l \in held[w]
      PROVE TokenMap[l] = [at |-> "held", by |-> w]
  <2>1. \A p \in Place : HasToken(p, l) => p = <<"held", w>>
    BY <1>3, Holder DEF OneToken
  <2> QED BY <1>2, <1>3, <2>1, Places, ZenonT(40)
<1>4. ASSUME NEW c \in Clients, Cached(c, l)
      PROVE TokenMap[l] = [at |-> "cached", by |-> c]
  <2>1. \A p \in Place : HasToken(p, l) => p = <<"cached", c>>
    BY <1>4, Holder, SMT DEF OneToken
  <2> QED BY <1>2, <1>4, <2>1, Places
<1>5. ASSUME NEW t \in Threads, InFlush(t, l)
      PROVE TokenMap[l] = [at |-> "flush", by |-> Home(t)]
  <2>1. \A p \in Place : HasToken(p, l) => p = <<"flush", t>>
    BY <1>5, Holder DEF OneToken
  <2> QED BY <1>2, <1>5, <2>1, Places
<1>6. ASSUME NEW k \in Slots, InCall(k, l)
      PROVE TokenMap[l] = [at |-> IF call[k].st = "OK" THEN "granted" ELSE "released",
                           by |-> Source(k)]
  <2>1. \A p \in Place : HasToken(p, l) => p = <<"call", k>>
    BY <1>6, Holder DEF OneToken
  <2> QED BY <1>2, <1>6, <2>1, Places
<1>7. ASSUME Nowhere(l)
      PROVE TokenMap[l] = [at |-> IF where_is_lock[l] = None THEN "server"
                                  ELSE "lost", by |-> None]
  <2>1. \A p \in Place : ~HasToken(p, l)
    BY <1>7, Holder DEF Nowhere
  <2> QED BY <1>1, <2>1
<1> QED BY <1>3, <1>4, <1>5, <1>6, <1>7 DEF Seen

(* ... before a step and after it.                                         *)
LEMMA TokenSeenNext == (\A l \in Locks : OneToken(l) => Seen(l))'
BY TokenSeen, PTL

(* A step that leaves the places of m's token alone.                       *)
SamePlaces(m) ==
  /\ where_is_lock'[m] = where_is_lock[m]
  /\ \A w \in Workers : m \in held'[w] <=> m \in held[w]
  /\ \A c \in Clients : Cached(c, m)' <=> Cached(c, m)
  /\ \A t \in Threads : InFlush(t, m)' <=> InFlush(t, m)
  /\ \A k \in Slots : /\ InCall(k, m)' <=> InCall(k, m)
                      /\ InCall(k, m) => call'[k].st = call[k].st

(* A lock whose places are left alone is mapped to the same token.         *)
LEMMA SameToken ==
  ASSUME NEW m \in Locks, OneToken(m), OneToken(m)', SamePlaces(m)
  PROVE TokenMap'[m] = TokenMap[m]
<1>1. Seen(m) /\ Seen(m)'
  BY TokenSeen, TokenSeenNext
<1>2. CASE Nowhere(m)
  <2>1. Nowhere(m)'
    BY <1>2 DEF Nowhere, SamePlaces
  <2> QED BY <1>1, <1>2, <2>1 DEF Seen, SamePlaces
<1>3. ASSUME NEW w \in Workers, m \in held[w] PROVE TokenMap'[m] = TokenMap[m]
  <2>1. m \in held'[w]
    BY <1>3 DEF SamePlaces
  <2>2. /\ TokenMap[m] = [at |-> "held", by |-> w]
        /\ TokenMap'[m] = [at |-> "held", by |-> w]
    BY <1>1, <1>3, <2>1 DEF Seen
  <2> QED BY <2>2
<1>4. ASSUME NEW c \in Clients, Cached(c, m) PROVE TokenMap'[m] = TokenMap[m]
  <2>1. Cached(c, m)'
    BY <1>4 DEF SamePlaces
  <2>2. /\ TokenMap[m] = [at |-> "cached", by |-> c]
        /\ TokenMap'[m] = [at |-> "cached", by |-> c]
    BY <1>1, <1>4, <2>1 DEF Seen
  <2> QED BY <2>2
<1>5. ASSUME NEW t \in Threads, InFlush(t, m) PROVE TokenMap'[m] = TokenMap[m]
  <2>1. InFlush(t, m)'
    BY <1>5 DEF SamePlaces
  <2>2. /\ TokenMap[m] = [at |-> "flush", by |-> Home(t)]
        /\ TokenMap'[m] = [at |-> "flush", by |-> Home(t)]
    BY <1>1, <1>5, <2>1 DEF Seen
  <2> QED BY <2>2
<1>6. ASSUME NEW k \in Slots, InCall(k, m) PROVE TokenMap'[m] = TokenMap[m]
  <2>1. InCall(k, m)' /\ call'[k].st = call[k].st
    BY <1>6 DEF SamePlaces
  <2>2. TokenMap[m] = [at |-> IF call[k].st = "OK" THEN "granted" ELSE "released",
                       by |-> Source(k)]
    BY <1>1, <1>6 DEF Seen
  <2>3. TokenMap'[m] = [at |-> IF call'[k].st = "OK" THEN "granted" ELSE "released",
                        by |-> Source(k)]
    BY <1>1, <2>1 DEF Seen
  <2> QED BY <2>1, <2>2, <2>3
<1> QED BY <1>2, <1>3, <1>4, <1>5, <1>6 DEF Nowhere

(* What LockToken lets a token do.                                         *)
LEMMA Moves ==
  /\ \A c \in Clients :
       [at |-> "granted", by |-> c] \in Abstract!Moves([at |-> "server", by |-> None])
  /\ [at |-> "lost", by |-> None] \in Abstract!Moves([at |-> "server", by |-> None])
  /\ \A w \in Workers :
       /\ [at |-> "held", by |-> w] \in Abstract!Moves([at |-> "granted", by |-> ClientOf[w]])
       /\ [at |-> "held", by |-> w] \in Abstract!Moves([at |-> "cached", by |-> ClientOf[w]])
       /\ [at |-> "cached", by |-> ClientOf[w]] \in Abstract!Moves([at |-> "held", by |-> w])
       /\ [at |-> "flush", by |-> ClientOf[w]] \in Abstract!Moves([at |-> "held", by |-> w])
  /\ \A c \in Clients :
       /\ [at |-> "lost", by |-> None] \in Abstract!Moves([at |-> "granted", by |-> c])
       /\ [at |-> "lost", by |-> None] \in Abstract!Moves([at |-> "cached", by |-> c])
       /\ [at |-> "flush", by |-> c] \in Abstract!Moves([at |-> "cached", by |-> c])
       /\ [at |-> "released", by |-> c] \in Abstract!Moves([at |-> "flush", by |-> c])
       /\ [at |-> "server", by |-> None] \in Abstract!Moves([at |-> "released", by |-> c])
<1> USE DEF Abstract!Moves, Abstract!At, Abstract!HeldAt, Abstract!Lost, Abstract!AtServer
<1>1. \A c \in Clients :
       [at |-> "granted", by |-> c] \in Abstract!Moves([at |-> "server", by |-> None])
  OBVIOUS
<1>2. [at |-> "lost", by |-> None] \in Abstract!Moves([at |-> "server", by |-> None])
  OBVIOUS
<1>3. \A w \in Workers :
       [at |-> "held", by |-> w] \in Abstract!Moves([at |-> "granted", by |-> ClientOf[w]])
  OBVIOUS
<1>4. \A w \in Workers :
       [at |-> "held", by |-> w] \in Abstract!Moves([at |-> "cached", by |-> ClientOf[w]])
  OBVIOUS
<1>5. \A w \in Workers :
       /\ [at |-> "cached", by |-> ClientOf[w]] \in Abstract!Moves([at |-> "held", by |-> w])
       /\ [at |-> "flush", by |-> ClientOf[w]] \in Abstract!Moves([at |-> "held", by |-> w])
  BY SMT
<1>6. \A c \in Clients :
       /\ [at |-> "lost", by |-> None] \in Abstract!Moves([at |-> "granted", by |-> c])
       /\ [at |-> "lost", by |-> None] \in Abstract!Moves([at |-> "cached", by |-> c])
       /\ [at |-> "flush", by |-> c] \in Abstract!Moves([at |-> "cached", by |-> c])
  BY SMT
<1>7. \A c \in Clients :
       /\ [at |-> "released", by |-> c] \in Abstract!Moves([at |-> "flush", by |-> c])
       /\ [at |-> "server", by |-> None] \in Abstract!Moves([at |-> "released", by |-> c])
  BY SMT
<1> HIDE DEF Abstract!Moves, Abstract!At, Abstract!HeldAt, Abstract!Lost, Abstract!AtServer
<1> QED BY <1>1, <1>2, <1>3, <1>4, <1>5, <1>6, <1>7

(* No token moves, or one does.                                            *)
LEMMA NoneMoves ==
  ASSUME \A m \in Locks : OneToken(m) /\ OneToken(m)' /\ SamePlaces(m)
  PROVE UNCHANGED TokenMap
<1>1. \A m \in Locks : TokenMap'[m] = TokenMap[m]
  BY SameToken
<1> DEFINE f(l) == IF \E p \in Place : HasToken(p, l)
                   THEN TokenAt(CHOOSE p \in Place : HasToken(p, l))
                   ELSE IF where_is_lock[l] = None THEN [at |-> "server", by |-> None]
                   ELSE [at |-> "lost", by |-> None]
<1>2. TokenMap = [l \in Locks |-> f(l)] /\ TokenMap' = [l \in Locks |-> f(l)']
  BY DEF TokenMap
<1> HIDE DEF f
<1> QED BY <1>1, <1>2

(* A step that moves one token and leaves the others is one of LockToken.  *)
LEMMA OneMoves ==
  ASSUME NEW l \in Locks,
         \A m \in Locks : m # l => OneToken(m) /\ OneToken(m)' /\ SamePlaces(m),
         TokenMap'[l] \in Abstract!Moves(TokenMap[l])
  PROVE Abstract!Next
<1>1. \A m \in Locks \ {l} : TokenMap'[m] = TokenMap[m]
  BY SameToken
<1> QED BY <1>1 DEF Abstract!Next

Ones == \A m \in Locks : OneToken(m)
Simulates == UNCHANGED TokenMap \/ Abstract!Next

(* Threads and calls that do not touch the token of m.                     *)
QuietThread(t, m) ==
  \/ Still(t)
  \/ ~InFlush(t, m) /\ ~InFlush(t, m)'

QuietCall(k, m) ==
  \/ call'[k].st = call[k].st /\ call'[k].lid = call[k].lid
  \/ ~InCall(k, m) /\ ~InCall(k, m)'

(* If no thread and no call touches the token of m, its places stay.       *)
LEMMA QuietPlaces ==
  ASSUME NEW m \in Locks, where_is_lock'[m] = where_is_lock[m],
         \A w \in Workers : m \in held'[w] <=> m \in held[w],
         \A c \in Clients : Cached(c, m)' <=> Cached(c, m),
         \A t \in Threads : QuietThread(t, m),
         \A k \in Slots : QuietCall(k, m)
  PROVE SamePlaces(m)
<1>1. \A t \in Threads : InFlush(t, m)' <=> InFlush(t, m)
  BY DEF QuietThread, Still, InFlush
<1>2. \A k \in Slots : /\ InCall(k, m)' <=> InCall(k, m)
                       /\ InCall(k, m) => call'[k].st = call[k].st
  BY DEF QuietCall, InCall
<1> QED BY <1>1, <1>2 DEF SamePlaces

(* The mapping sees every lock before and after a step.                    *)
LEMMA SeenBoth ==
  ASSUME NEW m \in Locks, Ones, Ones'
  PROVE Seen(m) /\ Seen(m)'
BY TokenSeen, TokenSeenNext DEF Ones

(* A step that leaves all places alone is a stutter.                       *)
LEMMA AllQuiet ==
  ASSUME Ones, Ones', \A m \in Locks : SamePlaces(m)
  PROVE Simulates
BY NoneMoves DEF Ones, Simulates

(* A step that leaves the places of the other locks moves one token.       *)
LEMMA OthersQuiet ==
  ASSUME Ones, Ones', NEW l \in Locks, \A m \in Locks : m # l => SamePlaces(m),
         TokenMap'[l] \in Abstract!Moves(TokenMap[l])
  PROVE Simulates
BY OneMoves DEF Ones, Simulates

(* A step that touches no token is a stutter.                              *)
LEMMA QuietStep ==
  ASSUME Ones, Ones', UNCHANGED <<where_is_lock, held>>,
         \A d \in Clients, m \in Locks : Cached(d, m)' <=> Cached(d, m),
         \A t \in Threads, m \in Locks : QuietThread(t, m),
         \A j \in Slots, m \in Locks : QuietCall(j, m)
  PROVE Simulates
<1>1. \A m \in Locks : SamePlaces(m)
  BY QuietPlaces
<1> QED BY <1>1, AllQuiet

(* The client's table no longer says that l is cached: it was not, or it   *)
(* is lost.                                                                *)
LEMMA Forgotten ==
  ASSUME Ones, Ones', UNCHANGED <<where_is_lock, held>>,
         NEW c \in Clients, NEW l \in Locks, ~Cached(c, l)',
         \A d \in Clients, m \in Locks : d # c \/ m # l => (Cached(d, m)' <=> Cached(d, m)),
         \A t \in Threads, m \in Locks : QuietThread(t, m),
         \A j \in Slots, m \in Locks : QuietCall(j, m)
  PROVE Simulates
<1>1. CASE ~Cached(c, l)
  BY <1>1, QuietStep
<1>2. CASE Cached(c, l)
  <2>1. /\ where_is_lock[l] = c
        /\ \A v \in Workers : l \notin held[v]
        /\ \A d \in Clients : Cached(d, l) => d = c
        /\ \A t \in Threads : ~InFlush(t, l)
        /\ \A j \in Slots : ~InCall(j, l)
    BY <1>2, SMT DEF Ones, OneToken
  <2>2. Nowhere(l)'
    <3>1. \A d \in Clients : ~Cached(d, l)'
      BY <2>1
    <3>2. \A t \in Threads : ~InFlush(t, l)'
      BY <2>1 DEF QuietThread, Still, InFlush
    <3>3. \A j \in Slots : ~InCall(j, l)'
      BY <2>1 DEF QuietCall, InCall
    <3> QED BY <2>1, <3>1, <3>2, <3>3 DEF Nowhere
  <2>3. TokenMap'[l] = [at |-> "lost", by |-> None]
    BY <2>1, <2>2, SeenBoth, Names, ZenonT(40) DEF Seen
  <2>4. TokenMap[l] = [at |-> "cached", by |-> c]
    BY <1>2, SeenBoth, ZenonT(40) DEF Seen
  <2>5. \A m \in Locks : m # l => SamePlaces(m)
    BY QuietPlaces
  <2> QED BY <2>3, <2>4, <2>5, Moves, OthersQuiet
<1> QED BY <1>1, <1>2

(* acquire() finds the lock cached, waits, or asks the server.             *)
LEMMA AcquireToken ==
  ASSUME IInv, Ones, Ones', NEW w \in Workers, NEW l \in Locks, Acquire(w, l),
         UNCHANGED serverVars
  PROVE Simulates
<1> DEFINE c == ClientOf[w]
<1>0. /\ CallsTypeOK /\ ClientTypeOK /\ w \in Threads /\ c \in Clients
      /\ where_is_lock' = where_is_lock /\ pc[w] # "flush"
  BY Names DEF IInv, TypeOK, serverVars, Acquire
<1>1. \A t \in Threads, m \in Locks : QuietThread(t, m)
  <2>1. \A p \in {"idle", "waiting", "acquiring"} : \A x :
          GoTo(w, p, x) => /\ pc'[w] # "flush"
                           /\ \A t \in Threads : t # w => Still(t)
    BY <1>0 DEF GoTo, Still, ClientTypeOK
  <2>2. /\ pc'[w] # "flush"
        /\ \A t \in Threads : t # w => Still(t)
    BY <2>1 DEF Acquire
  <2> QED BY <1>0, <2>2 DEF QuietThread, InFlush
<1>2. CASE /\ lockstate_map[c][l] = "FREE"
           /\ SetLock(c, l, "LOCKED")
           /\ held' = [held EXCEPT ![w] = @ \cup {l}]
           /\ UNCHANGED call
  <2>1. \A d \in Clients, m \in Locks :
          lockstate_map'[d][m] = IF d = c /\ m = l THEN "LOCKED" ELSE lockstate_map[d][m]
    BY <1>0, <1>2, SetLockMoves, SMT DEF LockStates
  <2>2. /\ l \in held'[w]
        /\ \A v \in Workers, m \in Locks : m # l => (m \in held'[v] <=> m \in held[v])
    BY <1>0, <1>2 DEF ClientTypeOK
  <2>3. ASSUME NEW m \in Locks, m # l PROVE SamePlaces(m)
    <3>1. \A d \in Clients : Cached(d, m)' <=> Cached(d, m)
      BY <2>1, <2>3 DEF Cached
    <3>2. \A k \in Slots : QuietCall(k, m)
      BY <1>2 DEF QuietCall
    <3> QED BY <1>0, <1>1, <2>2, <2>3, <3>1, <3>2, QuietPlaces
  <2>4. /\ TokenMap[l] = [at |-> "cached", by |-> ClientOf[w]]
        /\ TokenMap'[l] = [at |-> "held", by |-> w]
    BY <1>0, <1>2, <2>2, SeenBoth, ZenonT(40) DEF Seen, Cached
  <2> QED BY <2>3, <2>4, Moves, OthersQuiet
<1>3. CASE UNCHANGED <<lockstate_map, held, call>>
  BY <1>0, <1>1, <1>3, QuietStep DEF Cached, QuietCall
<1>4. CASE /\ lockstate_map[c][l] \in {"ABSENT", "NONE"}
           /\ SetLock(c, l, "NONE")
           /\ Send(w, "acquire", l)
           /\ UNCHANGED held
  <2>1. \A d \in Clients, m \in Locks :
          lockstate_map'[d][m] = IF d = c /\ m = l THEN "NONE" ELSE lockstate_map[d][m]
    BY <1>0, <1>4, SetLockMoves, SMTT(20) DEF LockStates
  <2>2. \A d \in Clients, m \in Locks : Cached(d, m)' <=> Cached(d, m)
    BY <1>4, <2>1, SMT DEF Cached
  <2>3. \A k \in Slots, m \in Locks : QuietCall(k, m)
    <3> DEFINE r == [st |-> "acquire", lid |-> l, peer |-> None, live |-> TRUE]
    <3>1. PICK k \in Slots : call[k].st = "idle" /\ call' = [call EXCEPT ![k] = r]
      BY <1>0, <1>4, SendSlot, SMT
    <3>2. r.st = "acquire"
      OBVIOUS
    <3> HIDE DEF r
    <3>3. call'[k] = r /\ \A j \in Slots : j # k => call'[j] = call[j]
      BY <1>0, <3>1 DEF CallsTypeOK
    <3> QED BY <3>1, <3>2, <3>3, SMTT(20) DEF QuietCall, InCall
  <2> QED BY <1>0, <1>1, <1>4, <2>2, <2>3, QuietStep
<1> QED BY <1>2, <1>3, <1>4 DEF Acquire

(* The reply to a remote acquire: the lock is taken, or the client waits,  *)
(* and forgets a cached lock if it has one.                                *)
LEMMA AcquireReplyToken ==
  ASSUME IInv, Ones, Ones', NEW k \in Slots, AcquireReply(k), UNCHANGED serverVars
  PROVE Simulates
<1> DEFINE w == Caller(k)
           c == ClientOf[w]
<1>0. /\ CallsTypeOK /\ ClientTypeOK /\ w \in Threads /\ c \in Clients
      /\ w \in Workers /\ c = Source(k)
      /\ where_is_lock' = where_is_lock
      /\ call[k].st \in {"OK", "RETRY", "RPCERR"} /\ CallFits(k) /\ Consume(k)
  BY Names DEF IInv, TypeOK, serverVars, AcquireReply, CallsFit
<1>1. pc[w] = "acquiring" /\ arg[w] \in Locks /\ call[k].lid = arg[w]
  BY <1>0 DEF CallFits, Replies, AcquireCalls
<1>l. PICK l \in Locks : l = arg[w] /\ call[k].lid = l
  BY <1>1
<1>2. /\ call'[k].st = "idle"
      /\ \A j \in Slots : j # k => call'[j] = call[j]
  BY <1>0, CallFields DEF Consume, CallsTypeOK
<1>3. \A j \in Slots, m \in Locks : QuietCall(j, m) \/ (j = k /\ m = l /\ call[k].st = "OK")
  BY <1>0, <1>2, <1>l DEF QuietCall, InCall
<1>4. \A t \in Threads, m \in Locks : QuietThread(t, m)
  <2>1. \A p \in {"idle", "waiting", "retest"} : \A x :
          GoTo(w, p, x) => /\ pc'[w] # "flush"
                           /\ \A t \in Threads : t # w => Still(t)
    BY <1>0, ZenonT(40) DEF GoTo, Still, ClientTypeOK
  <2>2. /\ pc'[w] # "flush"
        /\ \A t \in Threads : t # w => Still(t)
    BY <2>1 DEF AcquireReply
  <2> QED BY <1>1, <2>2 DEF QuietThread, InFlush
<1>5. CASE call[k].st = "OK"
  <2>0. SetLock(c, l, "LOCKED") /\ held' = [held EXCEPT ![w] = @ \cup {l}]
    BY <1>5, <1>l DEF AcquireReply
  <2>1. \A d \in Clients, m \in Locks :
          lockstate_map'[d][m] = IF d = c /\ m = l THEN "LOCKED" ELSE lockstate_map[d][m]
    BY <1>0, <2>0, SetLockMoves, SMT DEF LockStates
  <2>2. /\ l \in held'[w]
        /\ \A v \in Workers, m \in Locks : m # l => (m \in held'[v] <=> m \in held[v])
    BY <1>0, <2>0 DEF ClientTypeOK
  <2>3. ASSUME NEW m \in Locks, m # l PROVE SamePlaces(m)
    <3>1. \A d \in Clients : Cached(d, m)' <=> Cached(d, m)
      BY <2>1, <2>3 DEF Cached
    <3>2. \A j \in Slots : QuietCall(j, m)
      BY <1>3, <2>3, Z3
    <3> QED BY <1>0, <1>4, <2>2, <2>3, <3>1, <3>2, QuietPlaces
  <2>4. TokenMap'[l] = [at |-> "held", by |-> w]
    BY <1>0, <2>2, SeenBoth, ZenonT(40) DEF Seen
  <2>5. TokenMap[l] = [at |-> "granted", by |-> ClientOf[w]]
    <3>1. InCall(k, l)
      BY <1>5, <1>l DEF InCall
    <3>2. TokenMap[l] = [at |-> IF call[k].st = "OK" THEN "granted" ELSE "released",
                         by |-> Source(k)]
      BY <3>1, SeenBoth, ZenonT(40) DEF Seen
    <3> QED BY <1>0, <1>5, <3>2
  <2> QED BY <1>0, <2>3, <2>4, <2>5, Moves, OthersQuiet
<1>6. CASE call[k].st = "RETRY"
  <2>0. SetLock(c, l, "ACQUIRING") /\ held' = held
    BY <1>6, <1>l DEF AcquireReply
  <2>1. \A d \in Clients, m \in Locks :
          lockstate_map'[d][m] = IF d = c /\ m = l THEN "ACQUIRING" ELSE lockstate_map[d][m]
    BY <1>0, <2>0, SetLockMoves, SMT DEF LockStates
  <2>2. \A j \in Slots, m \in Locks : QuietCall(j, m)
    BY <1>3, <1>6
  <2>3. /\ ~Cached(c, l)'
        /\ \A d \in Clients, m \in Locks : d # c \/ m # l => (Cached(d, m)' <=> Cached(d, m))
    BY <1>0, <2>1, ZenonT(40) DEF Cached
  <2> QED BY <1>0, <1>4, <2>0, <2>2, <2>3, Forgotten, SMT
<1>7. CASE call[k].st = "RPCERR"
  <2>1. UNCHANGED <<lockstate_map, held>>
    BY <1>7 DEF AcquireReply
  <2>2. \A j \in Slots, m \in Locks : QuietCall(j, m)
    BY <1>3, <1>7
  <2> QED BY <1>0, <1>4, <2>1, <2>2, QuietStep, Z3 DEF Cached
<1> QED BY <1>0, <1>5, <1>6, <1>7

(* The caller of a remote acquire gives up: a lock already granted is lost.*)
LEMMA AcquireTimesOutToken ==
  ASSUME IInv, Ones, Ones', NEW k \in Slots, AcquireTimesOut(k), UNCHANGED serverVars
  PROVE Simulates
<1> DEFINE w == Caller(k)
<1>0. /\ CallsTypeOK /\ ClientTypeOK /\ w \in Threads /\ w \in Workers
      /\ where_is_lock' = where_is_lock /\ held' = held /\ lockstate_map' = lockstate_map
      /\ Source(k) \in Clients /\ pc[w] = "acquiring"
      /\ pc' = [pc EXCEPT ![w] = "retest"] /\ arg' = arg
      /\ CallFits(k) /\ Abandon(k)
  BY Names DEF IInv, TypeOK, serverVars, AcquireTimesOut, CallsFit
<1>1. /\ call[k].live /\ call[k].lid \in Locks /\ call[k].st \in AcquireCalls
      /\ call[k] \in Call
  BY <1>0 DEF Abandon, CallFits, CallsTypeOK, AcquireCalls
<1>l. PICK l \in Locks : call[k].lid = l
  BY <1>1
<1>2. \A t \in Threads, m \in Locks : QuietThread(t, m)
  <2>1. pc'[w] = "retest" /\ \A t \in Threads : t # w => Still(t)
    BY <1>0 DEF Still, ClientTypeOK
  <2> QED BY <1>0, <2>1 DEF QuietThread, InFlush
<1>3. /\ \A j \in Slots : j # k => call'[j] = call[j]
      /\ call[k].st \in Replies => call'[k].st = "idle"
      /\ call[k].st \notin Replies => call'[k].st = call[k].st /\ call'[k].lid = call[k].lid
  BY <1>0, CallFields DEF Abandon, CallsTypeOK, Changed
<1>4. \A d \in Clients, m \in Locks : Cached(d, m)' <=> Cached(d, m)
  BY <1>0 DEF Cached
<1>5. CASE call[k].st = "OK"
  <2>1. InCall(k, l)
    BY <1>5, <1>l DEF InCall
  <2>2. /\ where_is_lock[l] = Source(k)
        /\ \A v \in Workers : l \notin held[v]
        /\ \A d \in Clients : ~Cached(d, l)
        /\ \A t \in Threads : ~InFlush(t, l)
        /\ \A j \in Slots : InCall(j, l) => j = k
    BY <2>1 DEF Ones, OneToken
  <2>3. call'[k].st = "idle"
    BY <1>3, <1>5 DEF Replies
  <2>4. Nowhere(l)'
    <3>1. \A t \in Threads : ~InFlush(t, l)'
      BY <1>2, <2>2 DEF QuietThread, Still, InFlush
    <3>2. \A j \in Slots : ~InCall(j, l)'
      BY <1>3, <2>2, <2>3 DEF InCall
    <3> QED BY <1>0, <1>4, <2>2, <3>1, <3>2 DEF Nowhere
  <2>5. TokenMap'[l] = [at |-> "lost", by |-> None]
    BY <1>0, <2>2, <2>4, SeenBoth, Names, ZenonT(40) DEF Seen
  <2>6. TokenMap[l] = [at |-> "granted", by |-> Source(k)]
    <3>1. TokenMap[l] = [at |-> IF call[k].st = "OK" THEN "granted" ELSE "released",
                         by |-> Source(k)]
      BY <2>1, SeenBoth, ZenonT(40) DEF Seen
    <3> QED BY <1>5, <3>1
  <2>7. ASSUME NEW m \in Locks, m # l PROVE SamePlaces(m)
    <3>1. \A j \in Slots : QuietCall(j, m)
      BY <1>3, <1>l, <2>3, <2>7 DEF QuietCall, InCall
    <3> QED BY <1>0, <1>2, <1>4, <3>1, QuietPlaces
  <2> QED BY <1>0, <2>5, <2>6, <2>7, Moves, OthersQuiet
<1>6. CASE call[k].st # "OK"
  <2>1. \A j \in Slots, m \in Locks : QuietCall(j, m)
    BY <1>1, <1>3, <1>6 DEF QuietCall, InCall, Replies, AcquireCalls
  <2> QED BY <1>0, <1>2, <1>4, <2>1, QuietStep
<1> QED BY <1>5, <1>6

(* release() keeps the lock in the cache, or starts to give it back.       *)
LEMMA ReleaseToken ==
  ASSUME IInv, Ones, Ones', NEW w \in Workers, NEW l \in Locks, Release(w, l),
         UNCHANGED serverVars
  PROVE Simulates
<1> DEFINE c == ClientOf[w]
<1>0. /\ ClientTypeOK /\ w \in Threads /\ c \in Clients /\ Home(w) = c
      /\ where_is_lock' = where_is_lock /\ pc[w] = "idle" /\ l \in held[w]
      /\ held' = [held EXCEPT ![w] = @ \ {l}] /\ call' = call
  BY Names DEF IInv, TypeOK, serverVars, Release, callVars
<1>1. \A v \in Workers, m \in Locks : m # l => (m \in held'[v] <=> m \in held[v])
  BY <1>0 DEF ClientTypeOK
<1>2. TokenMap[l] = [at |-> "held", by |-> w]
  BY <1>0, SeenBoth, ZenonT(40) DEF Seen
<1>3. \A t \in Threads : \/ Woken(c, l)[t] = pc[t]
                         \/ pc[t] = "waiting" /\ Woken(c, l)[t] = "woken"
  BY <1>0, WokenMoves, SMT
<1>4. \A k \in Slots, m \in Locks : QuietCall(k, m)
  BY <1>0 DEF QuietCall
<1>5. CASE lockstate_map[c][l] = "RELEASING"
  <2>0. /\ SetLock(c, l, "NONE") /\ pc' = [Woken(c, l) EXCEPT ![w] = "flush"]
        /\ arg' = [arg EXCEPT ![w] = l]
    BY <1>5 DEF Release
  <2>1. \A d \in Clients, m \in Locks :
          lockstate_map'[d][m] = IF d = c /\ m = l THEN "NONE" ELSE lockstate_map[d][m]
    BY <1>0, <2>0, SetLockMoves, SMT DEF LockStates
  <2>2. /\ pc'[w] = "flush" /\ arg'[w] = l
        /\ \A t \in Threads : t # w =>
             arg'[t] = arg[t] /\ (pc'[t] = pc[t] \/ (pc[t] # "flush" /\ pc'[t] # "flush"))
    <3>1. pc'[w] = "flush" /\ \A t \in Threads : t # w => pc'[t] = Woken(c, l)[t]
      BY <1>0, <2>0 DEF Woken
    <3>2. arg'[w] = l /\ \A t \in Threads : t # w => arg'[t] = arg[t]
      BY <1>0, <2>0 DEF ClientTypeOK
    <3> QED BY <1>3, <3>1, <3>2
  <2>3. ASSUME NEW m \in Locks, m # l PROVE SamePlaces(m)
    <3>1. \A d \in Clients : Cached(d, m)' <=> Cached(d, m)
      BY <2>1, <2>3 DEF Cached
    <3>2. \A t \in Threads : QuietThread(t, m)
      BY <1>0, <2>2, <2>3 DEF QuietThread, Still, InFlush
    <3> QED BY <1>0, <1>1, <1>4, <2>3, <3>1, <3>2, QuietPlaces
  <2>4. TokenMap'[l] = [at |-> "flush", by |-> ClientOf[w]]
    <3>1. InFlush(w, l)'
      BY <2>2 DEF InFlush
    <3>2. TokenMap'[l] = [at |-> "flush", by |-> Home(w)]
      BY <1>0, <3>1, SeenBoth, ZenonT(40) DEF Seen
    <3> QED BY <1>0, <3>2
  <2> QED BY <1>2, <2>3, <2>4, Moves, OthersQuiet
<1>6. CASE lockstate_map[c][l] # "RELEASING"
  <2>0. SetLock(c, l, "FREE") /\ pc' = Woken(c, l) /\ arg' = arg
    BY <1>6 DEF Release
  <2>1. \A d \in Clients, m \in Locks :
          lockstate_map'[d][m] = IF d = c /\ m = l THEN "FREE" ELSE lockstate_map[d][m]
    BY <1>0, <2>0, SetLockMoves, SMT DEF LockStates
  <2>2. \A t \in Threads, m \in Locks : QuietThread(t, m)
    BY <1>3, <2>0 DEF QuietThread, Still, InFlush
  <2>3. ASSUME NEW m \in Locks, m # l PROVE SamePlaces(m)
    <3>1. \A d \in Clients : Cached(d, m)' <=> Cached(d, m)
      BY <2>1, <2>3, Z3 DEF Cached
    <3> QED BY <1>0, <1>1, <1>4, <2>2, <2>3, <3>1, QuietPlaces
  <2>4. TokenMap'[l] = [at |-> "cached", by |-> ClientOf[w]]
    BY <1>0, <2>1, SeenBoth, ZenonT(40) DEF Seen, Cached
  <2> QED BY <1>2, <2>3, <2>4, Moves, OthersQuiet
<1> QED BY <1>5, <1>6, Z3

(* The flush is over and the release is sent.                              *)
LEMMA SendReleaseToken ==
  ASSUME IInv, Ones, Ones', NEW t \in Threads, SendRelease(t), UNCHANGED serverVars
  PROVE Simulates
<1>0. /\ CallsTypeOK /\ ClientTypeOK /\ arg[t] \in Locks /\ pc[t] = "flush"
      /\ where_is_lock' = where_is_lock /\ held' = held /\ lockstate_map' = lockstate_map
      /\ pc' = [pc EXCEPT ![t] = "releasing"] /\ arg' = arg
      /\ Send(t, "release", arg[t]) /\ Home(t) \in Clients
  BY Names DEF IInv, TypeOK, serverVars, SendRelease, ThreadsFit, ThreadFits
<1>l. PICK l \in Locks : arg[t] = l
  BY <1>0
<1> DEFINE r == [st |-> "release", lid |-> l, peer |-> None, live |-> TRUE]
<1>1. PICK k \in Slots : /\ Caller(k) = t /\ call[k].st = "idle"
                         /\ call' = [call EXCEPT ![k] = r]
  BY <1>0, <1>l, SendSlot, Z3
<1>2. /\ call'[k].st = "release" /\ call'[k].lid = l /\ Source(k) = Home(t)
      /\ \A j \in Slots : j # k => call'[j] = call[j]
  BY <1>0, <1>1, Names, SMT DEF CallsTypeOK
<1> HIDE DEF r
<1>3. pc'[t] = "releasing" /\ \A u \in Threads : u # t => Still(u)
  BY <1>0 DEF Still, ClientTypeOK
<1>4. ASSUME NEW m \in Locks, m # l PROVE SamePlaces(m)
  <2>1. \A j \in Slots : QuietCall(j, m)
    BY <1>1, <1>2, <1>4 DEF QuietCall, InCall
  <2>2. \A u \in Threads : QuietThread(u, m)
    BY <1>3, <1>l, <1>4 DEF QuietThread, InFlush
  <2> QED BY <1>0, <2>1, <2>2, QuietPlaces DEF Cached
<1>5. TokenMap[l] = [at |-> "flush", by |-> Home(t)]
  BY <1>0, <1>l, SeenBoth, ZenonT(40) DEF Seen, InFlush
<1>6. TokenMap'[l] = [at |-> "released", by |-> Home(t)]
  <2>1. InCall(k, l)'
    BY <1>2, Z3 DEF InCall
  <2>2. TokenMap'[l] = [at |-> IF call'[k].st = "OK" THEN "granted" ELSE "released",
                        by |-> Source(k)]
    BY <2>1, SeenBoth, ZenonT(40) DEF Seen
  <2> QED BY <1>2, <2>2
<1> QED BY <1>0, <1>4, <1>5, <1>6, Moves, OthersQuiet

(* A release that returns, or times out, moves no lock.                    *)
LEMMA ReleaseReplyToken ==
  ASSUME IInv, Ones, Ones', NEW k \in Slots, ReleaseReply(k) \/ ReleaseTimesOut(k),
         UNCHANGED serverVars
  PROVE Simulates
<1> DEFINE t == Caller(k)
<1>0. /\ CallsTypeOK /\ ClientTypeOK /\ CallFits(k) /\ t \in Threads
      /\ where_is_lock' = where_is_lock /\ held' = held /\ lockstate_map' = lockstate_map
      /\ AfterRelease(t)
  BY Names DEF IInv, TypeOK, serverVars, CallsFit, ReleaseReply, ReleaseTimesOut
<1>1. pc[t] = "releasing"
  BY <1>0 DEF ReleaseReply, ReleaseTimesOut, CallFits, Replies, AcquireCalls
<1>2. \A u \in Threads, m \in Locks : QuietThread(u, m)
  BY <1>0, <1>1, AfterReleaseMoves DEF QuietThread, Still, InFlush
<1>3. \A j \in Slots, m \in Locks : QuietCall(j, m)
  <2>1. CASE ReleaseReply(k)
    <3>1. /\ call[k].st = "DONE" /\ call'[k].st = "idle"
          /\ \A j \in Slots : j # k => call'[j] = call[j]
      BY <1>0, <2>1, CallFields DEF ReleaseReply, Consume, CallsTypeOK
    <3> QED BY <3>1 DEF QuietCall, InCall
  <2>2. CASE ReleaseTimesOut(k)
    <3>1. Abandon(k)
      BY <2>2 DEF ReleaseTimesOut
    <3>2. call[k].live /\ call[k].st # "OK"
      BY <1>0, <1>1, <3>1 DEF CallFits, Abandon, AcquireCalls
    <3>3. /\ \A j \in Slots : j # k => call'[j] = call[j]
          /\ call[k].st \in Replies => call'[k].st = "idle"
          /\ call[k].st \notin Replies => call'[k].st = call[k].st /\ call'[k].lid = call[k].lid
      BY <1>0, <3>1, CallFields DEF Abandon, CallsTypeOK, Changed
    <3> QED BY <3>2, <3>3 DEF QuietCall, InCall, Replies
  <2> QED BY <2>1, <2>2
<1> QED BY <1>0, <1>2, <1>3, QuietStep DEF Cached

(* give_back() picks a cached lock, and takes it out of the cache.         *)
LEMMA GiveBackCheckToken ==
  ASSUME IInv, Ones, Ones', NEW c \in Clients, NEW l \in Locks, GiveBackCheck(c, l),
         UNCHANGED serverVars
  PROVE Simulates
<1>0. /\ ClientTypeOK /\ c \in Threads /\ pc[c] = "idle"
      /\ where_is_lock' = where_is_lock /\ held' = held /\ lockstate_map' = lockstate_map
      /\ call' = call /\ GoTo(c, "giveback", l)
  BY Names DEF IInv, TypeOK, serverVars, callVars, GiveBackCheck
<1>1. pc'[c] = "giveback" /\ \A t \in Threads : t # c => Still(t)
  BY <1>0 DEF GoTo, Still, ClientTypeOK
<1>2. \A t \in Threads, m \in Locks : QuietThread(t, m)
  BY <1>0, <1>1 DEF QuietThread, InFlush
<1> QED BY <1>0, <1>2, QuietStep DEF Cached, QuietCall

(* give_back() takes a FREE lock out of the cache, to flush it.            *)
LEMMA GiveBackTakeToken ==
  ASSUME IInv, Ones, Ones', ~overtaken', NEW c \in Clients, GiveBackTake(c),
         UNCHANGED serverVars
  PROVE Simulates
<1>0. /\ ClientTypeOK /\ c \in Threads /\ Home(c) = c /\ pc[c] = "giveback"
      /\ arg[c] \in Locks /\ lockstate_map[c][arg[c]] = "FREE"
      /\ where_is_lock' = where_is_lock /\ held' = held /\ call' = call
      /\ SetLock(c, arg[c], "NONE") /\ pc' = [pc EXCEPT ![c] = "flush"] /\ arg' = arg
  BY Names DEF IInv, TypeOK, serverVars, callVars, GiveBackTake, ThreadsFit, ThreadFits
<1>l. PICK l \in Locks : arg[c] = l
  BY <1>0
<1>1. \A d \in Clients, m \in Locks :
        lockstate_map'[d][m] = IF d = c /\ m = l THEN "NONE" ELSE lockstate_map[d][m]
  BY <1>0, <1>l, SetLockMoves, SMT DEF LockStates
<1>2. pc'[c] = "flush" /\ \A t \in Threads : t # c => Still(t)
  BY <1>0 DEF Still, ClientTypeOK
<1>3. ASSUME NEW m \in Locks, m # l PROVE SamePlaces(m)
  <2>1. \A d \in Clients : Cached(d, m)' <=> Cached(d, m)
    BY <1>1, <1>3 DEF Cached
  <2>2. \A t \in Threads : QuietThread(t, m)
    BY <1>0, <1>2, <1>3, <1>l DEF QuietThread, InFlush
  <2>3. \A j \in Slots : QuietCall(j, m)
    BY <1>0 DEF QuietCall
  <2> QED BY <1>0, <2>1, <2>2, <2>3, QuietPlaces
<1>4. TokenMap[l] = [at |-> "cached", by |-> c]
  BY <1>0, <1>l, SeenBoth, ZenonT(40) DEF Seen, Cached
<1>5. TokenMap'[l] = [at |-> "flush", by |-> c]
  <2>1. InFlush(c, l)'
    BY <1>0, <1>2, <1>l, Z3 DEF InFlush
  <2>2. TokenMap'[l] = [at |-> "flush", by |-> Home(c)]
    BY <1>0, <2>1, SeenBoth DEF Seen
  <2> QED BY <1>0, <2>2
<1> QED BY <1>3, <1>4, <1>5, Moves, OthersQuiet

(* The handler of call k goes on, or returns: no other call changes.       *)
LEMMA ProceedCall ==
  ASSUME CallsTypeOK, NEW k \in Slots, NEW st, NEW p, Proceed(k, st, p)
  PROVE call'[k].st = st /\ \A j \in Slots : j # k => call'[j] = call[j]
BY DEF Proceed, Changed, CallsTypeOK

(* A reply, with and without a caller that still waits.                    *)
LEMMA ReplyCall ==
  ASSUME CallsTypeOK, NEW k \in Slots, NEW st, Reply(k, st)
  PROVE /\ \A j \in Slots : j # k => call'[j] = call[j]
        /\ call[k].live => call'[k].st = st /\ call'[k].lid = call[k].lid
        /\ ~call[k].live => call'[k].st = "idle"
BY CallFields DEF Reply, Changed, CallsTypeOK

(* The server grants a lock that nobody has; if nobody waits for the reply *)
(* the lock is lost.                                                       *)
LEMMA ServerAcquireToken ==
  ASSUME IInv, Ones, Ones', NEW k \in Slots, ServerAcquire(k), UNCHANGED clientVars
  PROVE Simulates
<1> DEFINE c == Source(k)
<1>0. /\ CallsTypeOK /\ ClientTypeOK /\ ServerTypeOK /\ c \in Clients /\ c # None
      /\ call[k].st = "acquire" /\ call[k].lid \in Locks
      /\ lockstate_map' = lockstate_map /\ held' = held /\ pc' = pc /\ arg' = arg
  BY Names, ZenonT(40) DEF IInv, TypeOK, clientVars, ServerAcquire, CallsFit, CallFits
<1>l. PICK l \in Locks : call[k].lid = l
  BY <1>0
<1>1. /\ \A d \in Clients, m \in Locks : Cached(d, m)' <=> Cached(d, m)
      /\ \A t \in Threads, m \in Locks : QuietThread(t, m)
  BY <1>0 DEF Cached, QuietThread, Still
<1>2. CASE where_is_lock[l] = None
  <2>0. where_is_lock' = [where_is_lock EXCEPT ![l] = c] /\ Reply(k, "OK")
    BY <1>2, <1>l DEF ServerAcquire
  <2>1. /\ where_is_lock'[l] = c
        /\ \A m \in Locks : m # l => where_is_lock'[m] = where_is_lock[m]
    BY <1>0, <2>0 DEF ServerTypeOK
  <2>2. /\ \A j \in Slots : j # k => call'[j] = call[j]
        /\ call[k].live => call'[k].st = "OK" /\ call'[k].lid = l
        /\ ~call[k].live => call'[k].st = "idle"
    BY <1>0, <1>l, <2>0, ReplyCall
  <2>3. ASSUME NEW m \in Locks, m # l PROVE SamePlaces(m)
    <3>1. \A j \in Slots : QuietCall(j, m)
      BY <1>0, <2>2, <2>3 DEF QuietCall, InCall
    <3> QED BY <1>0, <1>1, <2>1, <2>3, <3>1, QuietPlaces
  <2>4. Nowhere(l)
    <3>1. OneToken(l)
      BY  DEF Ones
    <3>2. /\ \A w \in Workers : ClientOf[w] # None
          /\ \A d \in Clients : d # None
          /\ \A t \in Threads : Home(t) # None
          /\ \A j \in Slots : Source(j) # None
      BY Names, SMT
    <3> QED BY <1>2, <3>1, <3>2 DEF OneToken, Nowhere
  <2>5. TokenMap[l] = [at |-> "server", by |-> None]
    BY <1>2, <2>4, SeenBoth DEF Seen
  <2>6. CASE call[k].live
    <3>1. InCall(k, l)'
      BY <2>2, <2>6 DEF InCall
    <3>2. TokenMap'[l] = [at |-> IF call'[k].st = "OK" THEN "granted" ELSE "released",
                          by |-> Source(k)]
      BY <3>1, SeenBoth, ZenonT(40) DEF Seen
    <3>3. TokenMap'[l] = [at |-> "granted", by |-> c]
      BY <2>2, <2>6, <3>2
    <3> QED BY <1>0, <2>3, <2>5, <3>3, Moves, OthersQuiet, ZenonT(40)
  <2>7. CASE ~call[k].live
    <3>1. Nowhere(l)'
      <4>1. \A j \in Slots : ~InCall(j, l)'
        BY <2>2, <2>4, <2>7, Z3 DEF Nowhere, InCall
      <4> QED BY <1>0, <1>1, <2>4, <4>1 DEF Nowhere, InFlush
    <3>2. TokenMap'[l] = [at |-> "lost", by |-> None]
      BY <1>0, <2>1, <3>1, SeenBoth DEF Seen
    <3> QED BY <2>3, <2>5, <3>2, Moves, OthersQuiet
  <2> QED BY <2>6, <2>7
<1>3. CASE where_is_lock[l] # None
  <2>0. where_is_lock' = where_is_lock /\ (Proceed(k, "owner", None) \/ Reply(k, "RETRY"))
    BY <1>3, <1>l DEF ServerAcquire
  <2>1. /\ \A j \in Slots : j # k => call'[j] = call[j]
        /\ call'[k].st \in {"owner", "RETRY", "idle"}
    BY <1>0, <2>0, ReplyCall, ProceedCall, ZenonT(40)
  <2>2. \A j \in Slots, m \in Locks : QuietCall(j, m)
    BY <1>0, <2>1, Z3 DEF QuietCall, InCall
  <2> QED BY <1>0, <1>1, <2>0, <2>2, QuietStep
<1> QED BY <1>2, <1>3

(* A released lock is back at the server.                                  *)
LEMMA ServerReleaseToken ==
  ASSUME IInv, Ones, Ones', NEW k \in Slots, ServerRelease(k), UNCHANGED clientVars
  PROVE Simulates
<1> DEFINE c == Source(k)
<1>0. /\ CallsTypeOK /\ ClientTypeOK /\ ServerTypeOK /\ c \in Clients
      /\ call[k].st = "release" /\ call[k].lid \in Locks
      /\ lockstate_map' = lockstate_map /\ held' = held /\ pc' = pc /\ arg' = arg
  BY Names DEF IInv, TypeOK, clientVars, ServerRelease, CallsFit, CallFits
<1>l. PICK l \in Locks : call[k].lid = l
  BY <1>0
<1>1. /\ \A d \in Clients, m \in Locks : Cached(d, m)' <=> Cached(d, m)
      /\ \A t \in Threads, m \in Locks : QuietThread(t, m)
  BY <1>0 DEF Cached, QuietThread, Still
<1>2. /\ where_is_lock'[l] = None
      /\ \A m \in Locks : m # l => where_is_lock'[m] = where_is_lock[m]
  BY <1>0, <1>l DEF ServerRelease, ServerTypeOK
<1>3. /\ \A j \in Slots : j # k => call'[j] = call[j]
      /\ call'[k].st \in {"retry", "DONE", "idle"}
  <2>1. Proceed(k, "retry", Head(who_waiting_lock[call[k].lid])) \/ Reply(k, "DONE")
    BY DEF ServerRelease
  <2> QED BY <1>0, <2>1, ReplyCall, ProceedCall, Z3
<1>4. InCall(k, l)
  BY <1>0, <1>l DEF InCall
<1>5. TokenMap[l] = [at |-> "released", by |-> c]
  <2>1. TokenMap[l] = [at |-> IF call[k].st = "OK" THEN "granted" ELSE "released",
                       by |-> Source(k)]
    BY <1>4, SeenBoth, ZenonT(40) DEF Seen
  <2> QED BY <1>0, <2>1
<1>6. Nowhere(l)'
  <2>1. /\ \A v \in Workers : l \notin held[v]
        /\ \A d \in Clients : ~Cached(d, l)
        /\ \A t \in Threads : ~InFlush(t, l)
        /\ \A j \in Slots : InCall(j, l) => j = k
    BY <1>4 DEF Ones, OneToken
  <2>2. \A j \in Slots : ~InCall(j, l)'
    BY <1>3, <2>1 DEF InCall
  <2>3. \A t \in Threads : ~InFlush(t, l)'
    BY <1>0, <2>1, Z3 DEF InFlush
  <2> QED BY <1>0, <1>1, <2>1, <2>2, <2>3 DEF Nowhere
<1>7. TokenMap'[l] = [at |-> "server", by |-> None]
  BY <1>2, <1>6, SeenBoth DEF Seen
<1>8. ASSUME NEW m \in Locks, m # l PROVE SamePlaces(m)
  <2>1. \A j \in Slots : QuietCall(j, m)
    BY <1>3, <1>8, <1>l DEF QuietCall, InCall
  <2> QED BY <1>0, <1>1, <1>2, <1>8, <2>1, QuietPlaces
<1> QED BY <1>0, <1>5, <1>7, <1>8, Moves, OthersQuiet, ZenonT(40)

(* The handlers' other steps move no lock.                                 *)
LEMMA ServerOtherToken ==
  ASSUME IInv, Ones, Ones', NEW k \in Slots, UNCHANGED clientVars,
         ServerReadOwner(k) \/ ServerRevokeFails(k) \/ ServerRetryTimesOut(k)
  PROVE Simulates
<1>0. /\ CallsTypeOK /\ where_is_lock' = where_is_lock
      /\ lockstate_map' = lockstate_map /\ held' = held /\ pc' = pc /\ arg' = arg
      /\ call[k].st \in {"owner", "revoke", "retry"}
      /\ \/ Proceed(k, "revoke", where_is_lock[call[k].lid])
         \/ Reply(k, "RPCERR") \/ Reply(k, "DONE")
  BY  DEF IInv, TypeOK, clientVars, serverVars, ServerReadOwner, ServerRevokeFails,
         ServerRetryTimesOut
<1>1. /\ \A j \in Slots : j # k => call'[j] = call[j]
      /\ call'[k].st \in {"revoke", "RPCERR", "DONE", "idle"}
  BY <1>0, ReplyCall, ProceedCall, Z3
<1>2. \A j \in Slots, m \in Locks : QuietCall(j, m)
  BY <1>0, <1>1 DEF QuietCall, InCall
<1> QED BY <1>0, <1>2, QuietStep DEF Cached, QuietThread, Still

(* The callbacks: a revoke marks a lock in use, a retry wakes the sleepers *)
(* and makes the client forget a cached lock.                              *)
LEMMA RevokeToken ==
  ASSUME IInv, Ones, Ones', NEW c \in Clients, NEW l \in Locks, revoke_handler(c, l),
         where_is_lock' = where_is_lock,
         \A j \in Slots, m \in Locks : QuietCall(j, m)
  PROVE Simulates
<1>0. /\ ClientTypeOK /\ UNCHANGED <<pc, arg, held>>
  BY  DEF IInv, TypeOK, revoke_handler
<1>1. \A d \in Clients, m \in Locks : Cached(d, m)' <=> Cached(d, m)
  <2> DEFINE s == IF lockstate_map[c][l] = "LOCKED" THEN "RELEASING"
                  ELSE IF lockstate_map[c][l] = "ABSENT" THEN "NONE"
                  ELSE lockstate_map[c][l]
  <2>1. SetLock(c, l, s) /\ s \in LockStates /\ (s = "FREE" <=> lockstate_map[c][l] = "FREE")
    BY <1>0 DEF revoke_handler, LockStates, ClientTypeOK
  <2> HIDE DEF s
  <2>2. \A d \in Clients, m \in Locks :
          lockstate_map'[d][m] = IF d = c /\ m = l THEN s ELSE lockstate_map[d][m]
    BY <1>0, <2>1, SetLockMoves, SMT
  <2> QED BY <2>1, <2>2, ZenonT(40) DEF Cached
<1> QED BY <1>0, <1>1, QuietStep DEF QuietThread, Still

(* A client that is told to retry moves no token.                          *)
LEMMA RetryToken ==
  ASSUME IInv, Ones, Ones', NEW c \in Clients, NEW l \in Locks, retry_handler(c, l),
         where_is_lock' = where_is_lock,
         \A j \in Slots, m \in Locks : QuietCall(j, m)
  PROVE Simulates
<1>0. ClientTypeOK /\ UNCHANGED <<arg, held>>
  BY  DEF IInv, TypeOK, retry_handler
<1>1. CASE lockstate_map[c][l] = "ABSENT"
  BY <1>0, <1>1, QuietStep DEF QuietThread, Still, Cached, retry_handler
<1>2. CASE lockstate_map[c][l] # "ABSENT"
  <2>1. SetLock(c, l, "NONE") /\ pc' = Woken(c, l)
    BY <1>2 DEF retry_handler
  <2>2. \A d \in Clients, m \in Locks :
          lockstate_map'[d][m] = IF d = c /\ m = l THEN "NONE" ELSE lockstate_map[d][m]
    BY <1>0, <2>1, SetLockMoves, Z3T(30) DEF LockStates
  <2>3. \A t \in Threads, m \in Locks : QuietThread(t, m)
    <3>1. \A t \in Threads : pc'[t] = pc[t] \/ (pc[t] = "waiting" /\ pc'[t] = "woken")
      BY <1>0, <2>1, WokenMoves, ZenonT(40)
    <3> QED BY <1>0, <3>1 DEF QuietThread, Still, InFlush
  <2>4. /\ ~Cached(c, l)'
        /\ \A d \in Clients, m \in Locks : d # c \/ m # l => (Cached(d, m)' <=> Cached(d, m))
    BY <2>2, SMT DEF Cached
  <2> QED BY <1>0, <2>3, <2>4, Forgotten
<1> QED BY <1>1, <1>2

(* The callbacks move no token.                                            *)
LEMMA CallbackToken ==
  ASSUME IInv, Ones, Ones', CallbackStep
  PROVE Simulates
<1>0. CallsTypeOK /\ \A k \in Slots : CallFits(k) /\ call[k] \in Call
  BY DEF IInv, TypeOK, CallsFit, CallsTypeOK
<1>1. ASSUME NEW k \in Slots, Revoke(k) PROVE Simulates
  <2>1. /\ call[k].st = "revoke" /\ call[k].peer # None /\ Reply(k, "RETRY")
        /\ where_is_lock' = where_is_lock /\ revoke_handler(call[k].peer, call[k].lid)
    BY <1>1 DEF Revoke, ServerRevokeOK, serverVars
  <2>2. call[k].peer \in Clients /\ call[k].lid \in Locks
    BY <1>0, <2>1, CallFields, ZenonT(40) DEF CallFits
  <2>3. \A j \in Slots, m \in Locks : QuietCall(j, m)
    BY <1>0, <2>1, ReplyCall, SMTT(20) DEF QuietCall, InCall
  <2> QED BY <2>1, <2>2, <2>3, RevokeToken
<1>2. ASSUME NEW k \in Slots, Retry(k) PROVE Simulates
  <2>1. /\ call[k].st = "retry" /\ Reply(k, "DONE")
        /\ where_is_lock' = where_is_lock /\ retry_handler(call[k].peer, call[k].lid)
    BY <1>2 DEF Retry, ServerRetryReturns
  <2>2. call[k].peer \in Clients /\ call[k].lid \in Locks
    BY <1>0, <2>1 DEF CallFits
  <2>3. \A j \in Slots, m \in Locks : QuietCall(j, m)
    BY <1>0, <2>1, ReplyCall, ZenonT(40) DEF QuietCall, InCall
  <2> QED BY <2>1, <2>2, <2>3, RetryToken
<1>3. ASSUME NEW c \in Clients, NEW l \in Locks, LateRevoke(c, l) \/ LateRetry(c, l)
      PROVE Simulates
  <2>1. /\ revoke_handler(c, l) \/ retry_handler(c, l)
        /\ call' = call /\ where_is_lock' = where_is_lock
    BY <1>3 DEF LateRevoke, LateRetry, serverVars
  <2>2. \A j \in Slots, m \in Locks : QuietCall(j, m)
    BY <2>1 DEF QuietCall
  <2> QED BY <2>1, <2>2, RevokeToken, RetryToken
<1> QED BY <1>1, <1>2, <1>3 DEF CallbackStep
-----------------------------------------------------------------------------
(* The history variable is never reset.                                    *)
LEMMA OvertakenStays ==
  ASSUME Next, ~overtaken'
  PROVE ~overtaken
<1>1. CASE ClientStep
  <2>1. ASSUME NEW w \in Workers, NEW l \in Locks, Acquire(w, l)
        PROVE overtaken' = overtaken
    BY <2>1 DEF Acquire
  <2>2. ASSUME NEW w \in Workers, NEW l \in Locks, Release(w, l)
        PROVE overtaken' = overtaken
    BY <2>2 DEF Release
  <2>3. ASSUME NEW t \in Threads, SendRelease(t) PROVE overtaken' = overtaken
    BY <2>3 DEF SendRelease
  <2>4. ASSUME NEW k \in Slots, AcquireReply(k) \/ ReleaseReply(k)
        PROVE overtaken' = overtaken
    BY <2>4 DEF AcquireReply, ReleaseReply
  <2>5. ASSUME NEW k \in Slots, AcquireTimesOut(k) \/ ReleaseTimesOut(k)
        PROVE overtaken' = overtaken
    BY <2>5 DEF AcquireTimesOut, ReleaseTimesOut
  <2>6. ASSUME NEW c \in Clients, GiveBackTake(c) PROVE ~overtaken
    BY <2>6 DEF GiveBackTake
  <2>7. ASSUME NEW c \in Clients, NEW l \in Locks, GiveBackCheck(c, l)
        PROVE overtaken' = overtaken
    BY <2>7 DEF GiveBackCheck
  <2> QED BY <1>1, <2>1, <2>2, <2>3, <2>4, <2>5, <2>6, <2>7 DEF ClientStep
<1>2. CASE ServerStep
  BY <1>2 DEF ServerStep, clientVars
<1>3. CASE CallbackStep
  <2>1. \A c, l : revoke_handler(c, l) \/ retry_handler(c, l) => overtaken' = overtaken
    BY  DEF revoke_handler, retry_handler
  <2> QED BY <1>3, <2>1 DEF CallbackStep, Revoke, Retry, LateRevoke, LateRetry
<1> QED BY <1>1, <1>2, <1>3 DEF Next

(* Every step is one of LockToken or a stutter, unless it overtakes.       *)
LEMMA StepSimulates ==
  IInv /\ IInv' /\ [Next]_vars => [~overtaken' => Simulates]_vars
<1> SUFFICES ASSUME IInv, IInv', Next, ~overtaken' PROVE Simulates
  OBVIOUS
<1>1. Ones /\ Ones'
  BY OvertakenStays DEF IInv, Tokens, Ones
<1>2. CASE ClientStep
  BY <1>1, <1>2, AcquireToken, ReleaseToken, SendReleaseToken, AcquireReplyToken,
     ReleaseReplyToken, AcquireTimesOutToken, GiveBackTakeToken, GiveBackCheckToken
     DEF ClientStep
<1>3. CASE ServerStep
  BY <1>1, <1>3, ServerAcquireToken, ServerReleaseToken, ServerOtherToken DEF ServerStep
<1>4. CASE CallbackStep
  BY <1>1, <1>4, CallbackToken
<1> QED BY <1>2, <1>3, <1>4 DEF Next

(* At first every token is at the server.                                  *)
LEMMA TokensInitially == Init => Abstract!Init
<1> SUFFICES ASSUME Init PROVE TokenMap = [l \in Locks |-> [at |-> "server", by |-> None]]
  BY DEF Abstract!Init, Abstract!AtServer
<1>1. ASSUME NEW l \in Locks
      PROVE where_is_lock[l] = None /\ \A p \in Place : ~HasToken(p, l)
  <2>1. /\ where_is_lock[l] = None
        /\ \A w \in Workers : l \notin held[w]
        /\ \A c \in Clients : lockstate_map[c][l] # "FREE"
    BY DEF Init, ServerInit, ClientInit
  <2>2. \A t \in Threads : pc[t] # "flush"
    BY DEF Init, ClientInit
  <2>3. \A k \in Slots : call[k].st = "idle"
    BY CallFields DEF Init, CallsInit
  <2>4. \A p \in Place : ~HasToken(p, l)
    BY <2>1, <2>2, <2>3, Holder, ZenonT(40) DEF Cached, InFlush, InCall
  <2> QED BY <2>1, <2>4
<1> QED BY <1>1 DEF TokenMap

(* ImplementsLockToken: the caching protocol, its timeouts and its late    *)
(* callbacks included, moves each lock only as LockToken allows until a    *)
(* give_back() is overtaken.                                               *)
THEOREM Refines == Spec => ImplementsLockToken
<1>1. [Next]_vars /\ IInv /\ IInv' => [~overtaken' => UNCHANGED TokenMap \/ Abstract!Next]_vars
  BY StepSimulates DEF Simulates
<1> QED BY <1>1, TokensInitially, Invariant, PTL DEF Spec, ImplementsLockToken
-----------------------------------------------------------------------------
(* Whether the server remembers that client c is to get lock l: it is on   *)
(* the waiting list, or has been taken off it and the retry is on its way. *)
RetryTo(k, c, l) ==
  call[k].st = "retry" /\ call[k].peer = c /\ call[k].lid = l
InQueue(c, l) ==
  Waits(who_waiting_lock[l], c) \/ \E k \in Slots : RetryTo(k, c, l)

(* The server has told a thread of c to wait for l, or is about to.        *)
Told(k, c, l) ==
  /\ call[k].st \in {"owner", "revoke", "RETRY"}
  /\ Source(k) = c /\ call[k].lid = l

InUse(c, l) == lockstate_map[c][l] \in {"LOCKED", "RELEASING"}
Awaits(w, c, l) == w \in Workers /\ ClientOf[w] = c /\ arg[w] = l

(* Nobody has given up on a call: every call has a caller, and the server's*)
(* mutex is held from the release of a lock to the end of the retry.       *)
CalmCall(k) ==
  /\ call[k].st # "idle" => call[k].live
  /\ call[k].st # "RPCERR"
  /\ call[k].st = "retry" => /\ serverlock_mutex
                             /\ where_is_lock[call[k].lid] = None
                             /\ \A j \in Slots : call[j].st = "retry" => j = k

(* A thread that asks the server has the mutex of its client to itself, so *)
(* the lock's state is still the NONE it saw.                              *)
CalmWorker(w) ==
  /\ pc[w] # "retest"
  /\ pc[w] = "acquiring" =>
       /\ lockmap_mutex[ClientOf[w]]
       /\ lockstate_map[ClientOf[w]][arg[w]] = "NONE"
       /\ \A v \in Workers :
            pc[v] = "acquiring" /\ ClientOf[v] = ClientOf[w] => v = w

(* What the client's state of a lock says.                                 *)
HeldHere(c, l) == \E w \in Workers : ClientOf[w] = c /\ l \in held[w]

CalmState(c, l) ==
  /\ InUse(c, l) <=> HeldHere(c, l)
  /\ \A w \in Workers : Awaits(w, c, l) /\ pc[w] = "waiting" =>
       InUse(c, l) \/ lockstate_map[c][l] = "ACQUIRING"
  /\ lockstate_map[c][l] = "ACQUIRING" => InQueue(c, l)

(* A client is in the queue once, and has a thread that waits for the lock *)
(* or will when it gets the reply.                                         *)
CalmQueue(c, l) ==
  /\ \A k \in Slots : Told(k, c, l) => InQueue(c, l)
  /\ \A k \in Slots : RetryTo(k, c, l) => ~Waits(who_waiting_lock[l], c)
  /\ InQueue(c, l) =>
       \/ /\ lockstate_map[c][l] = "ACQUIRING"
          /\ \E w \in Workers : Awaits(w, c, l) /\ pc[w] \in {"waiting", "woken"}
       \/ \E k \in Slots : Told(k, c, l)

NoTwice(q) == \A i, j \in 1..Len(q) : q[i] = q[j] => i = j

(* Someone is about to ask for l: a client is being told to retry, the     *)
(* request is sent, or a thread that was told is awake and finds neither   *)
(* the lock nor its client in the queue.                                   *)
Asking(l) ==
  \/ \E k \in Slots : call[k].st \in {"retry", "acquire"} /\ call[k].lid = l
  \/ \E w \in Workers : /\ pc[w] = "woken" /\ arg[w] = l
                        /\ lockstate_map[ClientOf[w]][l] = "NONE"
                        /\ ~InQueue(ClientOf[w], l)

Somewhere(l) ==
  \/ \E w \in Workers : l \in held[w]
  \/ \E c \in Clients : Cached(c, l)
  \/ \E t \in Threads : InFlush(t, l)
  \/ \E k \in Slots : InCall(k, l)

CalmLock(l) ==
  /\ NoTwice(who_waiting_lock[l])
  /\ who_waiting_lock[l] # <<>> /\ where_is_lock[l] = None => Asking(l)
  /\ where_is_lock[l] # None => Somewhere(l)

NoLate == \A x \in Callbacks \X Clients \X Locks : late[x] = 0

Steady ==
  /\ NoLate
  /\ \A k \in Slots : CalmCall(k)
  /\ \A w \in Workers : CalmWorker(w)
  /\ \A c \in Clients, l \in Locks : CalmState(c, l) /\ CalmQueue(c, l)
  /\ \A l \in Locks : CalmLock(l)

(* What holds as long as every call is answered, besides IInv.             *)
Calm == ~overtaken /\ timeouts = 0 => Steady
-----------------------------------------------------------------------------
(* A call to acquire belongs to a thread that has its client's mutex, and  *)
(* is the only one of that client.                                         *)
LEMMA Asker ==
  ASSUME IInv, Steady, NEW k \in Slots, call[k].st \in AcquireCalls
  PROVE /\ Caller(k) \in Workers /\ ClientOf[Caller(k)] = Source(k)
        /\ pc[Caller(k)] = "acquiring" /\ arg[Caller(k)] = call[k].lid
        /\ call[k].lid \in Locks /\ Source(k) \in Clients
        /\ lockmap_mutex[Source(k)]
        /\ lockstate_map[Source(k)][call[k].lid] = "NONE"
        /\ \A j \in Slots :
             call[j].st \in AcquireCalls /\ Source(j) = Source(k) => j = k
<1>0. /\ \A j \in Slots : CallFits(j) /\ CalmCall(j)
      /\ OneLive /\ \A w \in Workers : CalmWorker(w)
  BY  DEF IInv, CallsFit, Steady
<1>1. ASSUME NEW j \in Slots, call[j].st \in AcquireCalls
      PROVE /\ Caller(j) \in Workers /\ ClientOf[Caller(j)] = Source(j)
            /\ pc[Caller(j)] = "acquiring" /\ arg[Caller(j)] = call[j].lid
            /\ call[j].live /\ call[j].lid \in Locks
  BY <1>0, <1>1, Names, ZenonT(40) DEF CallFits, CalmCall, AcquireCalls
<1>2. CalmWorker(Caller(k))
  BY <1>0, <1>1
<1>3. ASSUME NEW j \in Slots, call[j].st \in AcquireCalls, Source(j) = Source(k)
      PROVE j = k
  <2>1. Caller(j) = Caller(k)
    BY <1>1, <1>2, <1>3, ZenonT(40) DEF CalmWorker
  <2> QED BY <1>0, <1>1, <1>3, <2>1 DEF OneLive
<1> QED BY <1>1, <1>2, <1>3, Names DEF CalmWorker

(* What a step leaves alone when it is about client c and lock l.          *)
SameState(d, m) ==
  /\ InUse(d, m)' <=> InUse(d, m)
  /\ Cached(d, m)' <=> Cached(d, m)
  /\ (lockstate_map'[d][m] = "ACQUIRING") <=> (lockstate_map[d][m] = "ACQUIRING")
  /\ lockstate_map[d][m] = "NONE" => lockstate_map'[d][m] = "NONE"

SameQueue(d, m) ==
  /\ Waits(who_waiting_lock'[m], d) <=> Waits(who_waiting_lock[m], d)
  /\ \A k \in Slots : /\ Told(k, d, m)' <=> Told(k, d, m)
                      /\ RetryTo(k, d, m)' <=> RetryTo(k, d, m)

SameSleepers(d, m) ==
  \A w \in Workers :
    /\ Awaits(w, d, m)' /\ pc'[w] = "waiting" => Awaits(w, d, m) /\ pc[w] = "waiting"
    /\ Awaits(w, d, m) /\ pc[w] \in {"waiting", "woken"} =>
         Awaits(w, d, m)' /\ pc'[w] = pc[w]

SameLock(m) ==
  /\ who_waiting_lock'[m] = who_waiting_lock[m]
  /\ where_is_lock'[m] = where_is_lock[m]
  /\ \A k \in Slots : call[k].st \in {"retry", "acquire"} /\ call[k].lid = m =>
       call'[k].st \in {"retry", "acquire"} /\ call'[k].lid = m
  /\ Somewhere(m) => Somewhere(m)'

Elsewhere(c, l) ==
  /\ \A d \in Clients, m \in Locks : d # c \/ m # l =>
       /\ SameState(d, m) /\ SameQueue(d, m) /\ SameSleepers(d, m)
       /\ HeldHere(d, m)' <=> HeldHere(d, m)
  /\ \A m \in Locks : m # l => SameLock(m)

(* Then only what is said of c and l has to be shown again.                *)
LEMMA Local ==
  ASSUME IInv, NEW c \in Clients, NEW l \in Locks, Steady, Elsewhere(c, l),
         NoLate', \A k \in Slots : CalmCall(k)', \A w \in Workers : CalmWorker(w)',
         CalmState(c, l)', CalmQueue(c, l)', CalmLock(l)'
  PROVE Steady'
<1>1. ASSUME NEW d \in Clients, NEW m \in Locks, d # c \/ m # l
      PROVE CalmState(d, m)' /\ CalmQueue(d, m)'
  <2>1. /\ SameState(d, m) /\ SameQueue(d, m) /\ SameSleepers(d, m)
        /\ HeldHere(d, m)' <=> HeldHere(d, m)
    BY <1>1 DEF Elsewhere
  <2>2. CalmState(d, m) /\ CalmQueue(d, m)
    BY ZenonT(40) DEF Steady
  <2>3. InQueue(d, m)' <=> InQueue(d, m)
    BY <2>1 DEF InQueue, SameQueue
  <2>4. CalmState(d, m)'
    BY <2>1, <2>2, <2>3 DEF CalmState, SameState, SameSleepers
  <2>5. CalmQueue(d, m)'
    <3>1. ASSUME InQueue(d, m)'
          PROVE \/ /\ lockstate_map'[d][m] = "ACQUIRING"
                   /\ \E w \in Workers : Awaits(w, d, m)'
                                         /\ pc'[w] \in {"waiting", "woken"}
                \/ \E k \in Slots : Told(k, d, m)'
      BY <2>1, <2>2, <2>3, <3>1 DEF CalmQueue, SameState, SameQueue, SameSleepers
    <3> QED BY <2>1, <2>2, <2>3, <3>1 DEF CalmQueue, SameQueue
  <2> QED BY <2>4, <2>5
<1>2. ASSUME NEW m \in Locks, m # l PROVE CalmLock(m)'
  <2>1. SameLock(m) /\ CalmLock(m)
    BY <1>2 DEF Elsewhere, Steady
  <2>2. ASSUME Asking(m) PROVE Asking(m)'
    <3>1. CASE \E k \in Slots : call[k].st \in {"retry", "acquire"} /\ call[k].lid = m
      BY <2>1, <3>1 DEF SameLock, Asking
    <3>2. ASSUME NEW w \in Workers, pc[w] = "woken", arg[w] = m,
                 lockstate_map[ClientOf[w]][m] = "NONE", ~InQueue(ClientOf[w], m)
          PROVE Asking(m)'
      <4>1. ClientOf[w] \in Clients /\ Awaits(w, ClientOf[w], m)
        BY <3>2, Names DEF Awaits
      <4>2. /\ SameState(ClientOf[w], m) /\ SameSleepers(ClientOf[w], m)
            /\ SameQueue(ClientOf[w], m)
        BY <1>2, <4>1 DEF Elsewhere
      <4>3. ~InQueue(ClientOf[w], m)'
        BY <3>2, <4>2 DEF InQueue, SameQueue
      <4> QED BY <3>2, <4>1, <4>2, <4>3 DEF SameState, SameSleepers, Asking, Awaits
    <3> QED BY <2>2, <3>1, <3>2 DEF Asking
  <2> QED BY <2>1, <2>2 DEF CalmLock, SameLock
<1> QED BY <1>1, <1>2 DEF Steady

(* Call k, before and after the step, can only be about c and l.           *)
OnlyAbout(k, c, l) ==
  /\ call[k].st # "idle" => call[k].lid = l
  /\ call'[k].st # "idle" => call'[k].lid = l
  /\ call[k].st \in {"owner", "revoke", "RETRY"} => Source(k) = c
  /\ call'[k].st \in {"owner", "revoke", "RETRY"} => Source(k) = c
  /\ call[k].st = "retry" => call[k].peer = c
  /\ call'[k].st = "retry" => call'[k].peer = c

(* An action for client c and lock l leaves all other pairs as they are.   *)
LEMMA Frame ==
  ASSUME NEW c \in Clients, NEW l \in Locks,
         \A d \in Clients, m \in Locks : d # c \/ m # l => SameState(d, m),
         \A v \in Workers, m \in Locks :
            m # l \/ ClientOf[v] # c => (m \in held'[v] <=> m \in held[v]),
         \A v \in Workers :
            \/ Still(v)
            \/ /\ ClientOf[v] = c
               /\ pc[v] \in {"waiting", "woken"} => arg[v] = l
               /\ pc'[v] \in {"waiting", "woken"} => arg'[v] = l,
         \A k \in Slots : call'[k] = call[k] \/ OnlyAbout(k, c, l),
         \A m \in Locks : m # l => /\ who_waiting_lock'[m] = who_waiting_lock[m]
                                   /\ where_is_lock'[m] = where_is_lock[m],
         \A d \in Clients : d # c =>
            (Waits(who_waiting_lock'[l], d) <=> Waits(who_waiting_lock[l], d)),
         \A t \in Threads, m \in Locks : m # l /\ InFlush(t, m) => InFlush(t, m)'
  PROVE Elsewhere(c, l)
<1>1. ASSUME NEW d \in Clients, NEW m \in Locks, d # c \/ m # l
      PROVE /\ SameQueue(d, m) /\ SameSleepers(d, m)
            /\ HeldHere(d, m)' <=> HeldHere(d, m)
  <2>1. Waits(who_waiting_lock'[m], d) <=> Waits(who_waiting_lock[m], d)
    BY <1>1
  <2>2. \A k \in Slots : Told(k, d, m)' <=> Told(k, d, m)
    BY <1>1, ZenonT(40) DEF Told, OnlyAbout
  <2>3. \A k \in Slots : RetryTo(k, d, m)' <=> RetryTo(k, d, m)
    BY <1>1 DEF RetryTo, OnlyAbout
  <2>4. SameSleepers(d, m)
    BY <1>1 DEF SameSleepers, Awaits, Still
  <2>5. HeldHere(d, m)' <=> HeldHere(d, m)
    <3>1. \A v \in Workers : ClientOf[v] = d => (m \in held'[v] <=> m \in held[v])
      BY <1>1
    <3> QED BY <3>1 DEF HeldHere
  <2> QED BY <2>1, <2>2, <2>3, <2>4, <2>5 DEF SameQueue
<1>2. ASSUME NEW m \in Locks, m # l PROVE SameLock(m)
  <2>1. \A k \in Slots : call[k].st \in {"retry", "acquire"} /\ call[k].lid = m =>
          call'[k].st \in {"retry", "acquire"} /\ call'[k].lid = m
    BY <1>2 DEF OnlyAbout
  <2>2. \A k \in Slots : InCall(k, m) => InCall(k, m)'
    BY <1>2 DEF OnlyAbout, InCall
  <2>3. \A v \in Workers : m \in held[v] => m \in held'[v]
    BY <1>2
  <2>4. \A d \in Clients : Cached(d, m) => Cached(d, m)'
    BY <1>2 DEF SameState
  <2>5. \A t \in Threads : InFlush(t, m) => InFlush(t, m)'
    BY <1>2
  <2>6. Somewhere(m) => Somewhere(m)'
    BY <2>2, <2>3, <2>4, <2>5 DEF Somewhere
  <2> QED BY <1>2, <2>1, <2>6 DEF SameLock
<1> QED BY <1>1, <1>2, ZenonT(40) DEF Elsewhere

(* The calls and lists are not touched: neither is what is said of them.   *)
LEMMA CallsCalm ==
  ASSUME Steady, UNCHANGED <<call, late, where_is_lock, serverlock_mutex>>
  PROVE NoLate' /\ \A k \in Slots : CalmCall(k)'
BY  DEF Steady, NoLate, CalmCall

(* The threads that ask the server stay where they are, and so does what   *)
(* they look at.                                                           *)
LEMMA AskersCalm ==
  ASSUME Steady,
         \A v \in Workers :
            /\ pc'[v] # "retest"
            /\ pc'[v] = "acquiring" =>
                 /\ Still(v)
                 /\ lockmap_mutex'[ClientOf[v]] = lockmap_mutex[ClientOf[v]]
                 /\ lockstate_map'[ClientOf[v]] = lockstate_map[ClientOf[v]]
  PROVE \A v \in Workers : CalmWorker(v)'
<1>1. \A v \in Workers : CalmWorker(v)
  BY  DEF Steady
<1>2. ASSUME NEW v \in Workers, pc'[v] = "acquiring"
      PROVE pc[v] = "acquiring" /\ arg'[v] = arg[v]
  BY <1>2 DEF Still
<1>3. ASSUME NEW v \in Workers PROVE CalmWorker(v)'
  <2>1. CASE pc'[v] = "acquiring"
    <3>0. /\ pc[v] = "acquiring" /\ arg'[v] = arg[v]
          /\ lockmap_mutex'[ClientOf[v]] = lockmap_mutex[ClientOf[v]]
          /\ lockstate_map'[ClientOf[v]] = lockstate_map[ClientOf[v]]
      BY <1>2, <2>1
    <3>1. lockmap_mutex'[ClientOf[v]] /\ lockstate_map'[ClientOf[v]][arg'[v]] = "NONE"
      BY <1>1, <3>0, ZenonT(40) DEF CalmWorker
    <3>2. ASSUME NEW u \in Workers, pc'[u] = "acquiring", ClientOf[u] = ClientOf[v]
          PROVE u = v
      BY <1>1, <1>2, <2>1, <3>2, ZenonT(40) DEF CalmWorker
    <3> QED BY <3>1, <3>2 DEF CalmWorker
  <2>2. CASE pc'[v] # "acquiring"
    BY <2>2 DEF CalmWorker
  <2> QED BY <2>1, <2>2
<1> QED BY <1>3

(* A step of client c while nobody has its mutex, in which no thread       *)
(* becomes one that asks the server.                                       *)
LEMMA WorkersCalm ==
  ASSUME Steady, NEW c \in Clients, ~lockmap_mutex[c],
         \A d \in Clients : d # c => /\ lockmap_mutex'[d] = lockmap_mutex[d]
                                     /\ lockstate_map'[d] = lockstate_map[d],
         \A v \in Workers : /\ Still(v) \/ ClientOf[v] = c
                            /\ pc'[v] = "acquiring" => pc[v] = "acquiring"
                            /\ pc'[v] # "retest"
  PROVE \A v \in Workers : CalmWorker(v)'
<1>1. \A v \in Workers : pc[v] = "acquiring" => ClientOf[v] # c /\ ClientOf[v] \in Clients
  <2>1. ASSUME NEW v \in Workers, pc[v] = "acquiring" PROVE ClientOf[v] # c
    <3>1. lockmap_mutex[ClientOf[v]]
      BY <2>1 DEF Steady, CalmWorker
    <3> QED BY <3>1
  <2> QED BY <2>1, Names
<1> QED BY <1>1, AskersCalm
-----------------------------------------------------------------------------
(* acquire(): a cached lock is taken, ...                                  *)
LEMMA TakeCalm ==
  ASSUME IInv, Steady, ~overtaken, NEW w \in Workers, NEW l \in Locks,
         UNCHANGED serverVars, UNCHANGED callVars,
         pc[w] \in {"idle", "woken"}, pc[w] = "woken" => arg[w] = l,
         ~lockmap_mutex[ClientOf[w]], lockstate_map[ClientOf[w]][l] = "FREE",
         SetLock(ClientOf[w], l, "LOCKED"), SetMutex(ClientOf[w], FALSE),
         held' = [held EXCEPT ![w] = @ \cup {l}], GoTo(w, "idle", None)
  PROVE Steady'
<1> DEFINE c == ClientOf[w]
<1>0. /\ ClientTypeOK /\ c \in Clients /\ w \in Threads /\ Home(w) = c
      /\ call' = call /\ late' = late /\ where_is_lock' = where_is_lock
      /\ who_waiting_lock' = who_waiting_lock /\ serverlock_mutex' = serverlock_mutex
  BY Names DEF IInv, TypeOK, serverVars, callVars
<1>a. /\ \A t \in Threads : t # w => Still(t)
      /\ pc'[w] = "idle"
  BY <1>0 DEF ClientTypeOK, GoTo, Still
<1>b. /\ \A d \in Clients, m \in Locks :
           lockstate_map'[d][m] = IF d = c /\ m = l THEN "LOCKED" ELSE lockstate_map[d][m]
      /\ \A d \in Clients : d # c => lockstate_map'[d] = lockstate_map[d]
  BY <1>0 DEF ClientTypeOK, SetLock
<1>c. \A d \in Clients : d # c => lockmap_mutex'[d] = lockmap_mutex[d]
  BY <1>0 DEF ClientTypeOK, SetMutex
<1>d. /\ l \in held'[w]
      /\ \A v \in Workers, m \in Locks :
           m # l \/ ClientOf[v] # c => (m \in held'[v] <=> m \in held[v])
  BY <1>0 DEF ClientTypeOK
<1>1. /\ \A t \in Threads : t # w => Still(t)
      /\ pc'[w] = "idle"
      /\ \A d \in Clients, m \in Locks :
           lockstate_map'[d][m] = IF d = c /\ m = l THEN "LOCKED" ELSE lockstate_map[d][m]
      /\ \A d \in Clients : d # c => /\ lockmap_mutex'[d] = lockmap_mutex[d]
                                     /\ lockstate_map'[d] = lockstate_map[d]
      /\ l \in held'[w]
      /\ \A v \in Workers, m \in Locks :
           m # l \/ ClientOf[v] # c => (m \in held'[v] <=> m \in held[v])
  BY <1>a, <1>b, <1>c, <1>d
<1> HIDE DEF c
<1>2. NoLate' /\ \A k \in Slots : CalmCall(k)'
  BY <1>0, CallsCalm
<1>3. \A v \in Workers : CalmWorker(v)'
  <2>1. \A v \in Workers : /\ Still(v) \/ ClientOf[v] = c
                           /\ pc'[v] = "acquiring" => pc[v] = "acquiring"
                           /\ pc'[v] # "retest"
    <3>1. \A v \in Workers : v # w => Still(v) /\ CalmWorker(v)
      BY <1>1, Names DEF Steady
    <3>2. ASSUME NEW v \in Workers
          PROVE /\ Still(v) \/ ClientOf[v] = c
                /\ pc'[v] = "acquiring" => pc[v] = "acquiring"
                /\ pc'[v] # "retest"
      <4>1. CASE v = w
        BY <1>1, <4>1 DEF c
      <4>2. CASE v # w
        <5>1. Still(v) /\ pc'[v] = pc[v] /\ pc[v] # "retest"
          BY <3>1, <4>2 DEF Still, CalmWorker
        <5> QED BY <5>1
      <4> QED BY <4>1, <4>2
    <3> QED BY <3>2
  <2> QED BY <1>0, <1>1, <2>1, WorkersCalm DEF c
<1>4. Elsewhere(c, l)
  <2>1. \A d \in Clients, m \in Locks : d # c \/ m # l => SameState(d, m)
    BY <1>1, ZenonT(40) DEF SameState, InUse, Cached
  <2>2. \A v \in Workers : \/ Still(v)
                           \/ /\ ClientOf[v] = c
                              /\ pc[v] \in {"waiting", "woken"} => arg[v] = l
                              /\ pc'[v] \in {"waiting", "woken"} => arg'[v] = l
    BY <1>1, Names DEF c
  <2>3. \A t \in Threads, m \in Locks : m # l /\ InFlush(t, m) => InFlush(t, m)'
    BY <1>1, ZenonT(40) DEF InFlush, Still
  <2> QED BY <1>0, <1>1, <2>1, <2>2, <2>3, Frame, ZenonT(40)
<1>5. ~InQueue(c, l) /\ ~InQueue(c, l)'
  <2>1. \A k \in Slots : ~Told(k, c, l)
    BY Asker DEF Told, AcquireCalls, c
  <2>2. ~InQueue(c, l)
    BY <1>0, <2>1 DEF Steady, CalmQueue, c
  <2> QED BY <1>0, <2>2 DEF InQueue, RetryTo
<1>6. CalmState(c, l)'
  <2>1. lockstate_map'[c][l] = "LOCKED"
    BY <1>0, <1>1
  <2>2. HeldHere(c, l)'
    BY <1>1 DEF HeldHere, c
  <2> QED BY <2>1, <2>2 DEF CalmState, InUse
<1>7. CalmQueue(c, l)'
  <2>1. \A k \in Slots : Told(k, c, l)' <=> Told(k, c, l)
    BY <1>0 DEF Told
  <2>2. \A k \in Slots : RetryTo(k, c, l)' <=> RetryTo(k, c, l)
    BY <1>0 DEF RetryTo
  <2>3. CalmQueue(c, l)
    BY <1>0 DEF Steady
  <2> QED BY <1>0, <1>5, <2>1, <2>2, <2>3 DEF CalmQueue
<1>8. CalmLock(l)'
  <2>1. where_is_lock[l] # None /\ Somewhere(l)'
    <3>1. OneToken(l) /\ Cached(c, l)
      BY  DEF IInv, Tokens, Cached, c
    <3>2. where_is_lock[l] # None
      BY <1>0, <3>1, Names, ZenonT(40) DEF OneToken
    <3>3. Somewhere(l)'
      BY <1>1 DEF Somewhere
    <3> QED BY <3>2, <3>3
  <2> QED BY <1>0, <2>1 DEF CalmLock, Steady
<1> QED BY <1>0, <1>2, <1>3, <1>4, <1>6, <1>7, <1>8, Local

(* ... a lock in use or on its way is waited for, ...                      *)
LEMMA SleepCalm ==
  ASSUME IInv, Steady, NEW w \in Workers, NEW l \in Locks,
         UNCHANGED serverVars, UNCHANGED callVars, UNCHANGED <<lockstate_map, held>>,
         pc[w] \in {"idle", "woken"}, pc[w] = "woken" => arg[w] = l,
         ~lockmap_mutex[ClientOf[w]],
         lockstate_map[ClientOf[w]][l] \in {"LOCKED", "ACQUIRING", "RELEASING"},
         SetMutex(ClientOf[w], FALSE), GoTo(w, "waiting", l)
  PROVE Steady'
<1> DEFINE c == ClientOf[w]
<1>0. /\ ClientTypeOK /\ c \in Clients /\ w \in Threads /\ Home(w) = c
      /\ call' = call /\ late' = late /\ where_is_lock' = where_is_lock
      /\ who_waiting_lock' = who_waiting_lock /\ serverlock_mutex' = serverlock_mutex
  BY Names DEF IInv, TypeOK, serverVars, callVars
<1>1. /\ \A t \in Threads : t # w => Still(t)
      /\ pc'[w] = "waiting" /\ arg'[w] = l
      /\ \A d \in Clients : d # c => lockmap_mutex'[d] = lockmap_mutex[d]
  BY <1>0 DEF ClientTypeOK, GoTo, SetMutex, Still
<1> HIDE DEF c
<1>2. NoLate' /\ \A k \in Slots : CalmCall(k)'
  BY <1>0, CallsCalm
<1>3. \A v \in Workers : CalmWorker(v)'
  <2>1. \A v \in Workers : /\ Still(v) \/ ClientOf[v] = c
                           /\ pc'[v] = "acquiring" => pc[v] = "acquiring"
                           /\ pc'[v] # "retest"
    <3>1. \A v \in Workers : v # w => Still(v) /\ CalmWorker(v)
      BY <1>1, Names DEF Steady
    <3>2. ASSUME NEW v \in Workers
          PROVE /\ Still(v) \/ ClientOf[v] = c
                /\ pc'[v] = "acquiring" => pc[v] = "acquiring"
                /\ pc'[v] # "retest"
      <4>1. CASE v = w
        BY <1>1, <4>1 DEF c
      <4>2. CASE v # w
        <5>1. Still(v) /\ pc'[v] = pc[v] /\ pc[v] # "retest"
          BY <3>1, <4>2 DEF Still, CalmWorker
        <5> QED BY <5>1
      <4> QED BY <4>1, <4>2
    <3> QED BY <3>2
  <2> QED BY <1>0, <1>1, <2>1, WorkersCalm, ZenonT(40) DEF c
<1>4. Elsewhere(c, l)
  <2>1. \A d \in Clients, m \in Locks : SameState(d, m)
    BY DEF SameState, InUse, Cached
  <2>2. \A v \in Workers : \/ Still(v)
                           \/ /\ ClientOf[v] = c
                              /\ pc[v] \in {"waiting", "woken"} => arg[v] = l
                              /\ pc'[v] \in {"waiting", "woken"} => arg'[v] = l
    BY <1>1, Names DEF c
  <2>3. \A t \in Threads, m \in Locks : m # l /\ InFlush(t, m) => InFlush(t, m)'
    BY <1>1 DEF InFlush, Still
  <2> QED BY <1>0, <1>1, <2>1, <2>2, <2>3, Frame, ZenonT(40)
<1>5. /\ InQueue(c, l)' <=> InQueue(c, l)
      /\ \A k \in Slots : /\ Told(k, c, l)' <=> Told(k, c, l)
                          /\ RetryTo(k, c, l)' <=> RetryTo(k, c, l)
  BY <1>0 DEF InQueue, RetryTo, Told
<1>s. CalmState(c, l) /\ CalmQueue(c, l) /\ CalmLock(l)
  BY <1>0 DEF Steady
<1>6. CalmState(c, l)'
  BY <1>1, <1>5, <1>s DEF CalmState, InUse, HeldHere, c
<1>7. CalmQueue(c, l)'
  <2>1. Awaits(w, c, l)'
    BY <1>1 DEF Awaits, c
  <2>2. lockstate_map[c][l] = "ACQUIRING" =>
           \E v \in Workers : Awaits(v, c, l)' /\ pc'[v] \in {"waiting", "woken"}
    BY <1>1, <2>1
  <2> QED BY <1>0, <1>5, <1>s, <2>2, ZenonT(40) DEF CalmQueue
<1>8. CalmLock(l)'
  <2>1. Somewhere(l) => Somewhere(l)'
    BY <1>0, <1>1, ZenonT(40) DEF Somewhere, InFlush, InCall, Cached, Still
  <2>2. Asking(l) => Asking(l)'
    <3>1. \A d : InQueue(d, l)' <=> InQueue(d, l)
      BY <1>0 DEF InQueue, RetryTo
    <3> QED BY <1>0, <1>1, <1>s, <3>1, Names, ZenonT(40) DEF Asking, Still, c
  <2> QED BY <1>0, <1>s, <2>1, <2>2 DEF CalmLock
<1> QED BY <1>0, <1>2, <1>3, <1>4, <1>6, <1>7, <1>8, Local

(* ... and otherwise the server is asked, with the mutex held.             *)
LEMMA AskCalm ==
  ASSUME IInv, Steady, NEW w \in Workers, NEW l \in Locks,
         UNCHANGED serverVars, late' = late, held' = held,
         pc[w] \in {"idle", "woken"}, pc[w] = "woken" => arg[w] = l,
         ~lockmap_mutex[ClientOf[w]],
         lockstate_map[ClientOf[w]][l] \in {"ABSENT", "NONE"},
         SetLock(ClientOf[w], l, "NONE"), SetMutex(ClientOf[w], TRUE),
         GoTo(w, "acquiring", l), Send(w, "acquire", l)
  PROVE Steady'
<1> DEFINE c == ClientOf[w]
           r == [st |-> "acquire", lid |-> l, peer |-> None, live |-> TRUE]
<1>0. /\ CallsTypeOK /\ ClientTypeOK /\ c \in Clients /\ w \in Threads /\ Home(w) = c
      /\ where_is_lock' = where_is_lock /\ who_waiting_lock' = who_waiting_lock
      /\ serverlock_mutex' = serverlock_mutex
  BY Names DEF IInv, TypeOK, serverVars
<1>a. /\ \A t \in Threads : t # w => Still(t)
      /\ pc'[w] = "acquiring" /\ arg'[w] = l
  BY <1>0 DEF ClientTypeOK, GoTo, Still
<1>b. /\ \A d \in Clients, m \in Locks :
           lockstate_map'[d][m] = IF d = c /\ m = l THEN "NONE" ELSE lockstate_map[d][m]
      /\ \A d \in Clients : d # c => lockstate_map'[d] = lockstate_map[d]
  BY <1>0 DEF ClientTypeOK, SetLock
<1>c. lockmap_mutex'[c] /\ \A d \in Clients : d # c => lockmap_mutex'[d] = lockmap_mutex[d]
  BY <1>0, ZenonT(40) DEF ClientTypeOK, SetMutex
<1>d. PICK k \in Slots : /\ Caller(k) = w /\ call[k].st = "idle"
                         /\ call' = [call EXCEPT ![k] = r]
  BY <1>0, SendSlot, SMTT(20)
<1>e. r \in Call /\ r.st = "acquire" /\ r.lid = l /\ r.live = TRUE
  BY  DEF Call, CallStates
<1> HIDE DEF c, r
<1>f. call'[k] = r /\ \A j \in Slots : j # k => call'[j] = call[j]
  BY <1>0, <1>d, <1>e, CallUpdate
<1>2. NoLate' /\ \A j \in Slots : CalmCall(j)'
  <2>1. CalmCall(k)'
    BY <1>e, <1>f DEF CalmCall
  <2>2. ASSUME NEW j \in Slots, j # k PROVE CalmCall(j)'
    <3>1. CalmCall(j) /\ call'[j] = call[j]
      BY <1>f, <2>2 DEF Steady
    <3>2. \A i \in Slots : call'[i].st = "retry" => call[i].st = "retry"
      BY <1>e, <1>f
    <3> QED BY <1>0, <3>1, <3>2 DEF CalmCall
  <2> QED BY <2>1, <2>2 DEF NoLate, Steady
<1>n. \A v \in Workers : pc[v] = "acquiring" => ClientOf[v] # c
  BY  DEF Steady, CalmWorker, c
<1>3. \A v \in Workers : CalmWorker(v)'
  <2>1. CalmWorker(w)'
    <3>1. lockstate_map'[c][l] = "NONE"
      BY <1>0, <1>b
    <3>2. \A v \in Workers : pc'[v] = "acquiring" /\ ClientOf[v] = c => v = w
      BY <1>a, <1>n, Names, ZenonT(40) DEF Still
    <3> QED BY <1>a, <1>c, <3>1, <3>2 DEF CalmWorker, c
  <2>2. ASSUME NEW v \in Workers, v # w PROVE CalmWorker(v)'
    <3>1. Still(v) /\ CalmWorker(v) /\ ClientOf[v] \in Clients
      BY <1>a, <2>2, Names DEF Steady
    <3>2. CASE pc[v] = "acquiring"
      <4>1. \A u \in Workers : pc'[u] = "acquiring" /\ ClientOf[u] = ClientOf[v] => u = v
        <5>1. ASSUME NEW u \in Workers, pc'[u] = "acquiring", ClientOf[u] = ClientOf[v]
              PROVE u = v
          <6>1. u # w
            BY <1>n, <3>2, <5>1 DEF c
          <6>2. pc[u] = "acquiring"
            BY <1>a, <5>1, <6>1, Names DEF Still
          <6> QED BY <3>1, <3>2, <5>1, <6>2 DEF CalmWorker
        <5> QED BY <5>1
      <4> QED BY <1>b, <1>c, <1>n, <3>1, <3>2, <4>1 DEF CalmWorker, Still
    <3>3. CASE pc[v] # "acquiring"
      BY <3>1, <3>3 DEF CalmWorker, Still
    <3> QED BY <3>2, <3>3
  <2> QED BY <2>1, <2>2
<1>4. Elsewhere(c, l)
  <2>1. \A d \in Clients, m \in Locks : d # c \/ m # l => SameState(d, m)
    BY <1>b, ZenonT(40) DEF SameState, InUse, Cached
  <2>2. \A v \in Workers : \/ Still(v)
                           \/ /\ ClientOf[v] = c
                              /\ pc[v] \in {"waiting", "woken"} => arg[v] = l
                              /\ pc'[v] \in {"waiting", "woken"} => arg'[v] = l
    BY <1>a, Names DEF c
  <2>3. \A t \in Threads, m \in Locks : m # l /\ InFlush(t, m) => InFlush(t, m)'
    BY <1>a DEF InFlush, Still
  <2>4. \A j \in Slots : call'[j] = call[j] \/ OnlyAbout(j, c, l)
    BY <1>d, <1>e, <1>f, ZenonT(40) DEF OnlyAbout
  <2> QED BY <1>0, <2>1, <2>2, <2>3, <2>4, Frame, ZenonT(40)
<1>s. CalmState(c, l) /\ CalmQueue(c, l) /\ CalmLock(l)
  BY <1>0 DEF Steady
<1>5. /\ ~InQueue(c, l)' /\ \A j \in Slots : ~Told(j, c, l)' /\ ~RetryTo(j, c, l)'
  <2>1. \A j \in Slots : ~Told(j, c, l)
    BY Asker DEF Told, AcquireCalls, c
  <2>2. ~InQueue(c, l)
    BY <1>s, <2>1 DEF CalmQueue, c
  <2>3. \A j \in Slots : ~Told(j, c, l)' /\ ~RetryTo(j, c, l)'
    BY <1>e, <1>f, <2>1, <2>2, ZenonT(40) DEF Told, RetryTo, InQueue
  <2> QED BY <1>0, <2>2, <2>3 DEF InQueue
<1>6. CalmState(c, l)'
  <2>1. lockstate_map'[c][l] = "NONE" /\ ~InUse(c, l)
    BY <1>0, <1>b DEF InUse, c
  <2>2. ~HeldHere(c, l)'
    BY <1>s, <2>1 DEF CalmState, HeldHere
  <2>3. \A v \in Workers : Awaits(v, c, l)' => pc'[v] # "waiting"
    BY <1>a, <1>s, <2>1, Names, ZenonT(40) DEF CalmState, Awaits, Still, c
  <2> QED BY <2>1, <2>2, <2>3 DEF CalmState, InUse
<1>7. CalmQueue(c, l)'
  BY <1>5 DEF CalmQueue
<1>8. CalmLock(l)'
  <2>1. Asking(l)'
    BY <1>e, <1>f DEF Asking
  <2>2. \A j \in Slots : InCall(j, l) => InCall(j, l)'
    BY <1>d, <1>f DEF InCall
  <2>3. \A d \in Clients : Cached(d, l) => Cached(d, l)'
    BY <1>b DEF Cached, c
  <2>4. \A t \in Threads : InFlush(t, l) => InFlush(t, l)'
    BY <1>a DEF InFlush, Still
  <2>5. Somewhere(l) => Somewhere(l)'
    BY <2>2, <2>3, <2>4 DEF Somewhere
  <2> QED BY <1>0, <1>s, <2>1, <2>5 DEF CalmLock
<1> QED BY <1>0, <1>2, <1>3, <1>4, <1>6, <1>7, <1>8, Local

(* acquire() of a lock that is free, in use, or to be asked for.           *)
LEMMA AcquireCalm ==
  ASSUME IInv, Steady, ~overtaken, NEW w \in Workers, NEW l \in Locks,
         Acquire(w, l), UNCHANGED serverVars
  PROVE Steady'
<1>1. /\ pc[w] \in {"idle", "woken"}
      /\ pc[w] = "woken" => arg[w] = l
      /\ ~lockmap_mutex[ClientOf[w]] /\ late' = late /\ timeouts' = timeouts
  BY  DEF Acquire, Steady, CalmWorker
<1>2. CASE /\ lockstate_map[ClientOf[w]][l] = "FREE"
           /\ SetLock(ClientOf[w], l, "LOCKED")
           /\ SetMutex(ClientOf[w], FALSE)
           /\ held' = [held EXCEPT ![w] = @ \cup {l}]
           /\ GoTo(w, "idle", None)
           /\ UNCHANGED call
  BY <1>1, <1>2, TakeCalm DEF callVars
<1>3. CASE /\ lockstate_map[ClientOf[w]][l] \in {"LOCKED", "ACQUIRING", "RELEASING"}
           /\ SetMutex(ClientOf[w], FALSE)
           /\ GoTo(w, "waiting", l)
           /\ UNCHANGED <<lockstate_map, held, call>>
  BY <1>1, <1>3, SleepCalm DEF callVars
<1>4. CASE /\ lockstate_map[ClientOf[w]][l] \in {"ABSENT", "NONE"}
           /\ SetLock(ClientOf[w], l, "NONE")
           /\ SetMutex(ClientOf[w], TRUE)
           /\ GoTo(w, "acquiring", l)
           /\ Send(w, "acquire", l)
           /\ UNCHANGED held
  BY <1>1, <1>4, AskCalm
<1> QED BY <1>2, <1>3, <1>4 DEF Acquire
=============================================================================
