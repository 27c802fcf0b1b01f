---------------------------- MODULE ExtentProofs ----------------------------
(***************************************************************************)
(* Proofs about extents.  Part 1, ExtentCache: for any clients, threads,   *)
(* extents and values, types, that nothing stale is kept, and that the     *)
(* caches implement one store.                                             *)
(*                                                                         *)
(* Parts 2 to 4, YfsFile, Marshall and ExtentWire: a file's bytes, the     *)
(* byte layout of RPC messages, and that the calls to the extent server    *)
(* carry what they are given, for every set of letters, every bound on the *)
(* sizes, every size of the buffer, every content, id and header.          *)
(***************************************************************************)
EXTENDS ExtentCache, ExtentWire, SequenceTheorems, TLAPS

(* Part 1, ExtentCache.                                                    *)

(* A thread in a call holds the lock, missed its cache, and the reply on   *)
(* its way is still what the server has.                                   *)
Answer(k) ==
  LET x == IF k.op = "get" THEN content_map[k.eid] ELSE attr_map[k.eid]
  IN IF x = NoEntry THEN IOERR ELSE x

RpcFits(w) ==
  rpc[w] # Idle =>
    /\ token[rpc[w].eid] = Lock!At("held", w)
    /\ rpc[w].op = "get" => content_map_cache[ClientOf[w]][rpc[w].eid] = NoEntry
    /\ rpc[w].op = "getattr" => attr_map_cache[ClientOf[w]][rpc[w].eid] = NoEntry
    /\ rpc[w].reply # None => rpc[w].reply = Answer(rpc[w])

(* What a client has cached of e: its own put, with the size, or what the  *)
(* server has.  It flushes only what is dirty, and once the put is done    *)
(* the server has it.                                                      *)
CacheFits(c, e) ==
  /\ e \in dirty_eid_set[c] =>
       /\ content_map_cache[c][e] # NoEntry
       /\ attr_map_cache[c][e] = Size[content_map_cache[c][e]]
  /\ e \notin dirty_eid_set[c] =>
       /\ content_map_cache[c][e] \in {NoEntry, content_map[e]}
       /\ attr_map_cache[c][e] \in {NoEntry, attr_map[e]}
  /\ flush[c][e] # "no" => Flushing(c, e) /\ e \in dirty_eid_set[c]
  /\ flush[c][e] = "done" => content_map[e] = content_map_cache[c][e]

(* The server's two maps agree, and at most one client has e dirty.        *)
ServerFits(e) ==
  attr_map[e] = IF content_map[e] = NoEntry THEN NoEntry ELSE Size[content_map[e]]

OneDirty(e) ==
  \A c, d \in Clients : e \in dirty_eid_set[c] /\ e \in dirty_eid_set[d] => c = d

Nothing(c, e) ==
  /\ content_map_cache[c][e] = NoEntry
  /\ attr_map_cache[c][e] = NoEntry
  /\ e \notin dirty_eid_set[c]

(* The inductive invariant.                                                *)
IInv ==
  /\ TypeOK
  /\ \A w \in Workers : RpcFits(w)
  /\ \A c \in Clients, e \in Extents : CacheFits(c, e)
  /\ \A e \in Extents : ServerFits(e) /\ OneDirty(e)
  /\ NothingStaleKept
-----------------------------------------------------------------------------
(* The prover of a step that names none.                                   *)
USE ZenonT(40)

(* Who has the lock.                                                       *)
LEMMA HeldIs ==
  ASSUME NEW e, NEW w, token[e] = Lock!At("held", w)
  PROVE /\ token[e] # Lock!Lost
        /\ \A c : ~Flushing(c, e) /\ (HasLock(c, e) <=> c = ClientOf[w])
        /\ \A v : token[e] = Lock!At("held", v) => v = w
BY SMT DEF HasLock, Flushing, Lock!At, Lock!Lost

(* Who flushes.                                                            *)
LEMMA FlushingIs ==
  ASSUME NEW e, NEW c, Flushing(c, e)
  PROVE /\ token[e] # Lock!Lost
        /\ \A d : HasLock(d, e) <=> d = c
        /\ \A d : Flushing(d, e) => d = c
        /\ \A w : token[e] # Lock!At("held", w)
BY SMT DEF HasLock, Flushing, Lock!At, Lock!Lost

(* A lock that moves, but not out of a flush, is lost or stays with the    *)
(* client that has it.                                                     *)
LEMMA MoveKeeps ==
  ASSUME NEW tk \in Lock!Token, NEW t \in Lock!Token, tk \in Lock!Moves(t),
         t.at # "flush", NEW c \in Clients,
         \/ t.at = "cached" /\ t.by = c
         \/ t.at = "held" /\ ClientOf[t.by] = c
  PROVE \/ tk = Lock!Lost
        \/ tk.at \in {"cached", "flush"} /\ tk.by = c
        \/ tk.at = "held" /\ ClientOf[tk.by] = c
BY SMT DEF Lock!Moves, Lock!HeldAt, Lock!At, Lock!Lost

(* A lock that is lost stays lost.                                         *)
LEMMA NoMoveFromLost ==
  Lock!Moves(Lock!Lost) = {}
BY DEF Lock!Moves, Lock!Lost

(* Values, sizes and errors.                                               *)
LEMMA Kinds ==
  /\ NoEntry \notin Values /\ NoEntry \notin Sizes /\ NoEntry # IOERR
  /\ IOERR \notin Values /\ IOERR \notin Sizes
  /\ \A v \in Values : Size[v] \in Sizes
  /\ Empty \in Values /\ Size[Empty] = 0 /\ 0 \in Sizes
  /\ \A w \in Workers : ClientOf[w] \in Clients
BY ExtentCacheAssumption DEF Sizes

(* A call that is under way.                                               *)
LEMMA CallKinds ==
  \A k \in Calls : k # Idle => /\ k.op \in {"get", "getattr"} /\ k.eid \in Extents
                               /\ k.reply \in {None, IOERR} \cup Values \cup Sizes
BY DEF Calls

(* What a client has of e stays true while it, the server's copy and the   *)
(* flush do not change.                                                    *)
LEMMA CacheStays ==
  ASSUME NEW c \in Clients, NEW e \in Extents, CacheFits(c, e),
         content_map_cache'[c][e] = content_map_cache[c][e],
         attr_map_cache'[c][e] = attr_map_cache[c][e],
         e \in dirty_eid_set'[c] <=> e \in dirty_eid_set[c],
         content_map'[e] = content_map[e], attr_map'[e] = attr_map[e],
         flush'[c][e] = flush[c][e],
         token'[e] = token[e] \/ token[e].at # "flush"
  PROVE CacheFits(c, e)'
<1>1. flush[c][e] # "no" => token'[e] = token[e]
  BY SMTT(20) DEF CacheFits, Flushing, Lock!At
<1> QED BY <1>1 DEF CacheFits, Flushing

(* So does a call while the thread keeps the lock.                         *)
LEMMA RpcStays ==
  ASSUME TypeOK, NEW w \in Workers, RpcFits(w), rpc'[w] = rpc[w],
         rpc[w] # Idle =>
           LET e == rpc[w].eid  c == ClientOf[w] IN
             /\ token'[e] = token[e]
             /\ content_map_cache'[c][e] = content_map_cache[c][e]
             /\ attr_map_cache'[c][e] = attr_map_cache[c][e]
             /\ content_map'[e] = content_map[e]
             /\ attr_map'[e] = attr_map[e]
  PROVE RpcFits(w)'
BY SMT DEF RpcFits, Answer

(* The first state.                                                        *)
LEMMA Initially == Init => IInv
<1> SUFFICES ASSUME Init PROVE IInv
  OBVIOUS
<1>1. TypeOK
  <2>1. token \in [Extents -> Lock!Token]
    BY DEF Init, Lock!Init, Lock!Token
  <2>2. content_map \in [Extents -> Values \cup {NoEntry}]
    BY Kinds DEF Init
  <2>3. attr_map \in [Extents -> Sizes \cup {NoEntry}]
    BY Kinds DEF Init
  <2>4. rpc \in [Workers -> Calls]
    BY DEF Init, Calls
  <2> QED BY <2>1, <2>2, <2>3, <2>4 DEF Init, TypeOK
<1>2. \A w \in Workers : RpcFits(w)
  BY DEF Init, RpcFits
<1>3. ASSUME NEW c \in Clients, NEW e \in Extents PROVE Nothing(c, e) /\ CacheFits(c, e)
  BY DEF Init, Nothing, CacheFits
<1>4. ASSUME NEW e \in Extents PROVE ServerFits(e) /\ OneDirty(e)
  <2>1. ServerFits(e)
    BY Kinds DEF Init, ServerFits
  <2> QED BY <1>3, <2>1 DEF OneDirty, Nothing
<1> QED BY <1>1, <1>2, <1>3, <1>4 DEF IInv, NothingStaleKept, Nothing
-----------------------------------------------------------------------------
(* A lock moves, unless it is being flushed or its holder is in a call.    *)
LEMMA LockMovesStep ==
  ASSUME IInv, NEW e \in Extents, NEW tk \in Lock!Token, LockMoves(e, tk)
  PROVE IInv'
<1>0. /\ TypeOK /\ tk \in Lock!Moves(token[e]) /\ token[e].at # "flush"
      /\ token[e].at = "held" => rpc[token[e].by] = Idle
      /\ token' = [token EXCEPT ![e] = tk]
      /\ UNCHANGED <<server, caches, rpc, flush, result>>
  BY DEF LockMoves, IInv
<1>1. token'[e] = tk /\ \A f \in Extents : f # e => token'[f] = token[f]
  BY <1>0 DEF TypeOK
<1>2. TypeOK'
  BY <1>0 DEF TypeOK, server, caches
<1>3. ASSUME NEW w \in Workers PROVE RpcFits(w)'
  <2>1. RpcFits(w) /\ (rpc[w] # Idle => rpc[w].eid \in Extents)
    BY <1>0, CallKinds DEF IInv, TypeOK
  <2>2. rpc[w] # Idle => rpc[w].eid # e
    BY <1>0, <2>1, SMT DEF RpcFits, Lock!At
  <2> QED BY <1>0, <1>1, <2>1, <2>2, RpcStays DEF server, caches
<1>4. ASSUME NEW c \in Clients, NEW f \in Extents PROVE CacheFits(c, f)'
  BY <1>0, <1>1, CacheStays DEF server, caches, IInv
<1>5. ASSUME NEW f \in Extents PROVE ServerFits(f)' /\ OneDirty(f)'
  BY <1>0 DEF IInv, server, caches, ServerFits, OneDirty
<1>6. NothingStaleKept'
  <2> SUFFICES ASSUME NEW c \in Clients, NEW f \in Extents
               PROVE HasLock(c, f)' \/ token'[f] = Lock!Lost \/ Nothing(c, f)'
    BY DEF NothingStaleKept, Nothing
  <2>1. HasLock(c, f) \/ token[f] = Lock!Lost \/ Nothing(c, f)
    BY DEF IInv, NothingStaleKept, Nothing
  <2>2. Nothing(c, f)' <=> Nothing(c, f)
    BY <1>0 DEF Nothing, caches
  <2>3. CASE f # e
    BY <1>1, <2>1, <2>2, <2>3 DEF HasLock
  <2>4. CASE f = e
    <3>1. token[e] # Lock!Lost
      BY <1>0, NoMoveFromLost
    <3>2. token[e] \in Lock!Token
      BY <1>0 DEF TypeOK
    <3>3. HasLock(c, e) => HasLock(c, e)' \/ token'[e] = Lock!Lost
      BY <1>0, <1>1, <3>2, MoveKeeps, SMT DEF HasLock
    <3> QED BY <2>1, <2>2, <2>4, <3>1, <3>3
  <2> QED BY <2>3, <2>4
<1> QED BY <1>2, <1>3, <1>4, <1>5, <1>6 DEF IInv

(* A step that changes neither locks, nor caches, nor the server.          *)
LEMMA CallsOnly ==
  ASSUME IInv, TypeOK', UNCHANGED <<token, server, caches, flush>>,
         \A w \in Workers : RpcFits(w)'
  PROVE IInv'
<1>1. ASSUME NEW c \in Clients, NEW e \in Extents PROVE CacheFits(c, e)'
  BY CacheStays DEF server, caches, IInv
<1>2. ASSUME NEW e \in Extents PROVE ServerFits(e)' /\ OneDirty(e)'
  BY DEF IInv, server, caches, ServerFits, OneDirty
<1>3. NothingStaleKept'
  BY SMT DEF IInv, NothingStaleKept, HasLock, caches
<1> QED BY <1>1, <1>2, <1>3 DEF IInv

(* What get and getattr return has the type of result.                     *)
LEMMA Results ==
  ASSUME TypeOK, NEW w \in Workers, NEW e \in Extents,
         NEW x \in {IOERR} \cup Values \cup Sizes, Returns(w, e, x)
  PROVE result' \in [Workers -> {NoEntry, IOERR} \cup (Extents \X (Values \cup Sizes))]
BY DEF TypeOK, Returns

(* get and getattr: the caller holds the lock.                             *)
LEMMA AskStep ==
  ASSUME IInv, NEW w \in Workers, NEW e \in Extents, Calling(w, e),
         NEW op \in {"get", "getattr"}, Ask(w, op, e),
         op = "get" => content_map_cache[ClientOf[w]][e] = NoEntry,
         op = "getattr" => attr_map_cache[ClientOf[w]][e] = NoEntry,
         UNCHANGED <<token, server, caches, flush, result>>
  PROVE IInv'
<1> DEFINE k == [op |-> op, eid |-> e, reply |-> None]
<1>1. k \in Calls /\ k.op = op /\ k.eid = e /\ k.reply = None
  BY  DEF Calls
<1>2. rpc' = [rpc EXCEPT ![w] = k] /\ token[e] = Lock!At("held", w) /\ TypeOK
  BY DEF Ask, Calling, IInv
<1> HIDE DEF k
<1>3. rpc'[w] = k /\ \A v \in Workers : v # w => rpc'[v] = rpc[v]
  BY <1>2 DEF TypeOK
<1>4. TypeOK'
  BY <1>1, <1>2 DEF TypeOK, server, caches
<1>5. RpcFits(w)'
  BY <1>1, <1>2, <1>3 DEF RpcFits, caches
<1>6. ASSUME NEW v \in Workers, v # w PROVE RpcFits(v)'
  BY <1>2, <1>3, <1>6, RpcStays DEF IInv, server, caches
<1> QED BY <1>4, <1>5, <1>6, CallsOnly

(* get() and getattr(), from the cache or with a request.                  *)
LEMMA GetStep ==
  ASSUME IInv, NEW w \in Workers, NEW e \in Extents, get(w, e) \/ getattr(w, e)
  PROVE IInv'
<1> DEFINE c == ClientOf[w]
<1>0. /\ TypeOK /\ c \in Clients /\ Calling(w, e)
      /\ UNCHANGED <<token, server, caches, flush>>
  BY Kinds DEF IInv, get, getattr
<1>1. ASSUME NEW x \in Values \cup Sizes, Returns(w, e, x), UNCHANGED rpc PROVE IInv'
  <2>1. TypeOK'
    BY <1>0, <1>1, Results DEF TypeOK, server, caches
  <2>2. \A v \in Workers : RpcFits(v)'
    BY <1>0, <1>1, RpcStays DEF IInv, server, caches
  <2> QED BY <1>0, <2>1, <2>2, CallsOnly
<1>2. CASE get(w, e)
  <2>1. content_map_cache[c][e] \in Values \cup {NoEntry}
    BY <1>0, SMT DEF TypeOK
  <2>2. CASE content_map_cache[c][e] # NoEntry
    BY <1>1, <1>2, <2>1, <2>2 DEF get
  <2>3. CASE content_map_cache[c][e] = NoEntry
    BY <1>0, <1>2, <2>3, AskStep DEF get
  <2> QED BY <2>2, <2>3
<1>3. CASE getattr(w, e)
  <2>1. attr_map_cache[c][e] \in Sizes \cup {NoEntry}
    BY <1>0, SMT DEF TypeOK
  <2>2. CASE attr_map_cache[c][e] # NoEntry
    BY <1>1, <1>3, <2>1, <2>2 DEF getattr
  <2>3. CASE attr_map_cache[c][e] = NoEntry
    BY <1>0, <1>3, <2>3, AskStep DEF getattr
  <2> QED BY <2>2, <2>3
<1> QED BY <1>2, <1>3

(* The server answers.                                                     *)
LEMMA ServerGetStep ==
  ASSUME IInv, NEW w \in Workers, ServerGet(w)
  PROVE IInv'
<1> DEFINE k == rpc[w]
           a == Answer(k)
<1>0. /\ TypeOK /\ k \in Calls /\ k # Idle /\ k.reply = None
      /\ rpc' = [rpc EXCEPT ![w].reply = a]
      /\ UNCHANGED <<token, server, caches, flush, result>>
  BY DEF IInv, TypeOK, ServerGet, Answer
<1>1. k.op \in {"get", "getattr"} /\ k.eid \in Extents
  BY <1>0, CallKinds
<1>2. a \in {IOERR} \cup Values \cup Sizes
  BY <1>0, <1>1 DEF Answer, TypeOK
<1> HIDE DEF a
<1>3. /\ rpc'[w].op = k.op /\ rpc'[w].eid = k.eid /\ rpc'[w].reply = a
      /\ rpc'[w] \in Calls
      /\ \A v \in Workers : v # w => rpc'[v] = rpc[v]
  <2>1. k \in [op : {"get", "getattr"}, eid : Extents,
               reply : {None, IOERR} \cup Values \cup Sizes]
    BY <1>0 DEF Calls
  <2>2. /\ rpc'[w] = [k EXCEPT !.reply = a]
        /\ \A v \in Workers : v # w => rpc'[v] = rpc[v]
    BY <1>0 DEF TypeOK
  <2> QED BY <1>2, <2>1, <2>2 DEF Calls
<1>4. TypeOK'
  <2>1. rpc' \in [Workers -> Calls]
    BY <1>0, <1>3 DEF TypeOK
  <2> QED BY <1>0, <2>1 DEF TypeOK, server, caches
<1>5. RpcFits(w)'
  <2>1. RpcFits(w)
    BY  DEF IInv
  <2>2. Answer(rpc[w])' = a
    BY <1>0, <1>3, SMT DEF Answer, server, a
  <2>3. /\ token[k.eid] = Lock!At("held", w)
        /\ k.op = "get" => content_map_cache[ClientOf[w]][k.eid] = NoEntry
        /\ k.op = "getattr" => attr_map_cache[ClientOf[w]][k.eid] = NoEntry
    BY <1>0, <2>1 DEF RpcFits
  <2> QED BY <1>0, <1>3, <2>2, <2>3 DEF RpcFits, caches
<1>6. ASSUME NEW v \in Workers, v # w PROVE RpcFits(v)'
  BY <1>0, <1>3, <1>6, RpcStays DEF IInv, server, caches
<1> QED BY <1>0, <1>4, <1>5, <1>6, CallsOnly

(* The server's answer is cached; the caller has the lock, so no other     *)
(* client has anything of the extent.                                      *)
LEMMA GetReplyStep ==
  ASSUME IInv, NEW w \in Workers, GetReply(w)
  PROVE IInv'
<1> DEFINE k == rpc[w]
           c == ClientOf[w]
<1>0. /\ TypeOK /\ c \in Clients /\ k \in Calls /\ k # Idle /\ k.reply # None
      /\ rpc' = [rpc EXCEPT ![w] = Idle] /\ Returns(w, k.eid, k.reply)
      /\ UNCHANGED <<token, server, dirty_eid_set, flush>>
  BY Kinds DEF IInv, TypeOK, GetReply
<1>1. k.op \in {"get", "getattr"} /\ k.eid \in Extents
  BY <1>0, CallKinds
<1> HIDE DEF k, c
<1> PICK e \in Extents : k.eid = e
  BY <1>1
<1>2. /\ token[e] = Lock!At("held", w)
      /\ k.op = "get" => content_map_cache[c][e] = NoEntry
      /\ k.op = "getattr" => attr_map_cache[c][e] = NoEntry
      /\ k.reply = Answer(k)
  BY <1>0 DEF IInv, RpcFits, k, c
<1>3. /\ k.op = "get" => k.reply = IF content_map[e] = NoEntry THEN IOERR ELSE content_map[e]
      /\ k.op # "get" => k.reply = IF attr_map[e] = NoEntry THEN IOERR ELSE attr_map[e]
  BY <1>2 DEF Answer
<1>4. content_map[e] \in Values \cup {NoEntry} /\ attr_map[e] \in Sizes \cup {NoEntry}
  BY <1>0 DEF TypeOK
<1>5. k.reply \in {IOERR} \cup Values \cup Sizes
  BY <1>1, <1>3, <1>4
<1>6. /\ rpc'[w] = Idle /\ \A v \in Workers : v # w => rpc'[v] = rpc[v]
      /\ rpc' \in [Workers -> Calls]
  BY <1>0 DEF TypeOK, Calls
<1>7. /\ content_map_cache' \in [Clients -> [Extents -> Values \cup {NoEntry}]]
      /\ attr_map_cache' \in [Clients -> [Extents -> Sizes \cup {NoEntry}]]
      /\ content_map_cache'[c][e] \in {content_map_cache[c][e], content_map[e]}
      /\ attr_map_cache'[c][e] \in {attr_map_cache[c][e], attr_map[e]}
      /\ \A d \in Clients, f \in Extents : ~(d = c /\ f = e) =>
           /\ content_map_cache'[d][f] = content_map_cache[d][f]
           /\ attr_map_cache'[d][f] = attr_map_cache[d][f]
  <2>1. CASE k.reply = IOERR /\ UNCHANGED <<content_map_cache, attr_map_cache>>
    BY <1>0, <2>1 DEF TypeOK
  <2>2. CASE /\ k.reply # IOERR /\ k.op = "get"
             /\ content_map_cache' = [content_map_cache EXCEPT ![c][e] = k.reply]
             /\ UNCHANGED attr_map_cache
    <3>1. k.reply = content_map[e] /\ k.reply \in Values
      BY <1>3, <1>4, <2>2
    <3> QED BY <1>0, <2>2, <3>1 DEF TypeOK
  <2>3. CASE /\ k.reply # IOERR /\ k.op = "getattr"
             /\ attr_map_cache' = [attr_map_cache EXCEPT ![c][e] = k.reply]
             /\ UNCHANGED content_map_cache
    <3>1. k.reply = attr_map[e] /\ k.reply \in Sizes
      BY <1>3, <1>4, <2>3
    <3> QED BY <1>0, <2>3, <3>1, SMT DEF TypeOK
  <2> QED BY <2>1, <2>2, <2>3 DEF GetReply, k, c
<1>8. TypeOK'
  <2>1. result' \in [Workers -> {NoEntry, IOERR} \cup (Extents \X (Values \cup Sizes))]
    BY <1>0, <1>5, Results
  <2> QED BY <1>0, <1>6, <1>7, <2>1 DEF TypeOK, server
<1>9. ASSUME NEW v \in Workers PROVE RpcFits(v)'
  <2>1. CASE v = w
    BY <1>6, <2>1 DEF RpcFits
  <2>2. CASE v # w
    <3>1. rpc[v] # Idle => rpc[v].eid \in Extents /\ rpc[v].eid # e
      <4>1. rpc[v] # Idle => rpc[v].eid \in Extents
        BY <1>0, CallKinds DEF TypeOK
      <4>2. rpc[v] # Idle => token[rpc[v].eid] = Lock!At("held", v)
        BY  DEF IInv, RpcFits
      <4> QED BY <1>2, <2>2, <4>1, <4>2, HeldIs, SMT
    <3>2. ClientOf[v] \in Clients
      BY Kinds
    <3> QED BY <1>0, <1>6, <1>7, <2>2, <3>1, <3>2, RpcStays, ZenonT(40) DEF IInv, server
  <2> QED BY <2>1, <2>2
<1>10. e \notin dirty_eid_set[c]
  <2>1. CacheFits(c, e)
    BY <1>0 DEF IInv
  <2>2. content_map_cache[c][e] \in Values \cup {NoEntry}
    BY <1>0, SMT DEF TypeOK
  <2> QED BY <1>1, <1>2, <2>1, <2>2, Kinds DEF CacheFits
<1>11. ASSUME NEW d \in Clients, NEW f \in Extents PROVE CacheFits(d, f)'
  <2>1. CacheFits(d, f)
    BY  DEF IInv
  <2>2. CASE d = c /\ f = e
    <3>1. /\ content_map_cache[c][e] \in {NoEntry, content_map[e]}
          /\ attr_map_cache[c][e] \in {NoEntry, attr_map[e]}
          /\ flush[c][e] = "no"
      BY <1>10, <2>1, <2>2 DEF CacheFits
    <3>2. /\ content_map_cache'[c][e] \in {NoEntry, content_map[e]}
          /\ attr_map_cache'[c][e] \in {NoEntry, attr_map[e]}
      BY <1>7, <3>1
    <3> QED BY <1>0, <1>10, <2>2, <3>1, <3>2 DEF CacheFits, server
  <2>3. CASE ~(d = c /\ f = e)
    <3>1. /\ content_map_cache'[d][f] = content_map_cache[d][f]
          /\ attr_map_cache'[d][f] = attr_map_cache[d][f]
      BY <1>7, <2>3
    <3> QED BY <1>0, <2>1, <3>1 DEF CacheFits, server, Flushing
  <2> QED BY <2>2, <2>3
<1>12. ASSUME NEW f \in Extents PROVE ServerFits(f)' /\ OneDirty(f)'
  BY <1>0 DEF IInv, server, ServerFits, OneDirty
<1>13. NothingStaleKept'
  <2> SUFFICES ASSUME NEW d \in Clients, NEW f \in Extents
               PROVE HasLock(d, f)' \/ token'[f] = Lock!Lost \/ Nothing(d, f)'
    BY DEF NothingStaleKept, Nothing
  <2>1. HasLock(d, f) \/ token[f] = Lock!Lost \/ Nothing(d, f)
    BY  DEF IInv, NothingStaleKept, Nothing
  <2>2. CASE d = c /\ f = e
    BY <1>0, <1>2, <2>2, HeldIs, SMTT(30) DEF HasLock, c
  <2>3. CASE ~(d = c /\ f = e)
    BY <1>0, <1>7, <2>1, <2>3, ZenonT(40) DEF Nothing, HasLock
  <2> QED BY <2>2, <2>3
<1> QED BY <1>8, <1>9, <1>11, <1>12, <1>13 DEF IInv

(* While c has the lock no other client has anything of e.                 *)
LEMMA OthersEmpty ==
  ASSUME IInv, NEW e \in Extents, NEW c \in Clients, token[e] # Lock!Lost,
         \A d : HasLock(d, e) <=> d = c
  PROVE \A d \in Clients : d # c => Nothing(d, e)
BY DEF IInv, NothingStaleKept, Nothing

(* put() to the cache.                                                     *)
LEMMA PutStep ==
  ASSUME IInv, NEW w \in Workers, NEW e \in Extents, NEW x \in Values, put(w, e, x)
  PROVE IInv'
<1> DEFINE c == ClientOf[w]
<1>0. /\ TypeOK /\ c \in Clients /\ token[e] = Lock!At("held", w) /\ rpc[w] = Idle
      /\ content_map_cache' = [content_map_cache EXCEPT ![c][e] = x]
      /\ dirty_eid_set' = [dirty_eid_set EXCEPT ![c] = @ \cup {e}]
      /\ attr_map_cache' = [attr_map_cache EXCEPT ![c][e] = Size[x]]
      /\ UNCHANGED <<token, server, rpc, flush, result>>
  BY Kinds DEF IInv, put, Calling
<1>1. /\ token[e] # Lock!Lost /\ \A d : HasLock(d, e) <=> d = c
      /\ ~Flushing(c, e)
  BY <1>0, HeldIs
<1> HIDE DEF c
<1>2. Size[x] \in Sizes
  BY Kinds
<1>3. /\ content_map_cache'[c][e] = x /\ attr_map_cache'[c][e] = Size[x]
      /\ \A d \in Clients, f \in Extents : ~(d = c /\ f = e) =>
           /\ content_map_cache'[d][f] = content_map_cache[d][f]
           /\ attr_map_cache'[d][f] = attr_map_cache[d][f]
  BY <1>0 DEF TypeOK
<1>4. /\ e \in dirty_eid_set'[c]
      /\ \A d \in Clients, f \in Extents : ~(d = c /\ f = e) =>
           (f \in dirty_eid_set'[d] <=> f \in dirty_eid_set[d])
  BY <1>0 DEF TypeOK
<1>5. TypeOK'
  <2>1. content_map_cache' \in [Clients -> [Extents -> Values \cup {NoEntry}]]
    BY <1>0 DEF TypeOK
  <2>2. attr_map_cache' \in [Clients -> [Extents -> Sizes \cup {NoEntry}]]
    BY <1>0, <1>2 DEF TypeOK
  <2>3. dirty_eid_set' \in [Clients -> SUBSET Extents]
    BY <1>0, SMT DEF TypeOK
  <2> QED BY <1>0, <2>1, <2>2, <2>3 DEF TypeOK, server
<1>6. ASSUME NEW v \in Workers PROVE RpcFits(v)'
  <2>1. rpc[v] # Idle => rpc[v].eid \in Extents
    BY <1>0, CallKinds DEF TypeOK
  <2>2. rpc[v] # Idle => token[rpc[v].eid] = Lock!At("held", v) /\ v # w
    BY <1>0 DEF IInv, RpcFits
  <2>3. rpc[v] # Idle => rpc[v].eid # e
    BY <1>0, <2>2, SMT DEF Lock!At
  <2>4. ClientOf[v] \in Clients
    BY Kinds
  <2> QED BY <1>0, <1>3, <2>1, <2>3, <2>4, RpcStays, ZenonT(40) DEF IInv, server
<1>7. ASSUME NEW d \in Clients, NEW f \in Extents PROVE CacheFits(d, f)'
  <2>1. CacheFits(d, f)
    BY DEF IInv
  <2>2. CASE d = c /\ f = e
    <3>1. flush[c][e] = "no"
      BY <1>1, <2>1, <2>2 DEF CacheFits
    <3>2. x # NoEntry
      BY Kinds
    <3> QED BY <1>0, <1>3, <1>4, <2>2, <3>1, <3>2, ZenonT(40) DEF CacheFits
  <2>3. CASE ~(d = c /\ f = e)
    BY <1>0, <1>3, <1>4, <2>1, <2>3, CacheStays, SMT DEF server
  <2> QED BY <2>2, <2>3
<1>8. ASSUME NEW f \in Extents PROVE ServerFits(f)' /\ OneDirty(f)'
  <2>1. ServerFits(f)'
    BY <1>0 DEF IInv, server, ServerFits
  <2>2. CASE f = e
    <3>1. \A d \in Clients : e \in dirty_eid_set'[d] => d = c
      <4>1. \A d \in Clients : d # c => Nothing(d, e)
        BY <1>0, <1>1, OthersEmpty
      <4>2. ASSUME NEW d \in Clients, d # c PROVE e \notin dirty_eid_set'[d]
        BY <1>4, <4>1, <4>2 DEF Nothing
      <4> QED BY <4>2
    <3> QED BY <2>1, <2>2, <3>1 DEF OneDirty
  <2>3. CASE f # e
    BY <1>4, <2>1, <2>3 DEF OneDirty, IInv
  <2> QED BY <2>2, <2>3
<1>9. NothingStaleKept'
  <2> SUFFICES ASSUME NEW d \in Clients, NEW f \in Extents
               PROVE HasLock(d, f)' \/ token'[f] = Lock!Lost \/ Nothing(d, f)'
    BY  DEF NothingStaleKept, Nothing
  <2>1. HasLock(d, f) \/ token[f] = Lock!Lost \/ Nothing(d, f)
    BY  DEF IInv, NothingStaleKept, Nothing
  <2>2. CASE d = c /\ f = e
    BY <1>0, <1>1, <2>2 DEF HasLock
  <2>3. CASE ~(d = c /\ f = e)
    BY <1>0, <1>3, <1>4, <2>1, <2>3, SMTT(20) DEF Nothing, HasLock
  <2> QED BY <2>2, <2>3
<1> QED BY <1>5, <1>6, <1>7, <1>8, <1>9 DEF IInv

(* flush() sends what is dirty, ...                                        *)
LEMMA FlushSendStep ==
  ASSUME IInv, NEW c \in Clients, NEW e \in Extents, FlushSend(c, e)
  PROVE IInv'
<1>0. /\ TypeOK /\ Flushing(c, e) /\ e \in dirty_eid_set[c]
      /\ flush' = [flush EXCEPT ![c][e] = "sent"]
      /\ UNCHANGED <<token, server, caches, rpc, result>>
  BY DEF IInv, FlushSend
<1>1. /\ flush'[c][e] = "sent"
      /\ \A d \in Clients, f \in Extents : ~(d = c /\ f = e) =>
           flush'[d][f] = flush[d][f]
  BY <1>0, ZenonT(40) DEF TypeOK
<1>2. TypeOK'
  BY <1>0 DEF TypeOK, server, caches
<1>3. ASSUME NEW v \in Workers PROVE RpcFits(v)'
  BY <1>0, RpcStays DEF IInv, server, caches
<1>4. ASSUME NEW d \in Clients, NEW f \in Extents PROVE CacheFits(d, f)'
  <2>1. CacheFits(d, f)
    BY  DEF IInv
  <2>2. CASE d = c /\ f = e
    BY <1>0, <1>1, <2>1, <2>2 DEF CacheFits, Flushing, server, caches
  <2>3. CASE ~(d = c /\ f = e)
    BY <1>0, <1>1, <2>1, <2>3, CacheStays DEF server, caches
  <2> QED BY <2>2, <2>3
<1>5. ASSUME NEW f \in Extents PROVE ServerFits(f)' /\ OneDirty(f)'
  BY <1>0 DEF IInv, server, caches, ServerFits, OneDirty
<1>6. NothingStaleKept'
  BY <1>0, ZenonT(40) DEF IInv, NothingStaleKept, HasLock, caches
<1> QED BY <1>2, <1>3, <1>4, <1>5, <1>6 DEF IInv

(* What is written back is what c has: no other client has the extent, and *)
(* nobody is in a call about it.                                           *)
LEMMA ServerPutIs ==
  ASSUME IInv, NEW c \in Clients, NEW e \in Extents, ServerPut(c, e)
  PROVE /\ Flushing(c, e) /\ e \in dirty_eid_set[c]
        /\ content_map_cache[c][e] \in Values
        /\ content_map' = [content_map EXCEPT ![e] = content_map_cache[c][e]]
        /\ attr_map' = [attr_map EXCEPT ![e] = Size[content_map_cache[c][e]]]
<1>1. CacheFits(c, e) /\ TypeOK /\ flush[c][e] = "sent"
  BY  DEF IInv, ServerPut
<1>2. Flushing(c, e) /\ e \in dirty_eid_set[c] /\ content_map_cache[c][e] # NoEntry
  BY <1>1 DEF CacheFits
<1>3. WriteBack(c, e) = content_map_cache[c][e]
  BY <1>2 DEF WriteBack
<1> QED BY <1>1, <1>2, <1>3, SMT DEF ServerPut, TypeOK

(* ... the server stores it ...                                            *)
LEMMA ServerPutStep ==
  ASSUME IInv, NEW c \in Clients, NEW e \in Extents, ServerPut(c, e)
  PROVE IInv'
<1> DEFINE x == content_map_cache[c][e]
<1>0. /\ TypeOK /\ Flushing(c, e) /\ e \in dirty_eid_set[c] /\ x \in Values
      /\ flush' = [flush EXCEPT ![c][e] = "done"]
      /\ content_map' = [content_map EXCEPT ![e] = x]
      /\ attr_map' = [attr_map EXCEPT ![e] = Size[x]]
      /\ UNCHANGED <<token, caches, rpc, result>>
  BY ServerPutIs, ZenonT(40) DEF IInv, ServerPut
<1>1. Size[x] \in Sizes /\ x # NoEntry
  BY <1>0, Kinds
<1>2. /\ flush'[c][e] = "done"
      /\ content_map'[e] = x /\ attr_map'[e] = Size[x]
      /\ \A d \in Clients, f \in Extents : ~(d = c /\ f = e) =>
           flush'[d][f] = flush[d][f]
      /\ \A f \in Extents : f # e =>
           content_map'[f] = content_map[f] /\ attr_map'[f] = attr_map[f]
  BY <1>0, ZenonT(40) DEF TypeOK
<1>3. TypeOK'
  BY <1>0, <1>1 DEF TypeOK, caches
<1>4. ASSUME NEW v \in Workers PROVE RpcFits(v)'
  <2>1. rpc[v] # Idle => rpc[v].eid \in Extents
    BY <1>0, CallKinds DEF TypeOK
  <2>2. rpc[v] # Idle => rpc[v].eid # e
    BY <1>0, FlushingIs, SMT DEF IInv, RpcFits
  <2> QED BY <1>0, <1>2, <2>1, <2>2, RpcStays DEF IInv, caches
<1>5. ASSUME NEW d \in Clients, NEW f \in Extents PROVE CacheFits(d, f)'
  <2>1. CacheFits(d, f)
    BY DEF IInv
  <2>2. CASE d = c /\ f = e
    BY <1>0, <1>1, <1>2, <2>1, <2>2 DEF CacheFits, Flushing, caches
  <2>3. CASE d # c /\ f = e
    <3>1. Nothing(d, e)
      BY <1>0, <2>3, FlushingIs, OthersEmpty
    <3>2. flush'[d][e] = "no"
      BY <1>2, <2>1, <2>3, <3>1 DEF CacheFits, Nothing
    <3> QED BY <1>0, <2>3, <3>1, <3>2 DEF CacheFits, Nothing, caches
  <2>4. CASE f # e
    BY <1>0, <1>2, <2>1, <2>4, CacheStays, SMTT(20) DEF caches
  <2> QED BY <2>2, <2>3, <2>4
<1>6. ASSUME NEW f \in Extents PROVE ServerFits(f)' /\ OneDirty(f)'
  BY <1>0, <1>1, <1>2, SMTT(20) DEF IInv, caches, ServerFits, OneDirty
<1>7. NothingStaleKept'
  BY <1>0, SMT DEF IInv, NothingStaleKept, HasLock, caches
<1> QED BY <1>3, <1>4, <1>5, <1>6, <1>7 DEF IInv

(* ... and the cache forgets it.                                           *)
LEMMA FlushDoneStep ==
  ASSUME IInv, NEW c \in Clients, NEW e \in Extents, FlushDone(c, e)
  PROVE IInv'
<1>0. /\ TypeOK /\ Flushing(c, e)
      /\ flush' = [flush EXCEPT ![c][e] = "no"]
      /\ dirty_eid_set' = [dirty_eid_set EXCEPT ![c] = @ \ {e}]
      /\ content_map_cache' = [content_map_cache EXCEPT ![c][e] = NoEntry]
      /\ attr_map_cache' = [attr_map_cache EXCEPT ![c][e] = NoEntry]
      /\ token' = [token EXCEPT ![e] = Lock!At("released", c)]
      /\ UNCHANGED <<server, rpc, result>>
  BY  DEF IInv, FlushDone
<1>1. /\ token'[e] = Lock!At("released", c)
      /\ \A f \in Extents : f # e => token'[f] = token[f]
      /\ token' \in [Extents -> Lock!Token]
  <2>1. Lock!At("released", c) \in Lock!Token
    BY  DEF Lock!Token, Lock!At
  <2> QED BY <1>0, <2>1 DEF TypeOK
<1>2. /\ flush'[c][e] = "no" /\ content_map_cache'[c][e] = NoEntry
      /\ attr_map_cache'[c][e] = NoEntry /\ e \notin dirty_eid_set'[c]
  BY <1>0 DEF TypeOK
<1>3. ASSUME NEW d \in Clients, NEW f \in Extents, ~(d = c /\ f = e)
      PROVE /\ flush'[d][f] = flush[d][f]
            /\ content_map_cache'[d][f] = content_map_cache[d][f]
            /\ attr_map_cache'[d][f] = attr_map_cache[d][f]
            /\ f \in dirty_eid_set'[d] <=> f \in dirty_eid_set[d]
  BY <1>0, <1>3 DEF TypeOK
<1>4. TypeOK'
  BY <1>0, <1>1 DEF TypeOK, server
<1>5. ASSUME NEW v \in Workers PROVE RpcFits(v)'
  <2>1. rpc[v] # Idle => rpc[v].eid \in Extents
    BY <1>0, CallKinds DEF TypeOK
  <2>2. rpc[v] # Idle => rpc[v].eid # e
    BY <1>0, FlushingIs, SMT DEF IInv, RpcFits
  <2>3. ClientOf[v] \in Clients
    BY Kinds, ZenonT(40)
  <2> QED BY <1>0, <1>1, <1>3, <2>1, <2>2, <2>3, RpcStays, ZenonT(40) DEF IInv, server
<1>6. ASSUME NEW d \in Clients PROVE Nothing(d, e)'
  <2>1. d # c => Nothing(d, e)
    BY <1>0, FlushingIs, OthersEmpty
  <2> QED BY <1>2, <1>3, <2>1 DEF Nothing
<1>7. ASSUME NEW d \in Clients, NEW f \in Extents PROVE CacheFits(d, f)'
  <2>1. CacheFits(d, f)
    BY DEF IInv
  <2>2. CASE d = c /\ f = e
    BY <1>2, <2>2 DEF CacheFits
  <2>3. CASE d # c /\ f = e
    <3>1. Nothing(d, e)
      BY <1>0, <2>3, FlushingIs, OthersEmpty
    <3>2. flush'[d][e] = "no"
      BY <1>3, <2>1, <2>3, <3>1 DEF CacheFits, Nothing
    <3> QED BY <1>6, <2>3, <3>2 DEF CacheFits, Nothing
  <2>4. CASE f # e
    BY <1>0, <1>1, <1>3, <2>1, <2>4, CacheStays, SMT DEF server
  <2> QED BY <2>2, <2>3, <2>4, SMTT(20)
<1>8. ASSUME NEW f \in Extents PROVE ServerFits(f)' /\ OneDirty(f)'
  <2>1. ServerFits(f)'
    BY <1>0 DEF IInv, server, ServerFits
  <2>2. CASE f = e
    BY <1>6, <2>1, <2>2 DEF OneDirty, Nothing
  <2>3. CASE f # e
    BY <1>3, <2>1, <2>3, ZenonT(40) DEF OneDirty, IInv
  <2> QED BY <2>2, <2>3
<1>9. NothingStaleKept'
  <2> SUFFICES ASSUME NEW d \in Clients, NEW f \in Extents
               PROVE HasLock(d, f)' \/ token'[f] = Lock!Lost \/ Nothing(d, f)'
    BY  DEF NothingStaleKept, Nothing
  <2>1. HasLock(d, f) \/ token[f] = Lock!Lost \/ Nothing(d, f)
    BY DEF IInv, NothingStaleKept, Nothing
  <2>2. CASE f = e
    BY <1>6, <2>2
  <2>3. CASE f # e
    BY <1>1, <1>3, <2>1, <2>3 DEF Nothing, HasLock
  <2> QED BY <2>2, <2>3
<1> QED BY <1>4, <1>5, <1>7, <1>8, <1>9 DEF IInv
-----------------------------------------------------------------------------
(* All steps.                                                              *)
LEMMA Inductive == IInv /\ [Next]_vars => IInv'
<1> SUFFICES ASSUME IInv, [Next]_vars PROVE IInv'
  OBVIOUS
<1>1. CASE UNCHANGED vars
  <2>1. UNCHANGED <<token, server, caches, rpc, flush, result>>
    BY <1>1 DEF vars
  <2>2. TypeOK'
    BY <2>1 DEF IInv, TypeOK, server, caches
  <2>3. \A w \in Workers : RpcFits(w)'
    BY <2>1, RpcStays DEF IInv, server, caches
  <2> QED BY <2>1, <2>2, <2>3, CallsOnly
<1>2. ASSUME NEW e \in Extents, NEW tk \in Lock!Token, LockMoves(e, tk) PROVE IInv'
  BY <1>2, LockMovesStep
<1>3. ASSUME NEW w \in Workers, ServerGet(w) \/ GetReply(w) PROVE IInv'
  BY <1>3, ServerGetStep, GetReplyStep
<1>4. ASSUME NEW w \in Workers, NEW e \in Extents,
             get(w, e) \/ getattr(w, e) \/ \E v \in Values : put(w, e, v)
      PROVE IInv'
  BY <1>4, GetStep, PutStep
<1>5. ASSUME NEW c \in Clients, NEW e \in Extents,
             FlushSend(c, e) \/ ServerPut(c, e) \/ FlushDone(c, e)
      PROVE IInv'
  BY <1>5, FlushSendStep, ServerPutStep, FlushDoneStep
<1> QED BY <1>1, <1>2, <1>3, <1>4, <1>5 DEF Next

(* Everything a thread, a client or the server knows of an extent fits, at *)
(* every moment of get, getattr, put and flush.                            *)
THEOREM Invariant == Spec => []IInv
BY Initially, Inductive, PTL DEF Spec

(* Every variable of the extent service keeps its type: extent_client      *)
(* never caches an error.                                                  *)
THEOREM TypeCorrect == Spec => []TypeOK
<1>1. IInv => TypeOK
  BY DEF IInv
<1> QED BY <1>1, Invariant, PTL

(* A client whose lock on an extent is gone has nothing of it left, since  *)
(* dorelease flushes and removes it before the lock goes.                  *)
THEOREM NothingStale == Spec => []NothingStaleKept
<1>1. IInv => NothingStaleKept
  BY DEF IInv
<1> QED BY <1>1, Invariant, PTL
-----------------------------------------------------------------------------
(* The one copy: the dirty client's, or the server's.                      *)
LEMMA StoreIs ==
  IInv => \A e \in Extents :
    /\ \A c \in Clients : e \in dirty_eid_set[c] => StoreOf(e) = content_map_cache[c][e]
    /\ (\A c \in Clients : e \notin dirty_eid_set[c]) => StoreOf(e) = content_map[e]
<1> SUFFICES ASSUME IInv, NEW e \in Extents
             PROVE /\ \A c \in Clients :
                        e \in dirty_eid_set[c] => StoreOf(e) = content_map_cache[c][e]
                   /\ (\A c \in Clients : e \notin dirty_eid_set[c]) =>
                        StoreOf(e) = content_map[e]
  OBVIOUS
<1>1. ASSUME NEW c \in Clients, e \in dirty_eid_set[c]
      PROVE StoreOf(e) = content_map_cache[c][e]
  <2> DEFINE d == CHOOSE x \in Clients : e \in dirty_eid_set[x]
  <2>1. d \in Clients /\ e \in dirty_eid_set[d]
    BY <1>1
  <2>2. d = c
    BY <1>1, <2>1 DEF IInv, OneDirty
  <2>3. StoreOf(e) = content_map_cache[d][e]
    BY <1>1 DEF StoreOf
  <2> QED BY <2>2, <2>3
<1>2. (\A c \in Clients : e \notin dirty_eid_set[c]) => StoreOf(e) = content_map[e]
  BY DEF StoreOf
<1> QED BY <1>1, <1>2

(* The abstract content after a step.                                      *)
LEMMA StoreIsNext ==
  IInv' => (\A e \in Extents :
    /\ \A c \in Clients : e \in dirty_eid_set[c] => StoreOf(e) = content_map_cache[c][e]
    /\ (\A c \in Clients : e \notin dirty_eid_set[c]) => StoreOf(e) = content_map[e])'
BY StoreIs, PTL

(* What the holder of the lock finds in its cache, or is told, is the one  *)
(* copy.                                                                   *)
LEMMA HolderSees ==
  ASSUME IInv, NEW w \in Workers, NEW e \in Extents, token[e] = Lock!At("held", w)
  PROVE LET c == ClientOf[w] IN
        /\ content_map_cache[c][e] # NoEntry => StoreOf(e) = content_map_cache[c][e]
        /\ attr_map_cache[c][e] # NoEntry =>
             StoreOf(e) # NoEntry /\ attr_map_cache[c][e] = Size[StoreOf(e)]
        /\ content_map_cache[c][e] = NoEntry \/ attr_map_cache[c][e] = NoEntry =>
             StoreOf(e) = content_map[e]
<1> DEFINE c == ClientOf[w]
<1>1. c \in Clients
  BY Kinds
<1>2. \A d \in Clients : d # c => e \notin dirty_eid_set[d]
  <2>1. token[e] # Lock!Lost /\ \A d : HasLock(d, e) <=> d = c
    BY HeldIs
  <2>2. \A d \in Clients : d # c => Nothing(d, e)
    BY <1>1, <2>1, OthersEmpty
  <2> QED BY <2>2 DEF Nothing
<1>3. CacheFits(c, e) /\ ServerFits(e) /\ TypeOK
  BY <1>1 DEF IInv
<1> HIDE DEF c
<1>4. CASE e \in dirty_eid_set[c]
  <2>1. StoreOf(e) = content_map_cache[c][e]
    BY <1>1, <1>4, StoreIs, ZenonT(40)
  <2>2. content_map_cache[c][e] \in Values
        /\ attr_map_cache[c][e] = Size[content_map_cache[c][e]]
    BY <1>1, <1>3, <1>4, SMTT(30) DEF CacheFits, TypeOK
  <2>3. attr_map_cache[c][e] # NoEntry /\ content_map_cache[c][e] # NoEntry
    BY <2>2, Kinds
  <2> QED BY <2>1, <2>2, <2>3 DEF c
<1>5. CASE e \notin dirty_eid_set[c]
  <2>1. StoreOf(e) = content_map[e]
    BY <1>2, <1>5, StoreIs, ZenonT(40)
  <2>2. /\ content_map_cache[c][e] \in {NoEntry, content_map[e]}
        /\ attr_map_cache[c][e] \in {NoEntry, attr_map[e]}
    BY <1>3, <1>5 DEF CacheFits
  <2> QED BY <1>3, <2>1, <2>2 DEF c, ServerFits
<1> QED BY <1>4, <1>5

(* The store is what its extents are.                                      *)
LEMMA SameStore ==
  ASSUME \A e \in Extents : StoreOf(e)' = StoreOf(e)
  PROVE [e \in Extents |-> StoreOf(e)]' = [e \in Extents |-> StoreOf(e)]
OBVIOUS 

(* If the dirty copies and the server stay, so does the store.             *)
LEMMA StoreStays ==
  ASSUME UNCHANGED <<content_map, content_map_cache, dirty_eid_set>>
  PROVE \A e \in Extents : StoreOf(e)' = StoreOf(e)
BY DEF StoreOf

Simulates == Abstract!Next \/ UNCHANGED <<[e \in Extents |-> StoreOf(e)], result>>

(* A step that leaves the one copy and the results alone is no step of the *)
(* store.                                                                  *)
LEMMA Unseen ==
  ASSUME \A e \in Extents : StoreOf(e)' = StoreOf(e), UNCHANGED result
  PROVE Simulates
BY SameStore DEF Simulates

(* A get or getattr that returns the one copy, or its size.                *)
LEMMA Told ==
  ASSUME NEW w \in Workers, NEW e \in Extents, NEW x, Returns(w, e, x),
         \A f \in Extents : StoreOf(f)' = StoreOf(f),
         \/ x = IF StoreOf(e) = NoEntry THEN IOERR ELSE StoreOf(e)
         \/ x = IF StoreOf(e) = NoEntry THEN IOERR ELSE Size[StoreOf(e)],
         x = IOERR => StoreOf(e) = NoEntry
  PROVE Simulates
<1> DEFINE store == [f \in Extents |-> StoreOf(f)]
<1>1. store' = store
  BY SameStore
<1>2. store[e] = StoreOf(e)
  OBVIOUS 
<1>3. CASE x = IF StoreOf(e) = NoEntry THEN IOERR ELSE StoreOf(e)
  <2>1. result' = [result EXCEPT ![w] = IF store[e] = NoEntry THEN IOERR ELSE <<e, store[e]>>]
    BY <1>2, <1>3 DEF Returns
  <2>2. Abstract!Get(w, e)
    BY <1>1, <2>1 DEF Abstract!Get
  <2> QED BY <2>2 DEF Simulates, Abstract!Next
<1>4. CASE x = IF StoreOf(e) = NoEntry THEN IOERR ELSE Size[StoreOf(e)]
  <2>1. result' = [result EXCEPT ![w] = IF store[e] = NoEntry THEN IOERR
                                        ELSE <<e, Size[store[e]]>>]
    BY <1>2, <1>4 DEF Returns
  <2>2. Abstract!GetAttr(w, e)
    BY <1>1, <2>1, ZenonT(40) DEF Abstract!GetAttr
  <2> QED BY <2>2 DEF Simulates, Abstract!Next
<1> QED BY <1>3, <1>4

(* A hit returns what the store has.                                       *)
LEMMA GetSimulates ==
  ASSUME IInv, NEW w \in Workers, NEW e \in Extents, get(w, e) \/ getattr(w, e)
  PROVE Simulates
<1> DEFINE c == ClientOf[w]
<1>0. /\ token[e] = Lock!At("held", w) /\ c \in Clients /\ TypeOK
      /\ \A f \in Extents : StoreOf(f)' = StoreOf(f)
  <2>1. UNCHANGED <<server, caches>>
    BY DEF get, getattr
  <2> QED BY <2>1, StoreStays, Kinds, ZenonT(40) DEF IInv, get, getattr, Calling, server, caches
<1>1. CASE UNCHANGED result
  BY <1>0, <1>1, Unseen
<1>2. CASE /\ content_map_cache[c][e] # NoEntry
           /\ Returns(w, e, content_map_cache[c][e])
  <2>1. StoreOf(e) = content_map_cache[c][e] /\ content_map_cache[c][e] # IOERR
    <3>1. content_map_cache[c][e] \in Values
      BY <1>0, <1>2, SMT DEF TypeOK
    <3> QED BY <1>0, <1>2, <3>1, HolderSees, Kinds
  <2> QED BY <1>0, <1>2, <2>1, Told, ZenonT(40)
<1>3. CASE /\ attr_map_cache[c][e] # NoEntry
           /\ Returns(w, e, attr_map_cache[c][e])
  <2>1. StoreOf(e) # NoEntry /\ attr_map_cache[c][e] = Size[StoreOf(e)]
    BY <1>0, <1>3, HolderSees
  <2>2. attr_map_cache[c][e] # IOERR
    <3>1. attr_map_cache[c][e] \in Sizes
      BY <1>0, <1>3, SMT DEF TypeOK
    <3> QED BY <3>1, Kinds
  <2> QED BY <1>0, <1>3, <2>1, <2>2, Told
<1> QED BY <1>1, <1>2, <1>3 DEF get, getattr

(* So does a reply.                                                        *)
LEMMA GetReplySimulates ==
  ASSUME IInv, IInv', NEW w \in Workers, GetReply(w)
  PROVE Simulates
<1> DEFINE k == rpc[w]
           c == ClientOf[w]
<1>0. /\ TypeOK /\ c \in Clients /\ k \in Calls /\ k # Idle /\ k.reply # None
      /\ Returns(w, k.eid, k.reply)
      /\ UNCHANGED <<server, dirty_eid_set>>
  BY Kinds DEF IInv, TypeOK, GetReply
<1>1. k.op \in {"get", "getattr"} /\ k.eid \in Extents
  BY <1>0, CallKinds
<1> HIDE DEF k, c
<1> PICK e \in Extents : k.eid = e
  BY <1>1
<1>2. /\ token[e] = Lock!At("held", w)
      /\ k.op = "get" => content_map_cache[c][e] = NoEntry
      /\ k.op = "getattr" => attr_map_cache[c][e] = NoEntry
      /\ k.reply = Answer(k)
  BY <1>0 DEF IInv, RpcFits, k, c
<1>3. StoreOf(e) = content_map[e] /\ ServerFits(e)
  BY <1>1, <1>2, HolderSees DEF IInv, c
<1>4. content_map[e] \in Values \cup {NoEntry} /\ attr_map[e] \in Sizes \cup {NoEntry}
  BY <1>0 DEF TypeOK
<1>5. ASSUME NEW f \in Extents PROVE StoreOf(f)' = StoreOf(f)
  <2>1. CASE \A d \in Clients : f \notin dirty_eid_set[d]
    <3>1. StoreOf(f) = content_map[f]
      BY <2>1, StoreIs
    <3>2. StoreOf(f)' = content_map'[f]
      BY <1>0, <2>1, StoreIsNext
    <3> QED BY <1>0, <3>1, <3>2 DEF server
  <2>2. ASSUME NEW d \in Clients, f \in dirty_eid_set[d] PROVE StoreOf(f)' = StoreOf(f)
    <3>1. StoreOf(f) = content_map_cache[d][f]
      BY <2>2, StoreIs
    <3>2. StoreOf(f)' = content_map_cache'[d][f]
      BY <1>0, <2>2, StoreIsNext
    <3>3. CacheFits(d, f) /\ content_map_cache[d][f] # NoEntry
      BY <2>2, ZenonT(40) DEF IInv, CacheFits
    <3>4. /\ attr_map_cache[d][f] = Size[content_map_cache[d][f]]
          /\ content_map_cache[d][f] \in Values
      BY <1>0, <2>2, <3>3, SMT DEF CacheFits, TypeOK
    <3>5. ~(k.op = "get" /\ d = c /\ f = e)
      BY <1>2, <3>3, ZenonT(40)
    <3>6. content_map_cache'[d][f] = content_map_cache[d][f]
      <4>1. \/ UNCHANGED content_map_cache
            \/ /\ k.op = "get"
               /\ content_map_cache' = [content_map_cache EXCEPT ![c][e] = k.reply]
        BY  DEF GetReply, k, c
      <4> QED BY <1>0, <3>5, <4>1, SMT DEF TypeOK
    <3> QED BY <3>1, <3>2, <3>6
  <2> QED BY <2>1, <2>2
<1>6. CASE k.op = "get"
  <2>1. k.reply = IF content_map[e] = NoEntry THEN IOERR ELSE content_map[e]
    BY <1>2, <1>6 DEF Answer
  <2>2. k.reply = IOERR => content_map[e] = NoEntry
    BY <1>4, <2>1, Kinds
  <2> QED BY <1>0, <1>3, <1>5, <2>1, <2>2, Told, ZenonT(40)
<1>7. CASE k.op = "getattr"
  <2>1. k.reply = IF attr_map[e] = NoEntry THEN IOERR ELSE attr_map[e]
    BY <1>2, <1>7 DEF Answer
  <2>2. attr_map[e] = IF content_map[e] = NoEntry THEN NoEntry ELSE Size[content_map[e]]
    BY <1>3 DEF ServerFits
  <2>3. content_map[e] # NoEntry => Size[content_map[e]] \in Sizes
    BY <1>4, Kinds
  <2>4. k.reply = IF content_map[e] = NoEntry THEN IOERR ELSE Size[content_map[e]]
    BY <2>1, <2>2, <2>3, Kinds
  <2>5. k.reply = IOERR => content_map[e] = NoEntry
    BY <2>3, <2>4, Kinds
  <2> QED BY <1>0, <1>3, <1>5, <2>4, <2>5, Told
<1> QED BY <1>1, <1>6, <1>7

(* put() is the put of the store.                                          *)
LEMMA PutSimulates ==
  ASSUME IInv, IInv', NEW w \in Workers, NEW e \in Extents, NEW x \in Values,
         put(w, e, x)
  PROVE Simulates
<1> DEFINE c == ClientOf[w]
           store == [f \in Extents |-> StoreOf(f)]
<1>0. /\ TypeOK /\ c \in Clients
      /\ content_map_cache' = [content_map_cache EXCEPT ![c][e] = x]
      /\ dirty_eid_set' = [dirty_eid_set EXCEPT ![c] = @ \cup {e}]
      /\ UNCHANGED <<server, result>>
  BY Kinds DEF IInv, put
<1> HIDE DEF c
<1>1. StoreOf(e)' = x
  <2>1. e \in dirty_eid_set'[c] /\ content_map_cache'[c][e] = x
    BY <1>0 DEF TypeOK
  <2> QED BY <1>0, <2>1, StoreIsNext
<1>2. ASSUME NEW f \in Extents, f # e PROVE StoreOf(f)' = StoreOf(f)
  <2>1. \A d \in Clients : /\ f \in dirty_eid_set'[d] <=> f \in dirty_eid_set[d]
                           /\ content_map_cache'[d][f] = content_map_cache[d][f]
    BY <1>0, <1>2 DEF TypeOK
  <2>2. CASE \A d \in Clients : f \notin dirty_eid_set[d]
    <3>1. StoreOf(f) = content_map[f]
      BY <2>2, StoreIs, ZenonT(40)
    <3>2. StoreOf(f)' = content_map'[f]
      BY <2>1, <2>2, StoreIsNext
    <3> QED BY <1>0, <3>1, <3>2 DEF server
  <2>3. ASSUME NEW d \in Clients, f \in dirty_eid_set[d] PROVE StoreOf(f)' = StoreOf(f)
    <3>1. StoreOf(f) = content_map_cache[d][f]
      BY <2>3, StoreIs, ZenonT(40)
    <3>2. StoreOf(f)' = content_map_cache'[d][f]
      BY <2>1, <2>3, StoreIsNext
    <3> QED BY <2>1, <3>1, <3>2
  <2> QED BY <2>2, <2>3
<1>3. store' = [store EXCEPT ![e] = x]
  <2>1. \A f \in Extents : StoreOf(f)' = IF f = e THEN x ELSE StoreOf(f)
    BY <1>1, <1>2
  <2>2. store' = [f \in Extents |-> IF f = e THEN x ELSE StoreOf(f)]
    BY <2>1
  <2> QED BY <2>2
<1>4. Abstract!Put(e, x)
  BY <1>0, <1>3 DEF Abstract!Put
<1> QED BY <1>4 DEF Simulates, Abstract!Next

(* The server gets what the one copy already was: still c's until c clears *)
(* its dirty mark, and by then the server has the same.                    *)
LEMMA ServerPutSimulates ==
  ASSUME IInv, IInv', NEW c \in Clients, NEW e \in Extents, ServerPut(c, e)
  PROVE Simulates
<1>0. /\ TypeOK /\ e \in dirty_eid_set[c]
      /\ content_map' = [content_map EXCEPT ![e] = content_map_cache[c][e]]
      /\ UNCHANGED <<caches, result>>
  BY ServerPutIs DEF IInv, ServerPut
<1>1. ASSUME NEW f \in Extents PROVE StoreOf(f)' = StoreOf(f)
  <2>1. CASE \A d \in Clients : f \notin dirty_eid_set[d]
    <3>1. StoreOf(f) = content_map[f]
      BY <2>1, StoreIs
    <3>2. StoreOf(f)' = content_map'[f]
      BY <1>0, <2>1, StoreIsNext DEF caches
    <3>3. f # e
      BY <1>0, <2>1
    <3> QED BY <1>0, <3>1, <3>2, <3>3 DEF TypeOK
  <2>2. ASSUME NEW d \in Clients, f \in dirty_eid_set[d] PROVE StoreOf(f)' = StoreOf(f)
    <3>1. StoreOf(f) = content_map_cache[d][f]
      BY <2>2, StoreIs
    <3>2. StoreOf(f)' = content_map_cache'[d][f]
      BY <1>0, <2>2, StoreIsNext DEF caches
    <3> QED BY <1>0, <3>1, <3>2 DEF caches
  <2> QED BY <2>1, <2>2
<1> QED BY <1>0, <1>1, Unseen

(* The end of a flush changes nothing of the store.                        *)
LEMMA FlushDoneSimulates ==
  ASSUME IInv, IInv', NEW c \in Clients, NEW e \in Extents, FlushDone(c, e)
  PROVE Simulates
<1>0. /\ TypeOK /\ Flushing(c, e) /\ (e \in dirty_eid_set[c] => flush[c][e] = "done")
      /\ dirty_eid_set' = [dirty_eid_set EXCEPT ![c] = @ \ {e}]
      /\ content_map_cache' = [content_map_cache EXCEPT ![c][e] = NoEntry]
      /\ UNCHANGED <<server, result>>
  BY DEF IInv, FlushDone
<1>1. StoreOf(e)' = StoreOf(e)
  <2>1. \A d \in Clients : d # c => e \notin dirty_eid_set[d]
    <3>1. token[e] # Lock!Lost /\ \A d : HasLock(d, e) <=> d = c
      BY <1>0, FlushingIs
    <3>2. \A d \in Clients : d # c => Nothing(d, e)
      BY <3>1, OthersEmpty
    <3> QED BY <3>2 DEF Nothing
  <2>2. \A d \in Clients : e \notin dirty_eid_set'[d]
    BY <1>0, <2>1 DEF TypeOK
  <2>3. StoreOf(e)' = content_map'[e]
    BY <2>2, StoreIsNext
  <2>4. CASE e \in dirty_eid_set[c]
    <3>1. StoreOf(e) = content_map_cache[c][e]
      BY <2>4, StoreIs
    <3>2. CacheFits(c, e)
      BY  DEF IInv
    <3>3. content_map[e] = content_map_cache[c][e]
      BY <1>0, <2>4, <3>2 DEF CacheFits
    <3> QED BY <1>0, <2>3, <3>1, <3>3 DEF server
  <2>5. CASE e \notin dirty_eid_set[c]
    <3>1. StoreOf(e) = content_map[e]
      BY <2>1, <2>5, StoreIs
    <3> QED BY <1>0, <2>3, <3>1 DEF server
  <2> QED BY <2>4, <2>5
<1>2. ASSUME NEW f \in Extents, f # e PROVE StoreOf(f)' = StoreOf(f)
  <2>1. \A d \in Clients : /\ f \in dirty_eid_set'[d] <=> f \in dirty_eid_set[d]
                           /\ content_map_cache'[d][f] = content_map_cache[d][f]
    BY <1>0, <1>2 DEF TypeOK
  <2>2. CASE \A d \in Clients : f \notin dirty_eid_set[d]
    <3>1. StoreOf(f) = content_map[f]
      BY <2>2, StoreIs
    <3>2. StoreOf(f)' = content_map'[f]
      BY <2>1, <2>2, StoreIsNext
    <3> QED BY <1>0, <3>1, <3>2, ZenonT(40) DEF server
  <2>3. ASSUME NEW d \in Clients, f \in dirty_eid_set[d] PROVE StoreOf(f)' = StoreOf(f)
    <3>1. StoreOf(f) = content_map_cache[d][f]
      BY <2>3, StoreIs
    <3>2. StoreOf(f)' = content_map_cache'[d][f]
      BY <2>1, <2>3, StoreIsNext
    <3> QED BY <2>1, <3>1, <3>2, ZenonT(40)
  <2> QED BY <2>2, <2>3
<1>3. \A f \in Extents : StoreOf(f)' = StoreOf(f)
  BY <1>1, <1>2
<1> QED BY <1>0, <1>3, Unseen

(* Every step is one of ExtentStore or a stutter.                          *)
LEMMA StepSimulates ==
  ASSUME IInv, IInv', [Next]_vars
  PROVE Simulates
<1>1. ASSUME UNCHANGED <<server, caches, result>> PROVE Simulates
  BY <1>1, StoreStays, Unseen DEF server, caches
<1>2. CASE UNCHANGED vars
  BY <1>1, <1>2 DEF vars
<1>3. ASSUME NEW e \in Extents, NEW tk \in Lock!Token, LockMoves(e, tk) PROVE Simulates
  BY <1>1, <1>3 DEF LockMoves
<1>4. ASSUME NEW w \in Workers, ServerGet(w) \/ GetReply(w) PROVE Simulates
  <2>1. CASE ServerGet(w)
    BY <1>1, <2>1 DEF ServerGet
  <2> QED BY <1>4, <2>1, GetReplySimulates
<1>5. ASSUME NEW w \in Workers, NEW e \in Extents,
             get(w, e) \/ getattr(w, e) \/ \E v \in Values : put(w, e, v)
      PROVE Simulates
  BY <1>5, GetSimulates, PutSimulates
<1>6. ASSUME NEW c \in Clients, NEW e \in Extents,
             FlushSend(c, e) \/ ServerPut(c, e) \/ FlushDone(c, e)
      PROVE Simulates
  <2>1. CASE FlushSend(c, e)
    BY <1>1, <2>1 DEF FlushSend
  <2> QED BY <1>6, <2>1, ServerPutSimulates, FlushDoneSimulates
<1> QED BY <1>2, <1>3, <1>4, <1>5, <1>6 DEF Next

(* The first store.                                                        *)
LEMMA StoreInitially == Init => Abstract!Init
<1> SUFFICES ASSUME Init PROVE Abstract!Init
  OBVIOUS
<1>1. \A e \in Extents : StoreOf(e) = content_map[e]
  BY DEF Init, StoreOf
<1> QED BY <1>1 DEF Init, Abstract!Init

(* Whatever the interleaving of the clients' calls, lock movements and     *)
(* flushes, every step of the extent service is a put, a get or a getattr  *)
(* of one store, or changes nothing of it: a get returns what the last put *)
(* of any client wrote.                                                    *)
THEOREM Refines == Spec => ImplementsExtentStore
<1>1. IInv /\ IInv' /\ [Next]_vars
        => [Abstract!Next]_<<[e \in Extents |-> StoreOf(e)], result>>
  BY StepSimulates DEF Simulates
<1> QED BY <1>1, StoreInitially, Invariant, PTL DEF Spec, ImplementsExtentStore, Abstract!Spec
-----------------------------------------------------------------------------
(* Part 2, YfsFile: what read, write and updatesize of yfs_client.cc do to *)
(* the bytes of a file. FileTypeOK is inductive by itself; the three       *)
(* action properties follow from it step by step.                          *)

(* The files within the bound are the sequences of bytes not longer than   *)
(* it.                                                                     *)
LEMMA BuffersAre ==
  ASSUME NEW s
  PROVE  s \in Buffers <=> s \in Seq(Byte) /\ Len(s) <= MaxSize
<1>0. MaxSize \in Nat
  BY YfsFileAssumption
<1>1. ASSUME s \in Buffers
      PROVE  s \in Seq(Byte) /\ Len(s) <= MaxSize
  <2>1. PICK n \in 0..MaxSize : s \in [1..n -> Byte]
    BY <1>1 DEF Buffers
  <2>2. s \in Seq(Byte) /\ Len(s) = n
    BY <2>1, SMT
  <2> QED BY <2>2, <1>0, SMT
<1>2. ASSUME s \in Seq(Byte), Len(s) <= MaxSize
      PROVE  s \in Buffers
  <2>1. Len(s) \in 0..MaxSize /\ s \in [1..Len(s) -> Byte]
    BY <1>0, <1>2, SMT
  <2> QED BY <2>1 DEF Buffers
<1> QED
  BY <1>1, <1>2

(* A gap is filled with 0 bytes (yfs_client.cc:356, 369).                  *)
LEMMA ZerosAre ==
  ASSUME NEW n \in Nat
  PROVE  Zeros(n) \in Seq(Byte) /\ Len(Zeros(n)) = n /\ \A i \in 1..n : Zeros(n)[i] = 0
  BY SMT DEF Zeros, Byte

(* Appending one byte sequence to another keeps both.                      *)
LEMMA JoinedAre ==
  ASSUME NEW s \in Seq(Byte), NEW t \in Seq(Byte)
  PROVE  /\ s \o t \in Seq(Byte) /\ Len(s \o t) = Len(s) + Len(t)
         /\ \A i \in 1..Len(s) : (s \o t)[i] = s[i]
         /\ \A i \in 1..Len(t) : (s \o t)[Len(s) + i] = t[i]
<1>1. s \o t \in Seq(Byte) /\ Len(s \o t) = Len(s) + Len(t)
  BY ConcatProperties
<1> QED
  BY <1>1, SMT

(* A part of a sequence.                                                   *)
LEMMA SliceIs ==
  ASSUME NEW S, NEW s \in Seq(S), NEW m \in Nat, NEW n \in Nat,
         m >= 1, m <= n + 1, n <= Len(s)
  PROVE  /\ SubSeq(s, m, n) \in Seq(S)
         /\ Len(SubSeq(s, m, n)) = n - m + 1
         /\ \A i \in 1..(n - m + 1) : SubSeq(s, m, n)[i] = s[m + i - 1]
<1> DEFINE t == SubSeq(s, m, n)
<1>1. m \in Int /\ n \in Int /\ \A i \in m..n : s[i] \in S
  BY SMTT(20)
<1>2. /\ t \in Seq(S) /\ Len(t) = IF m <= n THEN n - m + 1 ELSE 0
      /\ \A i \in 1..(n - m + 1) : t[i] = s[m + i - 1]
  BY <1>1, SubSeqProperties, SMTT(20)
<1> HIDE DEF t
<1>3. Len(t) = n - m + 1
  BY <1>2, SMTT(20)
<1> QED
  BY <1>2, <1>3 DEF t

(* std::string::substr(pos, n) for a position within the string.           *)
LEMMA substrIs ==
  ASSUME NEW s \in Seq(Byte), NEW pos \in 0..Len(s), NEW n \in Nat
  PROVE  /\ substr(s, pos, n) \in Seq(Byte)
         /\ Len(substr(s, pos, n)) = Lower(n, Len(s) - pos)
         /\ \A i \in 1..Len(substr(s, pos, n)) : substr(s, pos, n)[i] = s[pos + i]
<1> DEFINE m == pos + 1
           k == Lower(pos + n, Len(s))
           t == SubSeq(s, m, k)
<1>1. m \in Nat /\ k \in Nat /\ m >= 1 /\ m <= k + 1 /\ k <= Len(s)
  BY SMTT(20) DEF Lower
<1>2. k - m + 1 = Lower(n, Len(s) - pos) /\ \A i \in Nat : m + i - 1 = pos + i
  BY SMTT(20) DEF Lower
<1>3. substr(s, pos, n) = t
  BY DEF substr
<1> HIDE DEF m, k
<1>4. /\ t \in Seq(Byte) /\ Len(t) = k - m + 1
      /\ \A i \in 1..(k - m + 1) : t[i] = s[m + i - 1]
  BY <1>1, SliceIs, SMTT(20)
<1> HIDE DEF t
<1>5. \A i \in 1..Len(t) : i \in Nat
  BY SMTT(20)
<1> QED
  BY <1>2, <1>3, <1>4, <1>5

(* std::string::substr(pos) for a position within the string.              *)
LEMMA fromIs ==
  ASSUME NEW s \in Seq(Byte), NEW pos \in 0..Len(s)
  PROVE  /\ from(s, pos) \in Seq(Byte)
         /\ Len(from(s, pos)) = Len(s) - pos
         /\ \A i \in 1..Len(from(s, pos)) : from(s, pos)[i] = s[pos + i]
<1> DEFINE m == pos + 1
           t == SubSeq(s, m, Len(s))
<1>1. m \in Nat /\ Len(s) \in Nat /\ m >= 1 /\ m <= Len(s) + 1 /\ Len(s) <= Len(s)
  BY SMTT(20)
<1>2. Len(s) - m + 1 = Len(s) - pos /\ \A i \in Nat : m + i - 1 = pos + i
  BY SMTT(20)
<1>3. from(s, pos) = t
  BY DEF from
<1> HIDE DEF m
<1>4. /\ t \in Seq(Byte) /\ Len(t) = Len(s) - m + 1
      /\ \A i \in 1..(Len(s) - m + 1) : t[i] = s[m + i - 1]
  BY <1>1, SliceIs, SMTT(20)
<1> HIDE DEF t
<1>5. \A i \in 1..Len(t) : i \in Nat
  BY SMTT(20)
<1> QED
  BY <1>2, <1>3, <1>4, <1>5

(* What write puts in the file has the size asked for, and is the data     *)
(* itself when that has no 0 byte (yfs_client.cc:339).                     *)
LEMMA PaddedIs ==
  ASSUME NEW data \in Seq(Byte)
  PROVE  /\ Padded(data) \in Seq(Byte) /\ Len(Padded(data)) = Len(data)
         /\ (\A i \in 1..Len(data) : data[i] # 0) => Padded(data) = data
<1>1. \A i \in 1..Len(data) : data[i] \in Byte
  BY SMT
<1>2. Padded(data) \in Seq(Byte) /\ Len(Padded(data)) = Len(data)
  BY <1>1, SMT DEF Padded, Byte
<1>3. ASSUME \A i \in 1..Len(data) : data[i] # 0
      PROVE  Padded(data) = data
  <2>1. ASSUME NEW i \in 1..Len(data)
        PROVE  ~ \E j \in 1..i : data[j] = 0
    BY <1>3, SMT
  <2>2. Padded(data) = [i \in 1..Len(data) |-> data[i]]
    BY <2>1 DEF Padded
  <2> QED BY <2>2, SMT
<1> QED
  BY <1>2, <1>3

(* yfs_client::write on a file that is not empty puts the padded data at   *)
(* the offset and leaves every other byte alone, in each of its branches   *)
(* (yfs_client.cc:367).                                                    *)
LEMMA WrittenIs ==
  ASSUME NEW s \in Seq(Byte), NEW data \in Seq(Byte), NEW off \in Nat
  PROVE  /\ Written(s, data, off) \in Seq(Byte)
         /\ Len(s) = 0 => Written(s, data, off) = Padded(data)
         /\ Len(s) # 0 => RightlyWritten(s, Padded(data), off, Written(s, data, off))
<1> DEFINE d == Padded(data)
           t == Written(s, data, off)
           Right(r) == r \in Seq(Byte) /\ RightlyWritten(s, d, off, r)
<1>1. d \in Seq(Byte) /\ Len(d) = Len(data) /\ Len(d) \in Nat /\ Len(s) \in Nat
  BY PaddedIs, SMT
<1>2. t = IF Len(s) = 0 THEN d
          ELSE IF off > Len(s) THEN s \o Zeros(off - Len(s)) \o d
          ELSE IF off + Len(d) >= Len(s) THEN substr(s, 0, off) \o d
          ELSE substr(s, 0, off) \o d \o from(s, off + Len(d))
  BY  DEF Written
<1> HIDE DEF d, t
<1>3. CASE Len(s) = 0
  BY <1>1, <1>2, <1>3 DEF d, t
<1>4. CASE Len(s) # 0 /\ off > Len(s)
  <2> DEFINE z == Zeros(off - Len(s))
             a == s \o z
             r == a \o d
  <2>1. off - Len(s) \in Nat
    BY <1>1, <1>4, SMT
  <2>2. z \in Seq(Byte) /\ Len(z) = off - Len(s) /\ \A i \in 1..Len(z) : z[i] = 0
    BY <2>1, ZerosAre
  <2> HIDE DEF z
  <2>3. /\ a \in Seq(Byte) /\ Len(a) = Len(s) + Len(z)
        /\ \A i \in 1..Len(s) : a[i] = s[i]
        /\ \A i \in 1..Len(z) : a[Len(s) + i] = z[i]
    BY <2>2, JoinedAre
  <2> HIDE DEF a
  <2>4. /\ r \in Seq(Byte) /\ Len(r) = Len(a) + Len(d)
        /\ \A i \in 1..Len(a) : r[i] = a[i]
        /\ \A i \in 1..Len(d) : r[Len(a) + i] = d[i]
    BY <1>1, <2>3, JoinedAre, ZenonT(40)
  <2>5. t = r
    BY <1>2, <1>4 DEF a, z
  <2> HIDE DEF r
  <2>6. Len(a) = off /\ Len(r) = off + Len(d)
    BY <1>1, <1>4, <2>2, <2>3, <2>4, SMTT(20)
  <2>7. ASSUME NEW i \in 0..Len(r) - 1
        PROVE  At(r, i) = IF i >= off /\ i < off + Len(d) THEN d[i - off + 1] ELSE At(s, i)
    <3>1. At(r, i) = r[i + 1]
      BY <1>1, <2>6, SMT DEF At
    <3>2. CASE i < Len(s)
      <4>1. i + 1 \in 1..Len(s) /\ i + 1 \in 1..Len(a) /\ ~(i >= off)
        BY <1>1, <1>4, <2>6, <3>2, SMT
      <4>2. r[i + 1] = a[i + 1] /\ a[i + 1] = s[i + 1]
        BY <4>1, <2>3, <2>4
      <4> QED BY <3>1, <3>2, <4>1, <4>2 DEF At
    <3>3. CASE i >= Len(s) /\ i < off
      <4>1. i - Len(s) + 1 \in 1..Len(z) /\ Len(s) + (i - Len(s) + 1) = i + 1
            /\ i + 1 \in 1..Len(a)
        BY <1>1, <2>2, <2>6, <3>3, SMT
      <4>2. r[i + 1] = a[i + 1] /\ a[i + 1] = z[i - Len(s) + 1] /\ z[i - Len(s) + 1] = 0
        BY <4>1, <2>2, <2>3, <2>4, SMTT(30)
      <4> QED BY <1>1, <3>1, <3>3, <4>2, SMT DEF At
    <3>4. CASE i >= off
      <4> DEFINE j == i - off + 1
      <4>1. j \in 1..Len(d) /\ Len(a) + j = i + 1 /\ i < off + Len(d)
        BY <1>1, <2>6, <3>4, SMT
      <4> HIDE DEF j
      <4>2. r[Len(a) + j] = d[j]
        BY <4>1, <2>4
      <4>3. r[i + 1] = d[j]
        BY <4>1, <4>2
      <4> QED BY <3>1, <3>4, <4>1, <4>3 DEF j
    <3> QED BY <1>1, <3>2, <3>3, <3>4, SMT
  <2>8. RightlyWritten(s, d, off, r)
    BY <1>1, <1>4, <2>6, <2>7, SMTT(20) DEF RightlyWritten
  <2> QED BY <1>4, <2>4, <2>5, <2>8 DEF d, t
<1>5. CASE Len(s) # 0 /\ ~(off > Len(s))
  <2> DEFINE a == substr(s, 0, off)
             b == a \o d
  <2>1. /\ a \in Seq(Byte) /\ Len(a) = off /\ \A i \in 1..off : a[i] = s[i]
    <3>1. 0 \in 0..Len(s) /\ Lower(off, Len(s) - 0) = off
      BY <1>1, <1>5, SMTT(20) DEF Lower
    <3>2. a \in Seq(Byte) /\ Len(a) = off /\ \A i \in 1..Len(a) : a[i] = s[0 + i]
      BY <3>1, substrIs
    <3> QED BY <3>2, SMT
  <2> HIDE DEF a
  <2>2. /\ b \in Seq(Byte) /\ Len(b) = off + Len(d)
        /\ \A i \in 1..off : b[i] = a[i]
        /\ \A i \in 1..Len(d) : b[off + i] = d[i]
    <3>1. /\ b \in Seq(Byte) /\ Len(b) = Len(a) + Len(d)
          /\ \A i \in 1..Len(a) : b[i] = a[i]
          /\ \A i \in 1..Len(d) : b[Len(a) + i] = d[i]
      BY <1>1, <2>1, JoinedAre, ZenonT(40)
    <3> QED BY <2>1, <3>1
  <2> HIDE DEF b
  <2>3. ASSUME NEW i \in Nat, i < off + Len(d)
        PROVE  b[i + 1] = IF i >= off THEN d[i - off + 1] ELSE At(s, i)
    <3>1. CASE i >= off
      <4>1. i - off + 1 \in 1..Len(d) /\ off + (i - off + 1) = i + 1
        BY <1>1, <2>3, <3>1, SMT
      <4>2. b[off + (i - off + 1)] = d[i - off + 1]
        BY <2>2, <4>1
      <4> QED BY <3>1, <4>1, <4>2
    <3>2. CASE i < off
      BY <1>1, <1>5, <2>1, <2>2, <3>2, SMTT(20) DEF At
    <3> QED BY <3>1, <3>2, SMT
  <2>4. CASE off + Len(d) >= Len(s)
    <3>1. t = b
      BY <1>2, <1>5, <2>4 DEF a, b
    <3>2. ASSUME NEW i \in 0..Len(b) - 1
          PROVE  At(b, i) = IF i >= off /\ i < off + Len(d) THEN d[i - off + 1] ELSE At(s, i)
      <4>1. i \in Nat /\ i < off + Len(d) /\ At(b, i) = b[i + 1]
        BY <1>1, <2>2, SMT DEF At
      <4> QED BY <2>3, <4>1
    <3>3. RightlyWritten(s, d, off, b)
      <4>1. Len(b) = IF off + Len(d) > Len(s) THEN off + Len(d) ELSE Len(s)
        BY <1>1, <2>2, <2>4, SMTT(20)
      <4> QED BY <3>2, <4>1 DEF RightlyWritten
    <3> QED BY <1>5, <2>2, <3>1, <3>3 DEF d, t
  <2>5. CASE ~(off + Len(d) >= Len(s))
    <3> DEFINE f == from(s, off + Len(d))
               r == b \o f
    <3>1. t = r
      BY <1>2, <1>5, <2>5 DEF a, b
    <3>2. /\ f \in Seq(Byte) /\ Len(f) = Len(s) - (off + Len(d))
          /\ \A i \in 1..Len(f) : f[i] = s[off + Len(d) + i]
      <4>1. off + Len(d) \in 0..Len(s)
        BY <1>1, <2>5, SMT
      <4> QED BY <4>1, fromIs
    <3> HIDE DEF f
    <3>3. /\ r \in Seq(Byte) /\ Len(r) = Len(b) + Len(f)
          /\ \A i \in 1..Len(b) : r[i] = b[i]
          /\ \A i \in 1..Len(f) : r[Len(b) + i] = f[i]
      BY <2>2, <3>2, JoinedAre, ZenonT(40)
    <3> HIDE DEF r
    <3>4. Len(r) = Len(s)
      BY <1>1, <2>2, <3>2, <3>3, SMTT(20)
    <3>5. ASSUME NEW i \in 0..Len(r) - 1
          PROVE  At(r, i) = IF i >= off /\ i < off + Len(d) THEN d[i - off + 1] ELSE At(s, i)
      <4>1. At(r, i) = r[i + 1] /\ i \in Nat /\ At(s, i) = s[i + 1]
        BY <1>1, <3>4, SMT DEF At
      <4>2. CASE i < off + Len(d)
        BY <1>1, <2>2, <2>3, <3>3, <4>1, <4>2, SMTT(30)
      <4>3. CASE i >= off + Len(d)
        <5> DEFINE j == i - (off + Len(d)) + 1
        <5>1. j \in 1..Len(f) /\ Len(b) + j = i + 1 /\ off + Len(d) + j = i + 1
          BY <1>1, <2>2, <3>2, <3>4, <4>1, <4>3, SMT
        <5> HIDE DEF j
        <5>2. r[Len(b) + j] = f[j] /\ f[j] = s[off + Len(d) + j]
          BY <5>1, <3>2, <3>3
        <5>3. r[i + 1] = s[i + 1]
          BY <5>1, <5>2
        <5> QED BY <1>1, <4>1, <4>3, <5>3, SMT
      <4> QED BY <1>1, <4>1, <4>2, <4>3, SMT
    <3>6. RightlyWritten(s, d, off, r)
      BY <1>1, <2>5, <3>4, <3>5, SMT DEF RightlyWritten
    <3> QED BY <1>5, <3>1, <3>3, <3>6 DEF d, t
  <2> QED BY <2>4, <2>5
<1> QED
  BY <1>3, <1>4, <1>5

(* yfs_client::updatesize keeps the bytes below the new size and adds 0    *)
(* bytes.                                                                  *)
LEMMA ResizedIs ==
  ASSUME NEW s \in Seq(Byte), NEW n \in Nat
  PROVE  /\ Resized(s, n) \in Seq(Byte) /\ Len(Resized(s, n)) = n
         /\ \A i \in 0..n - 1 : At(Resized(s, n), i) = At(s, i)
<1>1. CASE n > Len(s)
  <2> DEFINE z == Zeros(n - Len(s))
             r == s \o z
  <2>1. n - Len(s) \in Nat /\ Len(s) \in Nat
    BY <1>1, SMT
  <2>2. z \in Seq(Byte) /\ Len(z) = n - Len(s) /\ \A i \in 1..Len(z) : z[i] = 0
    BY <2>1, ZerosAre
  <2> HIDE DEF z
  <2>3. /\ r \in Seq(Byte) /\ Len(r) = Len(s) + Len(z)
        /\ \A i \in 1..Len(s) : r[i] = s[i]
        /\ \A i \in 1..Len(z) : r[Len(s) + i] = z[i]
    BY <2>2, JoinedAre
  <2>4. Resized(s, n) = r
    BY <1>1 DEF Resized, z
  <2> HIDE DEF r
  <2>5. Len(r) = n
    BY <2>1, <2>2, <2>3, SMT
  <2>6. ASSUME NEW i \in 0..n - 1
        PROVE  At(r, i) = At(s, i)
    <3>1. At(r, i) = r[i + 1]
      BY <2>5, SMT DEF At
    <3>2. CASE i < Len(s)
      <4>1. i + 1 \in 1..Len(s)
        BY <2>1, <3>2, SMT
      <4> QED BY <2>3, <3>1, <3>2, <4>1 DEF At
    <3>3. CASE i >= Len(s)
      <4> DEFINE j == i + 1 - Len(s)
      <4>1. j \in 1..Len(z) /\ Len(s) + j = i + 1
        BY <2>1, <2>2, <3>3, SMT
      <4> HIDE DEF j
      <4>2. r[Len(s) + j] = 0
        BY <2>2, <2>3, <4>1
      <4>3. r[i + 1] = 0
        BY <4>1, <4>2
      <4> QED BY <2>1, <3>1, <3>3, <4>3, SMT DEF At
    <3> QED BY <2>1, <3>2, <3>3, SMT
  <2> QED BY <2>3, <2>4, <2>5, <2>6
<1>2. CASE ~(n > Len(s))
  <2> DEFINE r == substr(s, 0, n)
  <2>1. 0 \in 0..Len(s) /\ Lower(n, Len(s) - 0) = n /\ Len(s) \in Nat
    BY <1>2, SMT DEF Lower
  <2>2. r \in Seq(Byte) /\ Len(r) = n /\ \A i \in 1..Len(r) : r[i] = s[0 + i]
    BY <2>1, substrIs
  <2>3. Resized(s, n) = r
    BY <1>2 DEF Resized
  <2> HIDE DEF r
  <2>4. \A i \in 0..n - 1 : At(r, i) = At(s, i)
    <3> SUFFICES ASSUME NEW i \in 0..n - 1
                 PROVE  At(r, i) = At(s, i)
      OBVIOUS
    <3>1. i + 1 \in 1..Len(r) /\ i < Len(r) /\ i < Len(s)
      BY <1>2, <2>1, <2>2, SMT
    <3>2. r[i + 1] = s[i + 1]
      BY <2>2, <3>1, SMT
    <3> QED BY <3>1, <3>2 DEF At
  <2> QED BY <2>2, <2>3, <2>4
<1> QED
  BY <1>1, <1>2

(* yfs_client::read returns the bytes from the offset on.                  *)
LEMMA ReadOutIs ==
  ASSUME NEW s \in Seq(Byte), NEW size \in Nat, NEW off \in Nat
  PROVE  /\ ReadOut(s, size, off) \in Seq(Byte)
         /\ Len(ReadOut(s, size, off))
              = (IF off >= Len(s) THEN 0 ELSE Lower(size, Len(s) - off))
         /\ \A i \in 1..Len(ReadOut(s, size, off)) :
              ReadOut(s, size, off)[i] = At(s, off + i - 1)
<1>1. CASE off < Len(s)
  <2> DEFINE r == substr(s, off, size)
  <2>1. off \in 0..Len(s) /\ Len(s) \in Nat
    BY <1>1, SMT
  <2>2. /\ r \in Seq(Byte) /\ Len(r) = Lower(size, Len(s) - off)
        /\ \A i \in 1..Len(r) : r[i] = s[off + i]
    BY <2>1, substrIs
  <2>3. ReadOut(s, size, off) = r
    BY <1>1 DEF ReadOut
  <2> HIDE DEF r
  <2>4. ASSUME NEW i \in 1..Len(r)
        PROVE  At(s, off + i - 1) = s[off + i]
    <3>1. off + i - 1 < Len(s) /\ off + i - 1 + 1 = off + i
      BY <2>1, <2>2, SMT DEF Lower
    <3> QED BY <3>1 DEF At
  <2> QED BY <1>1, <2>1, <2>2, <2>3, <2>4, SMTT(30)
<1>2. CASE ~(off < Len(s))
  <2>1. ReadOut(s, size, off) = <<>>
    BY <1>2 DEF ReadOut
  <2> QED BY <1>2, <2>1, SMT
<1> QED
  BY <1>1, <1>2

-----------------------------------------------------------------------------
(* A write step: typed, and right for text.                                *)
LEMMA WriteStep ==
  ASSUME FileTypeOK, NEW data \in Buffers, NEW off \in 0..MaxSize, write(data, off)
  PROVE  /\ FileTypeOK'
         /\ last'.op = "write" /\ last'.data = data /\ last'.off = off
         /\ (\A i \in 1..Len(data) : data[i] # 0) /\ (content # <<>> \/ off = 0)
              => RightlyWritten(content, data, off, content')
<1>1. MaxSize \in Nat /\ off \in Nat
  BY YfsFileAssumption, SMT
<1>2. data \in Seq(Byte) /\ Len(data) \in Nat /\ content \in Seq(Byte) /\ Len(content) \in Nat
      /\ Len(content) <= MaxSize /\ off + Len(data) <= MaxSize
  BY BuffersAre, SMT DEF FileTypeOK, write
<1>3. content' = Written(content, data, off) /\ buf' = buf
      /\ last' = [op |-> "write", data |-> data, off |-> off]
  BY DEF write
<1> DEFINE t == Written(content, data, off)
           d == Padded(data)
<1>4. /\ t \in Seq(Byte)
      /\ Len(content) = 0 => t = d
      /\ Len(content) # 0 => RightlyWritten(content, d, off, t)
  BY <1>1, <1>2, WrittenIs
<1>5. /\ d \in Seq(Byte) /\ Len(d) = Len(data)
      /\ (\A i \in 1..Len(data) : data[i] # 0) => d = data
  BY <1>2, PaddedIs
<1> HIDE DEF t, d
<1>6. Len(t) <= MaxSize
  BY <1>1, <1>2, <1>4, <1>5, SMT DEF RightlyWritten
<1>7. FileTypeOK'
  <2>1. t \in Buffers
    BY <1>4, <1>6, BuffersAre
  <2> QED BY <1>3, <2>1 DEF FileTypeOK, t
<1>8. ASSUME \A i \in 1..Len(data) : data[i] # 0, content # <<>> \/ off = 0
      PROVE  RightlyWritten(content, data, off, content')
  <2>1. CASE Len(content) # 0
    BY <1>3, <1>4, <1>5, <1>8, <2>1 DEF t
  <2>2. CASE Len(content) = 0
    <3>1. content = <<>> /\ off = 0 /\ t = data
      BY <1>2, <1>4, <1>5, <1>8, <2>2, SMT
    <3>2. \A i \in 0..Len(data) - 1 : At(data, i) = data[i - 0 + 1] /\ i < 0 + Len(data)
      BY <1>2, SMT DEF At
    <3>3. RightlyWritten(content, data, 0, data)
      BY <1>2, <2>2, <3>2, SMT DEF RightlyWritten
    <3> QED BY <1>3, <3>1, <3>3 DEF t
  <2> QED BY <2>1, <2>2
<1> QED
  BY <1>3, <1>7, <1>8

(* An updatesize step: typed, and right.                                   *)
LEMMA UpdatesizeStep ==
  ASSUME FileTypeOK, NEW n \in 0..MaxSize, updatesize(n)
  PROVE  /\ FileTypeOK'
         /\ last'.op = "updatesize" /\ last'.size = n
         /\ Len(content') = n /\ \A i \in 0..n - 1 : At(content', i) = At(content, i)
<1>1. MaxSize \in Nat /\ n \in Nat /\ n <= MaxSize /\ content \in Seq(Byte)
  BY YfsFileAssumption, BuffersAre, SMT DEF FileTypeOK
<1>2. content' = Resized(content, n) /\ buf' = buf /\ last' = [op |-> "updatesize", size |-> n]
  BY DEF updatesize
<1>3. /\ Resized(content, n) \in Seq(Byte) /\ Len(Resized(content, n)) = n
      /\ \A i \in 0..n - 1 : At(Resized(content, n), i) = At(content, i)
  BY <1>1, ResizedIs
<1>4. Resized(content, n) \in Buffers
  BY <1>1, <1>3, BuffersAre
<1> QED
  BY <1>2, <1>3, <1>4 DEF FileTypeOK

(* A read step: typed, and right.                                          *)
LEMMA ReadStep ==
  ASSUME FileTypeOK, NEW size \in 0..MaxSize, NEW off \in 0..MaxSize, read(size, off)
  PROVE  /\ FileTypeOK'
         /\ last'.op = "read" /\ last'.size = size /\ last'.off = off
         /\ Len(buf') = (IF off >= Len(content) THEN 0 ELSE Lower(size, Len(content) - off))
         /\ \A i \in 1..Len(buf') : buf'[i] = At(content, off + i - 1)
<1>1. MaxSize \in Nat /\ size \in Nat /\ off \in Nat /\ size <= MaxSize
      /\ content \in Seq(Byte) /\ Len(content) \in Nat
  BY YfsFileAssumption, BuffersAre, SMT DEF FileTypeOK
<1> DEFINE r == ReadOut(content, size, off)
<1>2. buf' = r /\ content' = content /\ last' = [op |-> "read", size |-> size, off |-> off]
  BY DEF read
<1>3. /\ r \in Seq(Byte)
      /\ Len(r) = (IF off >= Len(content) THEN 0 ELSE Lower(size, Len(content) - off))
      /\ \A i \in 1..Len(r) : r[i] = At(content, off + i - 1)
  BY <1>1, ReadOutIs, SMT
<1> HIDE DEF r
<1>4. Len(r) <= MaxSize
  BY <1>1, <1>3, SMT DEF Lower
<1>5. r \in Buffers
  BY <1>3, <1>4, BuffersAre
<1> QED
  BY <1>2, <1>3, <1>5 DEF FileTypeOK

(* The empty file is typed.                                                *)
LEMMA FileInitially == FileInit => FileTypeOK
<1> SUFFICES ASSUME FileInit
             PROVE  FileTypeOK
  OBVIOUS
<1>1. <<>> \in Seq(Byte) /\ Len(<<>>) <= MaxSize
  BY YfsFileAssumption, SMT
<1>2. <<>> \in Buffers
  BY <1>1, BuffersAre
<1> QED
  BY <1>2 DEF FileInit, FileTypeOK, NoOp

(* What WritesText, Resizes and ReadsBytes say of one step.                *)
WriteText ==
  last'.op = "write" /\ (\A i \in 1..Len(last'.data) : last'.data[i] # 0)
                     /\ (content # <<>> \/ last'.off = 0)
    => RightlyWritten(content, last'.data, last'.off, content')
Resize ==
  last'.op = "updatesize" =>
    /\ Len(content') = last'.size
    /\ \A i \in 0..last'.size - 1 : At(content', i) = At(content, i)
ReadBytes ==
  last'.op = "read" =>
    /\ Len(buf') = (IF last'.off >= Len(content) THEN 0
                    ELSE Lower(last'.size, Len(content) - last'.off))
    /\ \A i \in 1..Len(buf') : buf'[i] = At(content, last'.off + i - 1)

(* Every step keeps the type and is right.                                 *)
LEMMA FileStep ==
  ASSUME FileTypeOK, [FileNext]_fileVars
  PROVE  FileTypeOK' /\ [WriteText]_fileVars /\ [Resize]_fileVars /\ [ReadBytes]_fileVars
<1>1. ASSUME NEW data \in Buffers, NEW off \in 0..MaxSize, write(data, off)
      PROVE  FileTypeOK' /\ WriteText /\ Resize /\ ReadBytes
  BY <1>1, WriteStep DEF WriteText, Resize, ReadBytes
<1>2. ASSUME NEW n \in 0..MaxSize, updatesize(n)
      PROVE  FileTypeOK' /\ WriteText /\ Resize /\ ReadBytes
  BY <1>2, UpdatesizeStep DEF WriteText, Resize, ReadBytes
<1>3. ASSUME NEW size \in 0..MaxSize, NEW off \in 0..MaxSize, read(size, off)
      PROVE  FileTypeOK' /\ WriteText /\ Resize /\ ReadBytes
  BY <1>3, ReadStep, SMT DEF WriteText, Resize, ReadBytes
<1>4. CASE UNCHANGED fileVars
  BY <1>4 DEF fileVars, FileTypeOK
<1> QED
  BY <1>1, <1>2, <1>3, <1>4 DEF FileNext

(* A file and what is read of it are sequences of bytes within the bound   *)
(* in every state: the offsets that write, updatesize and read compute     *)
(* never run past what is there (yfs_client.cc:334, 256, 300).             *)
THEOREM FileTyped == FileSpec => []FileTypeOK
  BY FileInitially, FileStep, PTL DEF FileSpec

(* Every write of text is right: the bytes at their offset, a gap filled   *)
(* with 0, every other byte as it was (yfs_client.cc:334).                 *)
THEOREM FileWritten == FileSpec => WritesText
<1>1. FileTypeOK /\ [FileNext]_fileVars => [WriteText]_fileVars
  BY FileStep
<1> QED
  BY <1>1, FileTyped, PTL DEF FileSpec, WritesText, WriteText

(* Every change of size keeps the bytes below the new size and adds 0      *)
(* bytes above the old end (yfs_client.cc:256).                            *)
THEOREM FileResized == FileSpec => Resizes
<1>1. FileTypeOK /\ [FileNext]_fileVars => [Resize]_fileVars
  BY FileStep
<1> QED
  BY <1>1, FileTyped, PTL DEF FileSpec, Resizes, Resize

(* Every read returns the bytes from its offset, as many as asked for and  *)
(* there are (yfs_client.cc:300).                                          *)
THEOREM FileRead == FileSpec => ReadsBytes
<1>1. FileTypeOK /\ [FileNext]_fileVars => [ReadBytes]_fileVars
  BY FileStep
<1> QED
  BY <1>1, FileTyped, PTL DEF FileSpec, ReadsBytes, ReadBytes

-----------------------------------------------------------------------------
(* Part 3, Marshall: what marshall's operators write is what unmarshall's  *)
(* read back, whatever the contents and however often the buffer had to    *)
(* grow. A message being written is an IsMessage; Extends says what one    *)
(* insertion does to it; WordAt says where a 32-bit word lies in a buffer; *)
(* Reads says where an unmarshall stands and what it read last.            *)

(* The four bytes that marshall::pack cuts a word into are bytes, and      *)
(* unmarshall::unpack puts the same word together again, negative ones     *)
(* included (rpc.cc:861, 870).                                             *)
LEMMA WordBytes ==
  ASSUME NEW x \in Word
  PROVE  /\ HighByte(x) \in Octet /\ UpperByte(x) \in Octet
         /\ LowerByte(x) \in Octet /\ LowByte(x) \in Octet
         /\ FromBytes(HighByte(x), UpperByte(x), LowerByte(x), LowByte(x)) = x
<1> DEFINE h == x \div 16777216
<1>0. x \in Int /\ x >= -2147483648 /\ x < 2147483648
  BY Z3 DEF Word
<1>1. x \in Int /\ -128 <= h /\ h < 128 /\ h \in Int
  BY <1>0, Z3
<1>2. (IF h % 256 > 127 THEN (h % 256) - 256 ELSE h % 256) = h
  BY <1>1, Z3
<1>3. x = h * 16777216 + ((x \div 65536) % 256) * 65536 + ((x \div 256) % 256) * 256 + (x % 256)
  BY <1>1, Z3
<1>4. /\ HighByte(x) \in Octet /\ UpperByte(x) \in Octet
      /\ LowerByte(x) \in Octet /\ LowByte(x) \in Octet
  BY <1>1, Z3 DEF HighByte, UpperByte, LowerByte, LowByte, Octet
<1> QED
  BY <1>2, <1>3, <1>4, Z3 DEF HighByte, UpperByte, LowerByte, LowByte, FromBytes

(* A place of a buffer: a byte, or Junk.                                   *)
Cell == 0..256

(* A marshall whose _capa is the size of its buffer and whose _ind lies in *)
(* it; the header's room is always there (marshall.h:53).                  *)
IsMessage(m) ==
  /\ m \in [buf : Seq(Cell), capa : Nat, ind : Nat]
  /\ Len(m.buf) = m.capa /\ m.ind <= m.capa /\ m.capa >= RPC_HEADER_SZ

(* n is m after p went in at _ind: nothing else changed and nothing that   *)
(* was there was lost to a realloc.                                        *)
Extends(m, n, p) ==
  /\ IsMessage(n)
  /\ n.ind = m.ind + Len(p) /\ n.capa >= m.capa
  /\ \A i \in 1..m.capa : i <= m.ind \/ i > m.ind + Len(p) => n.buf[i] = m.buf[i]
  /\ \A i \in 1..Len(p) : n.buf[m.ind + i] = p[i]

(* memcpy into a large enough buffer changes the bytes it is to change and *)
(* no other.                                                               *)
LEMMA memcpyBytes ==
  ASSUME NEW b \in Seq(Cell), NEW n \in 0..Len(b), NEW p \in Seq(Cell), n + Len(p) <= Len(b)
  PROVE  /\ memcpy(b, n, p) \in Seq(Cell) /\ Len(memcpy(b, n, p)) = Len(b)
         /\ \A i \in 1..Len(b) : i <= n \/ i > n + Len(p) => memcpy(b, n, p)[i] = b[i]
         /\ \A i \in 1..Len(p) : memcpy(b, n, p)[n + i] = p[i]
<1> DEFINE s == SubSeq(b, 1, n)
           t == SubSeq(b, n + Len(p) + 1, Len(b))
           v == memcpy(b, n, p)
<1>1. s \in Seq(Cell) /\ Len(s) = n /\ \A i \in 1..n : s[i] = b[i]
  <2>1. /\ 1 \in Nat /\ n \in Nat /\ 1 >= 1 /\ 1 <= n + 1 /\ n <= Len(b) /\ n - 1 + 1 = n
        /\ \A i \in 1..n : 1 + i - 1 = i
    BY SMTT(20)
  <2> QED BY <2>1, SliceIs, SMTT(20)
<1>2. /\ t \in Seq(Cell) /\ Len(t) = Len(b) - n - Len(p)
      /\ \A i \in 1..Len(t) : t[i] = b[n + Len(p) + i]
  <2> DEFINE m == n + Len(p) + 1
             k == Len(b)
  <2>1. m \in Nat /\ k \in Nat /\ m >= 1 /\ m <= k + 1 /\ k <= Len(b)
    BY SMTT(20)
  <2>2. k - m + 1 = Len(b) - n - Len(p) /\ \A i \in Nat : m + i - 1 = n + Len(p) + i
    BY SMTT(20)
  <2>3. t = SubSeq(b, m, k)
    OBVIOUS
  <2> HIDE DEF m, k, t
  <2>4. t \in Seq(Cell) /\ Len(t) = k - m + 1 /\ \A i \in 1..(k - m + 1) : t[i] = b[m + i - 1]
    BY <2>1, <2>3, SliceIs, SMTT(20)
  <2>5. \A i \in 1..Len(t) : i \in Nat
    BY SMTT(20)
  <2> QED BY <2>2, <2>4, <2>5
<1> DEFINE u == s \o p
<1>3. v = u \o t
  BY DEF memcpy
<1> HIDE DEF s, t, v
<1>a. u \in Seq(Cell) /\ Len(u) = Len(s) + Len(p)
  BY <1>1, ConcatProperties, ZenonT(40)
<1>b. \A i \in 1..Len(s) : u[i] = s[i]
  BY <1>1, Z3
<1>c. \A i \in 1..Len(p) : u[Len(s) + i] = p[i]
  BY <1>1, Z3
<1> HIDE DEF u
<1>d. v \in Seq(Cell) /\ Len(v) = Len(u) + Len(t)
  <2>1. u \in Seq(Cell) /\ t \in Seq(Cell)
    BY <1>a, <1>2
  <2>2. u \o t \in Seq(Cell) /\ Len(u \o t) = Len(u) + Len(t)
    BY <2>1, ConcatProperties, ZenonT(40)
  <2> QED BY <2>2, <1>3
<1>e. \A i \in 1..Len(u) : v[i] = u[i]
  BY <1>a, <1>2, <1>3, Z3T(30)
<1>f. \A i \in 1..Len(t) : v[Len(u) + i] = t[i]
  BY <1>a, <1>2, <1>3, Z3T(30)
<1>4. /\ v \in Seq(Cell) /\ Len(v) = Len(s) + Len(p) + Len(t)
      /\ \A i \in 1..Len(s) : v[i] = s[i]
      /\ \A i \in 1..Len(p) : v[Len(s) + i] = p[i]
      /\ \A i \in 1..Len(t) : v[Len(s) + Len(p) + i] = t[i]
  <2>1. Len(s) \in Nat /\ Len(p) \in Nat /\ Len(t) \in Nat
    BY <1>1, <1>2, SMT
  <2>2. Len(u) = Len(s) + Len(p)
    BY <1>a
  <2>3. Len(v) = Len(s) + Len(p) + Len(t)
    BY <2>1, <2>2, <1>d, Z3
  <2>4. \A i \in 1..Len(s) : i \in 1..Len(u)
    BY <2>1, <2>2, Z3
  <2>5. \A i \in 1..Len(s) : v[i] = s[i]
    BY <2>4, <1>b, <1>e
  <2>6. \A i \in 1..Len(p) : Len(s) + i \in 1..Len(u)
    BY <2>1, <2>2, Z3
  <2>7. \A i \in 1..Len(p) : v[Len(s) + i] = p[i]
    BY <2>6, <1>c, <1>e
  <2>8. \A i \in 1..Len(t) : v[Len(s) + Len(p) + i] = t[i]
    BY <2>2, <1>f
  <2> QED BY <1>d, <2>3, <2>5, <2>7, <2>8
<1>5. ASSUME NEW i \in 1..Len(b), i > n + Len(p)
      PROVE  v[i] = b[i]
  <2> DEFINE j == i - n - Len(p)
  <2>1. j \in 1..Len(t) /\ n + Len(p) + j = i
    BY <1>2, <1>5, Z3
  <2> HIDE DEF j
  <2>2. v[n + Len(p) + j] = t[j]
    BY <2>1, <1>1, <1>4
  <2>3. t[j] = b[n + Len(p) + j]
    BY <2>1, <1>2
  <2> QED BY <2>1, <2>2, <2>3
<1>6. ASSUME NEW i \in 1..Len(b), i <= n
      PROVE  v[i] = b[i]
  BY <1>1, <1>4, <1>6, Z3T(30)
<1>7. v \in Seq(Cell) /\ Len(v) = Len(b) /\ \A i \in 1..Len(p) : v[n + i] = p[i]
  BY <1>1, <1>2, <1>4, Z3
<1> QED
  BY <1>5, <1>6, <1>7 DEF v

(* Copying into a message with room for it extends the message.            *)
LEMMA CopiedExtends ==
  ASSUME NEW m, IsMessage(m), NEW p \in Seq(Cell), m.ind + Len(p) <= m.capa
  PROVE  Extends(m, Copied(m, p), p)
<1> DEFINE v == memcpy(m.buf, m.ind, p)
           c == Copied(m, p)
<1>1. /\ m.buf \in Seq(Cell) /\ m.ind \in 0..Len(m.buf) /\ m.ind \in Nat /\ m.capa \in Nat
      /\ m.capa = Len(m.buf) /\ Len(p) \in Nat /\ m.capa >= RPC_HEADER_SZ
      /\ m.ind + Len(p) <= Len(m.buf)
  BY SMT DEF IsMessage
<1>2. /\ v \in Seq(Cell) /\ Len(v) = Len(m.buf)
      /\ \A i \in 1..Len(m.buf) : i <= m.ind \/ i > m.ind + Len(p) => v[i] = m.buf[i]
      /\ \A i \in 1..Len(p) : v[m.ind + i] = p[i]
  BY <1>1, memcpyBytes, ZenonT(40)
<1>3. c = [m EXCEPT !.buf = v, !.ind = m.ind + Len(p)]
  BY DEF Copied
<1> HIDE DEF v, c
<1>4. /\ c.buf = v /\ c.ind = m.ind + Len(p) /\ c.capa = m.capa
      /\ c \in [buf : Seq(Cell), capa : Nat, ind : Nat]
  <2>1. m \in [buf : Seq(Cell), capa : Nat, ind : Nat] /\ m.ind + Len(p) \in Nat
    BY <1>1, SMT DEF IsMessage
  <2>2. c.buf = v /\ c.ind = m.ind + Len(p) /\ c.capa = m.capa
    BY <2>1, <1>3
  <2>3. c \in [buf : Seq(Cell), capa : Nat, ind : Nat]
    BY <2>1, <1>2, <1>3
  <2> QED BY <2>2, <2>3
<1>5. IsMessage(c)
  BY <1>1, <1>2, <1>4 DEF IsMessage
<1>6. Extends(m, c, p)
  BY <1>1, <1>2, <1>4, <1>5, SMT DEF Extends
<1> QED
  BY <1>6 DEF c

(* realloc to a larger size keeps what was written (rpc.cc:769, 784).      *)
LEMMA GrownSame ==
  ASSUME NEW m, IsMessage(m), NEW k \in Nat, k >= m.capa
  PROVE  /\ IsMessage(Grown(m, k)) /\ Grown(m, k).ind = m.ind /\ Grown(m, k).capa = k
         /\ \A i \in 1..m.capa : Grown(m, k).buf[i] = m.buf[i]
<1> DEFINE b == m.buf
           d == k - Len(b)
           f == Fresh(d)
           v == realloc(b, k)
           g == Grown(m, k)
<1>1. /\ m \in [buf : Seq(Cell), capa : Nat, ind : Nat]
      /\ b \in Seq(Cell) /\ m.ind \in Nat /\ m.capa \in Nat /\ Len(b) = m.capa /\ d \in Nat
      /\ k = Len(b) + d /\ m.ind <= k /\ k >= RPC_HEADER_SZ
  BY SMT DEF IsMessage, RPC_HEADER_SZ
<1>2. v = b \o f
  BY DEF realloc
<1>3. g = [m EXCEPT !.capa = k, !.buf = v]
  BY DEF Grown
<1> HIDE DEF d
<1>4. f \in Seq(Cell) /\ Len(f) = d
  BY <1>1, SMT DEF Fresh, Junk, Cell
<1> HIDE DEF f, g, b, v
<1>5. v \in Seq(Cell) /\ Len(v) = k
  <2>1. b \in Seq(Cell) /\ f \in Seq(Cell)
    BY <1>1, <1>4
  <2>2. b \o f \in Seq(Cell) /\ Len(b \o f) = Len(b) + Len(f)
    BY <2>1, ConcatProperties
  <2> QED BY <2>2, <1>1, <1>2, <1>4
<1>6. \A i \in 1..Len(b) : v[i] = b[i]
  <2>1. b \in Seq(Cell) /\ f \in Seq(Cell)
    BY <1>1, <1>4
  <2>2. \A i \in 1..Len(b) + Len(f) : (b \o f)[i] = IF i <= Len(b) THEN b[i] ELSE f[i - Len(b)]
    BY <2>1, ConcatProperties
  <2>3. \A i \in 1..Len(b) : i \in 1..Len(b) + Len(f) /\ i <= Len(b)
    BY <1>1, <1>4, SMT
  <2> QED BY <1>2, <2>2, <2>3
<1>7. g.buf = v /\ g.capa = k /\ g.ind = m.ind
  BY <1>1, <1>3
<1>8. g \in [buf : Seq(Cell), capa : Nat, ind : Nat]
  BY <1>1, <1>3, <1>5
<1>9. IsMessage(g) /\ g.ind = m.ind /\ g.capa = k
  BY <1>1, <1>5, <1>7, <1>8 DEF IsMessage
<1>10. \A i \in 1..m.capa : g.buf[i] = b[i]
  BY <1>1, <1>6, <1>7
<1> QED
  BY <1>9, <1>10 DEF g, b

(* Growing first and copying then extends the message as well.             *)
LEMMA GrownExtends ==
  ASSUME NEW m, IsMessage(m), NEW k \in Nat, k >= m.capa, NEW p \in Seq(Cell),
         m.ind + Len(p) <= k
  PROVE  Extends(m, Copied(Grown(m, k), p), p)
<1> DEFINE g == Grown(m, k)
           c == Copied(g, p)
<1>1. /\ IsMessage(g) /\ g.ind = m.ind /\ g.capa = k
      /\ \A i \in 1..m.capa : g.buf[i] = m.buf[i]
  BY GrownSame
<1> HIDE DEF g
<1>2. Extends(g, c, p)
  BY <1>1, CopiedExtends
<1> HIDE DEF c
<1>3. m.capa \in Nat /\ m.ind \in Nat /\ Len(p) \in Nat
  BY SMT DEF IsMessage
<1>4. /\ IsMessage(c) /\ c.ind = m.ind + Len(p) /\ c.capa >= k /\ c.capa \in Nat
      /\ \A i \in 1..Len(p) : c.buf[m.ind + i] = p[i]
      /\ \A i \in 1..k : i <= m.ind \/ i > m.ind + Len(p) => c.buf[i] = g.buf[i]
  BY <1>1, <1>2 DEF Extends, IsMessage
<1>5. \A i \in 1..m.capa : i <= m.ind \/ i > m.ind + Len(p) => c.buf[i] = m.buf[i]
  <2> SUFFICES ASSUME NEW i \in 1..m.capa, i <= m.ind \/ i > m.ind + Len(p)
               PROVE  c.buf[i] = m.buf[i]
    OBVIOUS
  <2>1. i \in 1..k
    BY <1>3, SMTT(20)
  <2> QED BY <2>1, <1>1, <1>4
<1>6. c.capa >= m.capa
  BY <1>3, <1>4, SMT
<1>7. Extends(m, c, p)
  BY <1>4, <1>5, <1>6 DEF Extends
<1> QED
  BY <1>7 DEF c, g

(* The bytes of a word in the order of the buffer.                         *)
WordBytesSeq(x) == <<HighByte(x), UpperByte(x), LowerByte(x), LowByte(x)>>

(* marshall::pack extends the message by the word's four bytes, whether or *)
(* not the buffer has to double on the way (rpc.cc:861).                   *)
LEMMA packExtends ==
  ASSUME NEW m, IsMessage(m), NEW x \in Word
  PROVE  Extends(m, pack(m, x), WordBytesSeq(x))
<1> DEFINE p == WordBytesSeq(x)
<1>1. p \in Seq(Cell) /\ Len(p) = 4
  BY WordBytes, SMT DEF WordBytesSeq, Octet, Cell
<1>2. m.capa \in Nat /\ m.ind \in Nat /\ m.ind <= m.capa /\ m.capa >= 24
  BY  DEF IsMessage, RPC_HEADER_SZ
<1>3. pack(m, x) = Copied(IF m.ind + 4 > m.capa THEN Grown(m, 2 * m.capa) ELSE m, p)
  BY DEF pack, WordBytesSeq
<1> HIDE DEF p
<1>4. CASE m.ind + 4 > m.capa
  <2>1. 2 * m.capa \in Nat /\ 2 * m.capa >= m.capa /\ m.ind + Len(p) <= 2 * m.capa
    BY <1>1, <1>2, SMTT(30)
  <2>2. Extends(m, Copied(Grown(m, 2 * m.capa), p), p)
    BY <1>1, <2>1, GrownExtends
  <2> QED BY <1>3, <1>4, <2>2 DEF p
<1>5. CASE ~(m.ind + 4 > m.capa)
  <2>1. m.ind + Len(p) <= m.capa
    BY <1>1, <1>2, <1>5, SMT
  <2>2. Extends(m, Copied(m, p), p)
    BY <1>1, <2>1, CopiedExtends
  <2> QED BY <1>3, <1>5, <2>2 DEF p
<1> QED
  BY <1>4, <1>5, ZenonT(40)

(* marshall::rawbytes extends the message by the bytes given: both ways of *)
(* choosing the new capacity leave enough room (rpc.cc:777).               *)
LEMMA rawbytesExtends ==
  ASSUME NEW m, IsMessage(m), NEW p \in Seq(Cell)
  PROVE  Extends(m, rawbytes(m, p), p)
<1> DEFINE k == IF m.capa > Len(p) THEN 2 * m.capa ELSE m.capa + Len(p)
<1>1. m.capa \in Nat /\ m.ind \in Nat /\ m.ind <= m.capa /\ Len(p) \in Nat
  BY SMT DEF IsMessage
<1>2. k \in Nat /\ k >= m.capa /\ m.ind + Len(p) <= k
  BY <1>1, SMT
<1>3. rawbytes(m, p) = Copied(IF m.ind + Len(p) > m.capa THEN Grown(m, k) ELSE m, p)
  BY DEF rawbytes
<1> HIDE DEF k
<1>4. CASE m.ind + Len(p) > m.capa
  BY <1>2, <1>3, <1>4, GrownExtends
<1>5. CASE ~(m.ind + Len(p) > m.capa)
  BY <1>1, <1>3, <1>5, CopiedExtends, SMTT(30)
<1> QED
  BY <1>4, <1>5

-----------------------------------------------------------------------------
(* The word x lies in b behind its first k bytes.                          *)
WordAt(b, k, x) ==
  /\ b[k + 1] = HighByte(x) /\ b[k + 2] = UpperByte(x)
  /\ b[k + 3] = LowerByte(x) /\ b[k + 4] = LowByte(x)

(* The word behind byte k lies outside what is written from m.ind to n.    *)
Outside(m, n, k) == k + 4 <= m.ind \/ (k >= n /\ k + 4 <= m.capa)

(* An insertion keeps every word outside it.                               *)
LEMMA KeepsWord ==
  ASSUME NEW m, IsMessage(m), NEW n, NEW p \in Seq(Cell), Extends(m, n, p),
         NEW k \in Nat, Outside(m, m.ind + Len(p), k), NEW x, WordAt(m.buf, k, x)
  PROVE  WordAt(n.buf, k, x)
<1>1. m.ind \in Nat /\ m.capa \in Nat /\ Len(p) \in Nat /\ m.ind <= m.capa
  BY SMT DEF IsMessage
<1>2. ASSUME NEW i \in 1..4
      PROVE  k + i \in 1..m.capa /\ (k + i <= m.ind \/ k + i > m.ind + Len(p))
  BY <1>1, SMTT(30) DEF Outside
<1>3. \A i \in 1..4 : n.buf[k + i] = m.buf[k + i]
  BY <1>2 DEF Extends
<1>4. /\ n.buf[k + 1] = m.buf[k + 1] /\ n.buf[k + 2] = m.buf[k + 2]
      /\ n.buf[k + 3] = m.buf[k + 3] /\ n.buf[k + 4] = m.buf[k + 4]
  BY <1>3, SMTT(30)
<1> QED
  BY <1>4 DEF WordAt

(* pack puts the word at _ind and keeps every other word.                  *)
LEMMA packWord ==
  ASSUME NEW m, IsMessage(m), NEW x \in Word
  PROVE  /\ IsMessage(pack(m, x)) /\ pack(m, x).ind = m.ind + 4
         /\ pack(m, x).capa \in Nat /\ pack(m, x).capa >= m.capa
         /\ WordAt(pack(m, x).buf, m.ind, x)
         /\ \A k \in Nat : \A y : Outside(m, m.ind + 4, k) /\ WordAt(m.buf, k, y)
                                    => WordAt(pack(m, x).buf, k, y)
         /\ \A i \in 1..m.capa : i > m.ind + 4 => pack(m, x).buf[i] = m.buf[i]
<1> DEFINE p == WordBytesSeq(x)
           n == pack(m, x)
<1>1. p \in Seq(Cell) /\ Len(p) = 4
  BY WordBytes, SMT DEF WordBytesSeq, Octet, Cell
<1>2. Extends(m, n, p)
  BY packExtends
<1>3. p[1] = HighByte(x) /\ p[2] = UpperByte(x) /\ p[3] = LowerByte(x) /\ p[4] = LowByte(x)
  BY DEF WordBytesSeq
<1> HIDE DEF p, n
<1>4. IsMessage(n) /\ n.ind = m.ind + 4 /\ n.capa >= m.capa /\ n.capa \in Nat
  BY <1>1, <1>2 DEF Extends, IsMessage
<1>5. \A i \in 1..4 : n.buf[m.ind + i] = p[i]
  BY <1>1, <1>2 DEF Extends
<1>6. WordAt(n.buf, m.ind, x)
  <2>1. /\ n.buf[m.ind + 1] = p[1] /\ n.buf[m.ind + 2] = p[2]
        /\ n.buf[m.ind + 3] = p[3] /\ n.buf[m.ind + 4] = p[4]
    BY <1>5, SMT
  <2> QED BY <2>1, <1>3 DEF WordAt
<1>7. \A i \in 1..m.capa : i > m.ind + 4 => n.buf[i] = m.buf[i]
  BY <1>1, <1>2 DEF Extends
<1>8. ASSUME NEW k \in Nat, NEW y, Outside(m, m.ind + 4, k), WordAt(m.buf, k, y)
      PROVE  WordAt(n.buf, k, y)
  BY <1>1, <1>2, <1>8, KeepsWord
<1> QED
  BY <1>4, <1>6, <1>7, <1>8 DEF n

(* The unmarshall u stands at byte i of b, has read x last and met no      *)
(* error.                                                                  *)
Reads(u, b, sz, i, x) ==
  /\ DOMAIN u = {"buf", "sz", "ind", "ok", "x"}
  /\ u.buf = b /\ u.sz = sz /\ u.ind = i /\ u.ok = TRUE /\ u.x = x

(* Setting the position or the value read changes only that.               *)
LEMMA ReadsChanged ==
  ASSUME NEW u, NEW b, NEW sz, NEW i, NEW x, Reads(u, b, sz, i, x), NEW j, NEW y
  PROVE  /\ Reads([u EXCEPT !.x = y], b, sz, i, y)
         /\ Reads([u EXCEPT !.ind = j], b, sz, j, x)
         /\ Reads([u EXCEPT !.ind = j, !.x = y], b, sz, j, y)
         /\ Reads([u EXCEPT !.x = y, !.ind = j], b, sz, j, y)
  BY DEF Reads

(* unmarshall::rawbyte before the end reads the next byte (rpc.cc:900).    *)
LEMMA RawByteReads ==
  ASSUME NEW u, NEW b, NEW sz \in Nat, NEW i \in Nat, NEW x, Reads(u, b, sz, i, x), i < sz
  PROVE  Reads(RawByte(u), b, sz, i + 1, b[i + 1])
  BY SMT DEF Reads, RawByte

(* unmarshall::unpack reads the word that lies at _ind (rpc.cc:870).       *)
LEMMA unpackReads ==
  ASSUME NEW u, NEW b, NEW sz \in Nat, NEW i \in Nat, NEW x, Reads(u, b, sz, i, x),
         i + 4 <= sz, NEW y \in Word, WordAt(b, i, y)
  PROVE  Reads(unpack(u), b, sz, i + 4, y)
<1> DEFINE u3 == RawByte(u)
           u2 == RawByte(u3)
           u1 == RawByte(u2)
           u0 == RawByte(u1)
<1>0. unpack(u) = [u0 EXCEPT !.x = FromBytes(u3.x, u2.x, u1.x, u0.x)]
  BY  DEF unpack
<1>1. Reads(u3, b, sz, i + 1, HighByte(y))
  BY RawByteReads, SMTT(30) DEF WordAt
<1> HIDE DEF u3
<1>2. Reads(u2, b, sz, i + 2, UpperByte(y))
  <2>1. i + 1 \in Nat /\ i + 1 < sz /\ (i + 1) + 1 = i + 2
    BY SMT
  <2> QED BY <1>1, <2>1, RawByteReads DEF WordAt
<1> HIDE DEF u2
<1>3. Reads(u1, b, sz, i + 3, LowerByte(y))
  <2>1. i + 2 \in Nat /\ i + 2 < sz /\ (i + 2) + 1 = i + 3
    BY SMTT(30)
  <2> QED BY <1>2, <2>1, RawByteReads DEF WordAt
<1> HIDE DEF u1
<1>4. Reads(u0, b, sz, i + 4, LowByte(y))
  <2>1. i + 3 \in Nat /\ i + 3 < sz /\ (i + 3) + 1 = i + 4
    BY SMT
  <2> QED BY <1>3, <2>1, RawByteReads DEF WordAt
<1> HIDE DEF u0
<1>5. FromBytes(HighByte(y), UpperByte(y), LowerByte(y), LowByte(y)) = y
  BY WordBytes
<1>6. u3.x = HighByte(y) /\ u2.x = UpperByte(y) /\ u1.x = LowerByte(y) /\ u0.x = LowByte(y)
  BY <1>1, <1>2, <1>3, <1>4 DEF Reads
<1>7. Reads([u0 EXCEPT !.x = y], b, sz, i + 4, y)
  BY <1>4, ReadsChanged
<1> QED
  BY <1>0, <1>5, <1>6, <1>7

(* operator>>(unsigned long long) reads the two words that lie at _ind     *)
(* (rpc.cc:969).                                                           *)
LEMMA GetLongReads ==
  ASSUME NEW u, NEW b, NEW sz \in Nat, NEW i \in Nat, NEW x, Reads(u, b, sz, i, x),
         i + 8 <= sz, NEW y \in [hi : Word, lo : Word],
         WordAt(b, i, y.hi), WordAt(b, i + 4, y.lo)
  PROVE  Reads(GetLong(u), b, sz, i + 8, y)
<1> DEFINE h == unpack(u)
           l == unpack(h)
<1>0. GetLong(u) = [l EXCEPT !.x = [hi |-> h.x, lo |-> l.x]]
  BY DEF GetLong
<1>1. y.hi \in Word /\ y.lo \in Word /\ y = [hi |-> y.hi, lo |-> y.lo]
  OBVIOUS 
<1>2. Reads(h, b, sz, i + 4, y.hi)
  BY <1>1, unpackReads, SMTT(30)
<1> HIDE DEF h
<1>3. Reads(l, b, sz, i + 8, y.lo)
  <2>1. i + 4 \in Nat /\ (i + 4) + 4 <= sz /\ (i + 4) + 4 = i + 8
    BY SMTT(30)
  <2> QED BY <1>1, <1>2, <2>1, unpackReads
<1> HIDE DEF l
<1>4. h.x = y.hi /\ l.x = y.lo
  BY <1>2, <1>3 DEF Reads
<1>5. Reads([l EXCEPT !.x = y], b, sz, i + 8, y)
  BY <1>3, ReadsChanged
<1> QED
  BY <1>0, <1>1, <1>4, <1>5

(* operator>>(string) reads a size and as many bytes (rpc.cc:979).         *)
LEMMA GetStringReads ==
  ASSUME NEW u, NEW b \in Seq(Cell), NEW i \in Nat, NEW x, Reads(u, b, Len(b), i, x),
         NEW s \in Seq(Octet), Len(s) \in Word, i + 4 + Len(s) <= Len(b),
         WordAt(b, i, Len(s)), \A j \in 1..Len(s) : b[i + 4 + j] = s[j]
  PROVE  Reads(GetString(u), b, Len(b), i + 4 + Len(s), s)
<1> DEFINE n == unpack(u)
           t == SubSeq(b, i + 4 + 1, i + 4 + Len(s))
<1>0. Len(s) \in Nat /\ Len(b) \in Nat
  BY SMT
<1>1. Reads(n, b, Len(b), i + 4, Len(s))
  <2>1. i + 4 <= Len(b)
    BY <1>0, SMT
  <2> QED BY <1>0, <2>1, unpackReads
<1> HIDE DEF n
<1>2. n.ok = TRUE /\ n.x = Len(s) /\ n.ind = i + 4 /\ n.sz = Len(b) /\ n.buf = b
  BY <1>1 DEF Reads
<1>3. t = s
  <2>1. /\ t \in Seq(Cell) /\ Len(t) = Len(s)
        /\ \A j \in 1..Len(t) : t[j] = b[i + 4 + j]
    <3> DEFINE m == i + 4 + 1
               k == i + 4 + Len(s)
    <3>1. m \in Nat /\ k \in Nat /\ m >= 1 /\ m <= k + 1 /\ k <= Len(b)
      BY <1>0, SMTT(20)
    <3>2. k - m + 1 = Len(s) /\ \A j \in Nat : m + j - 1 = i + 4 + j
      BY <1>0, SMTT(20)
    <3>3. t = SubSeq(b, m, k)
      OBVIOUS
    <3> HIDE DEF m, k, t
    <3>4. t \in Seq(Cell) /\ Len(t) = k - m + 1 /\ \A j \in 1..(k - m + 1) : t[j] = b[m + j - 1]
      BY <3>1, <3>3, SliceIs, SMTT(20)
    <3>5. \A j \in 1..Len(t) : j \in Nat
      BY SMTT(20)
    <3> QED BY <3>2, <3>4, <3>5
  <2> HIDE DEF t
  <2>2. \A j \in 1..Len(s) : t[j] = s[j]
    BY <2>1
  <2>3. t = [j \in 1..Len(s) |-> t[j]] /\ s = [j \in 1..Len(s) |-> s[j]]
    BY <2>1, SMT
  <2> QED BY <2>2, <2>3
<1>4. GetString(u) = [n EXCEPT !.x = t, !.ind = i + 4 + Len(s)]
  <2>1. n.ok /\ n.x >= 0 /\ n.ind + n.x <= n.sz
    BY <1>0, <1>2, SMTT(30)
  <2>2. n.ind + 1 = i + 4 + 1 /\ n.ind + n.x = i + 4 + Len(s)
    BY <1>2
  <2>3. GetString(u) = [n EXCEPT !.x = SubSeq(n.buf, n.ind + 1, n.ind + n.x),
                                    !.ind = n.ind + n.x]
    BY <2>1 DEF GetString, n
  <2> QED BY <1>2, <2>2, <2>3, ZenonT(40)
<1> HIDE DEF t
<1>5. Reads([n EXCEPT !.x = t, !.ind = i + 4 + Len(s)], b, Len(b), i + 4 + Len(s), t)
  BY <1>1, ReadsChanged
<1> QED
  BY <1>3, <1>4, <1>5

(* The headers, and where their fields lie (marshall.h:83, 98).            *)
ReqHeader == [xid : Word, proc : Word, clt_nonce : Word, srv_nonce : Word, xid_rep : Word]
ReplyHeader == [xid : Word, ret : Word]

ReqHeaderAt(b, h) ==
  /\ WordAt(b, 4, h.xid) /\ WordAt(b, 8, h.proc) /\ WordAt(b, 12, h.clt_nonce)
  /\ WordAt(b, 16, h.srv_nonce) /\ WordAt(b, 20, h.xid_rep)
ReplyHeaderAt(b, h) == WordAt(b, 4, h.xid) /\ WordAt(b, 8, h.ret)

(* unpack_req_header reads the five fields and stands behind the header    *)
(* (marshall.h:175).                                                       *)
LEMMA ReqHeaderReads ==
  ASSUME NEW u, NEW b, NEW sz \in Nat, NEW i, NEW x, Reads(u, b, sz, i, x),
         24 <= sz, NEW h \in ReqHeader, ReqHeaderAt(b, h)
  PROVE  Reads(unpack_req_header(u), b, sz, 24, h)
<1> DEFINE u0 == [u EXCEPT !.ind = SIZE_SZ]
           u1 == unpack(u0)
           u2 == unpack(u1)
           u3 == unpack(u2)
           u4 == unpack(u3)
           u5 == unpack(u4)
<1>0. unpack_req_header(u) = [u5 EXCEPT !.ind = RPC_HEADER_SZ,
              !.x = [xid |-> u1.x, proc |-> u2.x, clt_nonce |-> u3.x,
                     srv_nonce |-> u4.x, xid_rep |-> u5.x]]
  BY DEF unpack_req_header
<1>1. /\ h.xid \in Word /\ h.proc \in Word /\ h.clt_nonce \in Word
      /\ h.srv_nonce \in Word /\ h.xid_rep \in Word
      /\ h = [xid |-> h.xid, proc |-> h.proc, clt_nonce |-> h.clt_nonce,
              srv_nonce |-> h.srv_nonce, xid_rep |-> h.xid_rep]
  BY  DEF ReqHeader
<1>2. /\ WordAt(b, 4, h.xid) /\ WordAt(b, 8, h.proc) /\ WordAt(b, 12, h.clt_nonce)
      /\ WordAt(b, 16, h.srv_nonce) /\ WordAt(b, 20, h.xid_rep)
  BY  DEF ReqHeaderAt
<1>3. Reads(u0, b, sz, 4, x)
  BY ReadsChanged DEF SIZE_SZ
<1> HIDE DEF u0
<1>4. Reads(u1, b, sz, 8, h.xid)
  <2>1. 4 \in Nat /\ 4 + 4 <= sz /\ 4 + 4 = 8
    BY SMTT(30)
  <2> QED BY <1>1, <1>2, <1>3, <2>1, unpackReads, ZenonT(40)
<1> HIDE DEF u1
<1>5. Reads(u2, b, sz, 12, h.proc)
  <2>1. 8 \in Nat /\ 8 + 4 <= sz /\ 8 + 4 = 12
    BY SMT
  <2> QED BY <1>1, <1>2, <1>4, <2>1, unpackReads, ZenonT(40)
<1> HIDE DEF u2
<1>6. Reads(u3, b, sz, 16, h.clt_nonce)
  <2>1. 12 \in Nat /\ 12 + 4 <= sz /\ 12 + 4 = 16
    BY SMT
  <2> QED BY <1>1, <1>2, <1>5, <2>1, unpackReads, ZenonT(40)
<1> HIDE DEF u3
<1>7. Reads(u4, b, sz, 20, h.srv_nonce)
  <2>1. 16 \in Nat /\ 16 + 4 <= sz /\ 16 + 4 = 20
    BY SMT
  <2> QED BY <1>1, <1>2, <1>6, <2>1, unpackReads
<1> HIDE DEF u4
<1>8. Reads(u5, b, sz, 24, h.xid_rep)
  <2>1. 20 \in Nat /\ 20 + 4 <= sz /\ 20 + 4 = 24
    BY SMTT(30)
  <2> QED BY <1>1, <1>2, <1>7, <2>1, unpackReads, ZenonT(40)
<1> HIDE DEF u5
<1>9. /\ u1.x = h.xid /\ u2.x = h.proc /\ u3.x = h.clt_nonce
      /\ u4.x = h.srv_nonce /\ u5.x = h.xid_rep
  BY <1>4, <1>5, <1>6, <1>7, <1>8 DEF Reads
<1>10. unpack_req_header(u) = [u5 EXCEPT !.ind = 24, !.x = h]
  BY <1>0, <1>1, <1>9 DEF RPC_HEADER_SZ
<1>11. Reads([u5 EXCEPT !.ind = 24, !.x = h], b, sz, 24, h)
  BY <1>8, ReadsChanged
<1> QED
  BY <1>10, <1>11

(* unpack_reply_header reads the two fields and stands behind the header's *)
(* room (marshall.h:189).                                                  *)
LEMMA ReplyHeaderReads ==
  ASSUME NEW u, NEW b, NEW sz \in Nat, NEW i, NEW x, Reads(u, b, sz, i, x),
         24 <= sz, NEW h \in ReplyHeader, ReplyHeaderAt(b, h)
  PROVE  Reads(unpack_reply_header(u), b, sz, 24, h)
<1> DEFINE u0 == [u EXCEPT !.ind = SIZE_SZ]
           u1 == unpack(u0)
           u2 == unpack(u1)
<1>0. unpack_reply_header(u) = [u2 EXCEPT !.ind = RPC_HEADER_SZ,
                                          !.x = [xid |-> u1.x, ret |-> u2.x]]
  BY DEF unpack_reply_header
<1>1. h.xid \in Word /\ h.ret \in Word /\ h = [xid |-> h.xid, ret |-> h.ret]
  BY DEF ReplyHeader
<1>2. WordAt(b, 4, h.xid) /\ WordAt(b, 8, h.ret)
  BY  DEF ReplyHeaderAt
<1>3. Reads(u0, b, sz, 4, x)
  BY ReadsChanged DEF SIZE_SZ
<1> HIDE DEF u0
<1>4. Reads(u1, b, sz, 8, h.xid)
  <2>1. 4 \in Nat /\ 4 + 4 <= sz /\ 4 + 4 = 8
    BY SMT
  <2> QED BY <1>1, <1>2, <1>3, <2>1, unpackReads, ZenonT(40)
<1> HIDE DEF u1
<1>5. Reads(u2, b, sz, 12, h.ret)
  <2>1. 8 \in Nat /\ 8 + 4 <= sz /\ 8 + 4 = 12
    BY SMT
  <2> QED BY <1>1, <1>2, <1>4, <2>1, unpackReads
<1> HIDE DEF u2
<1>6. u1.x = h.xid /\ u2.x = h.ret
  BY <1>4, <1>5 DEF Reads
<1>7. unpack_reply_header(u) = [u2 EXCEPT !.ind = 24, !.x = h]
  BY <1>0, <1>1, <1>6 DEF RPC_HEADER_SZ
<1>8. Reads([u2 EXCEPT !.ind = 24, !.x = h], b, sz, 24, h)
  BY <1>5, ReadsChanged
<1> QED
  BY <1>7, <1>8

-----------------------------------------------------------------------------
(* A new marshall is a message whose _ind stands behind the header         *)
(* (marshall.h:53).                                                        *)
LEMMA marshallMessage == IsMessage(marshall) /\ marshall.ind = 24
<1>1. Fresh(DEFAULT_RPC_SZ) \in Seq(Cell) /\ Len(Fresh(DEFAULT_RPC_SZ)) = DEFAULT_RPC_SZ
  BY MarshallAssumption, SMTT(20) DEF Fresh, Junk, Cell
<1> QED
  BY <1>1, MarshallAssumption DEF IsMessage, marshall, RPC_HEADER_SZ

(* Setting _ind within the buffer leaves a message.                        *)
LEMMA Moved ==
  ASSUME NEW m, IsMessage(m), NEW k \in Nat, k <= m.capa
  PROVE  /\ IsMessage([m EXCEPT !.ind = k]) /\ [m EXCEPT !.ind = k].ind = k
         /\ [m EXCEPT !.ind = k].buf = m.buf /\ [m EXCEPT !.ind = k].capa = m.capa
  BY  DEF IsMessage

(* operator<<(unsigned long long) puts two words (rpc.cc:853).             *)
LEMMA PutLongWords ==
  ASSUME NEW m, IsMessage(m), NEW x \in [hi : Word, lo : Word]
  PROVE  /\ IsMessage(PutLong(m, x)) /\ PutLong(m, x).ind = m.ind + 8
         /\ WordAt(PutLong(m, x).buf, m.ind, x.hi)
         /\ WordAt(PutLong(m, x).buf, m.ind + 4, x.lo)
<1> DEFINE h == pack(m, x.hi)
           l == pack(h, x.lo)
<1>0. PutLong(m, x) = l /\ x.hi \in Word /\ x.lo \in Word /\ m.ind \in Nat
  BY  DEF PutLong, IsMessage
<1>1. IsMessage(h) /\ h.ind = m.ind + 4 /\ WordAt(h.buf, m.ind, x.hi)
  BY <1>0, packWord
<1> HIDE DEF h
<1>2. /\ IsMessage(l) /\ l.ind = m.ind + 8 /\ WordAt(l.buf, m.ind + 4, x.lo)
      /\ \A k \in Nat : \A y : Outside(h, h.ind + 4, k) /\ WordAt(h.buf, k, y)
                                 => WordAt(l.buf, k, y)
  <2>1. /\ IsMessage(l) /\ l.ind = h.ind + 4 /\ WordAt(l.buf, h.ind, x.lo)
        /\ \A k \in Nat : \A y : Outside(h, h.ind + 4, k) /\ WordAt(h.buf, k, y)
                                   => WordAt(l.buf, k, y)
    BY <1>0, <1>1, packWord
  <2> QED BY <1>0, <1>1, <2>1, SMTT(30)
<1> HIDE DEF l
<1>3. WordAt(l.buf, m.ind, x.hi)
  <2>1. Outside(h, h.ind + 4, m.ind)
    BY <1>0, <1>1, SMTT(20) DEF Outside
  <2> QED BY <1>0, <1>1, <1>2, <2>1, ZenonT(40)
<1> QED
  BY <1>0, <1>2, <1>3

(* operator<<(string) puts the size and the bytes, and keeps the words     *)
(* before them (rpc.cc:845).                                               *)
LEMMA PutStringBytes ==
  ASSUME NEW m, IsMessage(m), NEW s \in Seq(Octet), Len(s) \in Word
  PROVE  /\ IsMessage(PutString(m, s)) /\ PutString(m, s).ind = m.ind + 4 + Len(s)
         /\ WordAt(PutString(m, s).buf, m.ind, Len(s))
         /\ \A j \in 1..Len(s) : PutString(m, s).buf[m.ind + 4 + j] = s[j]
         /\ \A k \in Nat : \A y : k + 4 <= m.ind /\ WordAt(m.buf, k, y)
                                    => WordAt(PutString(m, s).buf, k, y)
<1> DEFINE n == pack(m, Len(s))
           r == rawbytes(n, s)
<1>0. PutString(m, s) = r /\ m.ind \in Nat /\ Len(s) \in Nat /\ s \in Seq(Cell)
  BY SMTT(20) DEF PutString, IsMessage, Octet, Cell
<1>1. /\ IsMessage(n) /\ n.ind = m.ind + 4 /\ WordAt(n.buf, m.ind, Len(s))
      /\ \A k \in Nat : \A y : Outside(m, m.ind + 4, k) /\ WordAt(m.buf, k, y)
                                 => WordAt(n.buf, k, y)
  BY packWord
<1> HIDE DEF n
<1>2. Extends(n, r, s)
  BY <1>0, <1>1, rawbytesExtends
<1> HIDE DEF r
<1>3. /\ IsMessage(r) /\ r.ind = m.ind + 4 + Len(s)
      /\ \A j \in 1..Len(s) : r.buf[m.ind + 4 + j] = s[j]
  BY <1>1, <1>2 DEF Extends
<1>4. ASSUME NEW k \in Nat, NEW y, k + 4 <= n.ind, WordAt(n.buf, k, y)
      PROVE  WordAt(r.buf, k, y)
  <2>1. Outside(n, n.ind + Len(s), k)
    BY <1>4, ZenonT(40) DEF Outside
  <2> QED BY <1>0, <1>1, <1>2, <1>4, <2>1, KeepsWord, ZenonT(40)
<1>5. WordAt(r.buf, m.ind, Len(s))
  BY <1>0, <1>1, <1>4, SMTT(20)
<1>6. ASSUME NEW k \in Nat, NEW y, k + 4 <= m.ind, WordAt(m.buf, k, y)
      PROVE  WordAt(r.buf, k, y)
  <2>1. Outside(m, m.ind + 4, k) /\ k + 4 <= n.ind
    BY <1>0, <1>1, <1>6, SMTT(20) DEF Outside
  <2> QED BY <1>1, <1>4, <1>6, <2>1, ZenonT(40)
<1> QED
  BY <1>0, <1>3, <1>5, <1>6, ZenonT(40)

(* What m holds behind its header, n holds too.                            *)
BodyKept(m, n) == n.capa >= m.capa /\ \A i \in 1..m.capa : i > 24 => n.buf[i] = m.buf[i]

(* A word written within the header's room keeps the body.                 *)
LEMMA HeaderWord ==
  ASSUME NEW m, IsMessage(m), m.ind + 4 <= 24, NEW x \in Word
  PROVE  /\ IsMessage(pack(m, x)) /\ pack(m, x).ind = m.ind + 4
         /\ WordAt(pack(m, x).buf, m.ind, x) /\ BodyKept(m, pack(m, x))
         /\ \A k \in Nat : \A y : k + 4 <= m.ind /\ WordAt(m.buf, k, y)
                                    => WordAt(pack(m, x).buf, k, y)
<1> DEFINE n == pack(m, x)
<1>1. /\ IsMessage(n) /\ n.ind = m.ind + 4 /\ n.capa >= m.capa /\ WordAt(n.buf, m.ind, x)
      /\ \A k \in Nat : \A y : Outside(m, m.ind + 4, k) /\ WordAt(m.buf, k, y)
                                 => WordAt(n.buf, k, y)
      /\ \A i \in 1..m.capa : i > m.ind + 4 => n.buf[i] = m.buf[i]
  BY packWord
<1>2. m.ind \in Nat /\ m.capa \in Nat
  BY DEF IsMessage
<1> HIDE DEF n
<1>3. BodyKept(m, n)
  BY <1>1, <1>2, SMTT(20) DEF BodyKept
<1>4. \A k \in Nat : k + 4 <= m.ind => Outside(m, m.ind + 4, k)
  BY DEF Outside
<1> QED
  BY <1>1, <1>3, <1>4 DEF n

(* Two steps that keep the body keep it.                                   *)
LEMMA BodyKeptTwice ==
  ASSUME NEW m, NEW n, NEW o, m.capa \in Nat, n.capa \in Nat, o.capa \in Nat,
         BodyKept(m, n), BodyKept(n, o)
  PROVE  BodyKept(m, o)
<1>1. \A i \in 1..m.capa : i \in 1..n.capa
  BY SMT DEF BodyKept
<1> QED
  BY <1>1, SMTT(20) DEF BodyKept

(* pack_reply_header writes the header in front, keeps the body and puts   *)
(* _ind back (marshall.h:98).                                              *)
LEMMA ReplyHeaderPacked ==
  ASSUME NEW m, IsMessage(m), NEW h \in ReplyHeader
  PROVE  /\ IsMessage(pack_reply_header(m, h)) /\ pack_reply_header(m, h).ind = m.ind
         /\ ReplyHeaderAt(pack_reply_header(m, h).buf, h)
         /\ BodyKept(m, pack_reply_header(m, h))
<1> DEFINE m0 == [m EXCEPT !.ind = 4]
           m1 == pack(m0, h.xid)
           m2 == pack(m1, h.ret)
           p == [m2 EXCEPT !.ind = m.ind]
<1>0. h.xid \in Word /\ h.ret \in Word /\ m.capa \in Nat /\ m.capa >= 24 /\ m.ind \in Nat
      /\ m.ind <= m.capa
  BY DEF ReplyHeader, IsMessage, RPC_HEADER_SZ
<1>1. pack_reply_header(m, h) = p
  BY DEF pack_reply_header, SIZE_SZ
<1>2. IsMessage(m0) /\ m0.ind = 4 /\ m0.capa = m.capa /\ m0.buf = m.buf
  BY <1>0, Moved, SMTT(20)
<1> HIDE DEF m0
<1>3. IsMessage(m1) /\ m1.ind = 8 /\ WordAt(m1.buf, 4, h.xid) /\ BodyKept(m0, m1)
  BY <1>0, <1>2, HeaderWord, SMTT(20)
<1> HIDE DEF m1
<1>4. /\ IsMessage(m2) /\ WordAt(m2.buf, 8, h.ret) /\ BodyKept(m1, m2)
      /\ \A k \in Nat : \A y : k + 4 <= m1.ind /\ WordAt(m1.buf, k, y) => WordAt(m2.buf, k, y)
  <2>1. m1.ind + 4 <= 24
    BY <1>3, SMT
  <2> QED BY <1>0, <1>3, <2>1, HeaderWord
<1> HIDE DEF m2
<1>5. m1.capa \in Nat /\ m2.capa \in Nat
  BY <1>3, <1>4 DEF IsMessage
<1>6. WordAt(m2.buf, 4, h.xid)
  BY <1>3, <1>4, SMTT(20)
<1>7. BodyKept(m0, m2)
  BY <1>0, <1>2, <1>3, <1>4, <1>5, BodyKeptTwice, ZenonT(40)
<1>8. BodyKept(m, m2)
  BY <1>2, <1>7 DEF BodyKept
<1>9. IsMessage(p) /\ p.ind = m.ind /\ p.buf = m2.buf /\ p.capa = m2.capa
  <2>1. m.ind <= m2.capa
    BY <1>0, <1>5, <1>8, SMTT(20) DEF BodyKept
  <2> QED BY <1>0, <1>4, <2>1, Moved, ZenonT(40)
<1> HIDE DEF p
<1>10. BodyKept(m, p) /\ ReplyHeaderAt(p.buf, h)
  BY <1>4, <1>6, <1>8, <1>9, ZenonT(40) DEF BodyKept, ReplyHeaderAt
<1> QED
  BY <1>1, <1>9, <1>10

(* pack_req_header writes the header in front, keeps the body and puts     *)
(* _ind back (marshall.h:83).                                              *)
LEMMA ReqHeaderPacked ==
  ASSUME NEW m, IsMessage(m), NEW h \in ReqHeader
  PROVE  /\ IsMessage(pack_req_header(m, h)) /\ pack_req_header(m, h).ind = m.ind
         /\ ReqHeaderAt(pack_req_header(m, h).buf, h)
         /\ BodyKept(m, pack_req_header(m, h))
<1> DEFINE m0 == [m EXCEPT !.ind = 4]
           m1 == pack(m0, h.xid)
           m2 == pack(m1, h.proc)
           m3 == pack(m2, h.clt_nonce)
           m4 == pack(m3, h.srv_nonce)
           m5 == pack(m4, h.xid_rep)
           p == [m5 EXCEPT !.ind = m.ind]
           Kept(a, c) == \A k \in Nat : \A y : k + 4 <= a.ind /\ WordAt(a.buf, k, y)
                                                 => WordAt(c.buf, k, y)
<1>0. /\ h.xid \in Word /\ h.proc \in Word /\ h.clt_nonce \in Word
      /\ h.srv_nonce \in Word /\ h.xid_rep \in Word
      /\ m.capa \in Nat /\ m.capa >= 24 /\ m.ind \in Nat /\ m.ind <= m.capa
  BY DEF ReqHeader, IsMessage, RPC_HEADER_SZ
<1>1. pack_req_header(m, h) = p
  BY DEF pack_req_header, SIZE_SZ
<1>2. IsMessage(m0) /\ m0.ind = 4 /\ m0.capa = m.capa /\ m0.buf = m.buf
  BY <1>0, Moved, SMTT(20)
<1> HIDE DEF m0
<1>3. IsMessage(m1) /\ m1.ind = 8 /\ WordAt(m1.buf, 4, h.xid) /\ BodyKept(m0, m1)
  BY <1>0, <1>2, HeaderWord, SMTT(20)
<1> HIDE DEF m1
<1>4. /\ IsMessage(m2) /\ m2.ind = 12 /\ WordAt(m2.buf, 8, h.proc) /\ BodyKept(m1, m2)
      /\ Kept(m1, m2)
  <2>1. m1.ind + 4 <= 24 /\ 8 + 4 = 12
    BY <1>3, SMT
  <2> QED BY <1>0, <1>3, <2>1, HeaderWord, ZenonT(40)
<1> HIDE DEF m2
<1>5. /\ IsMessage(m3) /\ m3.ind = 16 /\ WordAt(m3.buf, 12, h.clt_nonce) /\ BodyKept(m2, m3)
      /\ Kept(m2, m3)
  <2>1. m2.ind + 4 <= 24 /\ 12 + 4 = 16
    BY <1>4, SMTT(20)
  <2> QED BY <1>0, <1>4, <2>1, HeaderWord, ZenonT(40)
<1> HIDE DEF m3
<1>6. /\ IsMessage(m4) /\ m4.ind = 20 /\ WordAt(m4.buf, 16, h.srv_nonce) /\ BodyKept(m3, m4)
      /\ Kept(m3, m4)
  <2>1. m3.ind + 4 <= 24 /\ 16 + 4 = 20
    BY <1>5, SMT
  <2> QED BY <1>0, <1>5, <2>1, HeaderWord, ZenonT(40)
<1> HIDE DEF m4
<1>7. /\ IsMessage(m5) /\ WordAt(m5.buf, 20, h.xid_rep) /\ BodyKept(m4, m5)
      /\ Kept(m4, m5)
  <2>1. m4.ind + 4 <= 24
    BY <1>6, SMT
  <2> QED BY <1>0, <1>6, <2>1, HeaderWord
<1> HIDE DEF m5
<1>8. /\ m1.capa \in Nat /\ m2.capa \in Nat /\ m3.capa \in Nat
      /\ m4.capa \in Nat /\ m5.capa \in Nat
  BY <1>3, <1>4, <1>5, <1>6, <1>7 DEF IsMessage
<1>9. ReqHeaderAt(m5.buf, h)
  <2>1. WordAt(m2.buf, 4, h.xid)
    BY <1>3, <1>4, SMTT(20)
  <2>2. WordAt(m3.buf, 4, h.xid) /\ WordAt(m3.buf, 8, h.proc)
    BY <2>1, <1>4, <1>5, SMTT(20)
  <2>3. WordAt(m4.buf, 4, h.xid) /\ WordAt(m4.buf, 8, h.proc) /\ WordAt(m4.buf, 12, h.clt_nonce)
    BY <2>2, <1>5, <1>6, SMTT(20)
  <2>4. /\ WordAt(m5.buf, 4, h.xid) /\ WordAt(m5.buf, 8, h.proc)
        /\ WordAt(m5.buf, 12, h.clt_nonce) /\ WordAt(m5.buf, 16, h.srv_nonce)
    BY <2>3, <1>6, <1>7, SMTT(20)
  <2> QED BY <2>4, <1>7 DEF ReqHeaderAt
<1>10. BodyKept(m, m5)
  <2>1. BodyKept(m0, m2)
    BY <1>0, <1>2, <1>3, <1>4, <1>8, BodyKeptTwice, ZenonT(40)
  <2>2. BodyKept(m0, m3)
    BY <2>1, <1>0, <1>2, <1>5, <1>8, BodyKeptTwice
  <2>3. BodyKept(m0, m4)
    BY <2>2, <1>0, <1>2, <1>6, <1>8, BodyKeptTwice, ZenonT(40)
  <2>4. BodyKept(m0, m5)
    BY <2>3, <1>0, <1>2, <1>7, <1>8, BodyKeptTwice
  <2> QED BY <2>4, <1>2 DEF BodyKept
<1>11. IsMessage(p) /\ p.ind = m.ind /\ p.buf = m5.buf /\ p.capa = m5.capa
  <2>1. m.ind <= m5.capa
    BY <1>0, <1>8, <1>10, SMTT(20) DEF BodyKept
  <2> QED BY <1>0, <1>7, <2>1, Moved
<1> HIDE DEF p
<1>12. BodyKept(m, p) /\ ReqHeaderAt(p.buf, h)
  BY <1>9, <1>10, <1>11 DEF BodyKept
<1> QED
  BY <1>1, <1>11, <1>12

-----------------------------------------------------------------------------
(* Part 4, ExtentWire: PutArrives, GetReturns, GetattrReturns and          *)
(* BufferHolds hold in every state of the file.                            *)

(* A content, alone or repeated, is made of bytes and its length fits a    *)
(* word.                                                                   *)
LEMMA ContentsAre ==
  ASSUME FileTypeOK, NEW s \in Contents
  PROVE  s \in Seq(Octet) /\ Len(s) \in Word
<1> DEFINE n == Copies * Len(content)
<1>1. Byte \subseteq Octet /\ Copies \in Nat /\ Copies >= 1 /\ MaxSize \in Nat
  BY WireAssumption, YfsFileAssumption, SMTT(20) DEF Byte, Octet
<1>2. content \in Seq(Byte) /\ Len(content) \in Nat /\ Len(content) <= MaxSize
  BY BuffersAre, SMTT(20) DEF FileTypeOK
<1>3. n \in Nat /\ n <= Copies * MaxSize /\ MaxSize <= Copies * MaxSize
  BY <1>1, <1>2, Z3T(30)
<1>4. content \in Seq(Octet)
  BY <1>1, <1>2, SMTT(20)
<1>5. Len(content) \in Word /\ n \in Word
  BY <1>1, <1>2, <1>3, WireAssumption, Z3T(30) DEF Word
<1> HIDE DEF n
<1>6. \A i \in 1..n : Len(content) >= 1 /\ ((i - 1) % Len(content)) + 1 \in 1..Len(content)
  BY <1>1, <1>2, <1>3, Z3T(30) DEF n
<1>7. \A i \in 1..n : content[((i - 1) % Len(content)) + 1] \in Octet
  BY <1>4, <1>6, SMTT(20)
<1>8. Repeated(content, Copies) = [i \in 1..n |-> content[((i - 1) % Len(content)) + 1]]
  BY DEF Repeated, n
<1>9. Repeated(content, Copies) \in Seq(Octet) /\ Len(Repeated(content, Copies)) = n
  BY <1>3, <1>7, <1>8, SMTT(20)
<1> QED
  BY <1>4, <1>5, <1>9 DEF Contents

(* The receiver starts at the first of the bytes that were sent            *)
(* (connection.cc:246, rpc.cc:498).                                        *)
LEMMA ReceivedReads ==
  ASSUME NEW m, IsMessage(m)
  PROVE  /\ Reads(Received(m), Sent(m), Len(Sent(m)), 0, 0)
         /\ Sent(m) \in Seq(Cell) /\ Len(Sent(m)) = m.ind
         /\ \A i \in 1..m.ind : Sent(m)[i] = m.buf[i]
         /\ \A k \in Nat : \A y : k + 4 <= m.ind /\ WordAt(m.buf, k, y) => WordAt(Sent(m), k, y)
<1> DEFINE b == Sent(m)
<1>1. m.buf \in Seq(Cell) /\ m.ind \in 0..Len(m.buf) /\ m.ind \in Nat
  BY SMTT(20) DEF IsMessage
<1>2. b \in Seq(Cell) /\ Len(b) = m.ind /\ \A i \in 1..m.ind : b[i] = m.buf[i]
  <2>1. /\ 1 \in Nat /\ 1 >= 1 /\ 1 <= m.ind + 1 /\ m.ind <= Len(m.buf) /\ m.ind - 1 + 1 = m.ind
        /\ \A i \in 1..m.ind : 1 + i - 1 = i
    BY <1>1, SMTT(20)
  <2> QED BY <1>1, <2>1, SliceIs, SMTT(20) DEF Sent
<1>3. Received(m) = unmarshall(b, m.ind)
  BY DEF Received
<1> HIDE DEF b
<1>4. Reads(unmarshall(b, m.ind), b, m.ind, 0, 0)
  BY DEF Reads, unmarshall
<1>5. ASSUME NEW k \in Nat, NEW y, k + 4 <= m.ind, WordAt(m.buf, k, y)
      PROVE  WordAt(b, k, y)
  <2>1. /\ k + 1 \in 1..m.ind /\ k + 2 \in 1..m.ind /\ k + 3 \in 1..m.ind
        /\ k + 4 \in 1..m.ind
    BY <1>1, <1>5, SMTT(20)
  <2> QED BY <1>2, <1>5, <2>1 DEF WordAt
<1> QED
  BY <1>2, <1>3, <1>4, <1>5 DEF b

(* A header keeps the words of the body.                                   *)
LEMMA BodyWord ==
  ASSUME NEW m, NEW n, m.capa \in Nat, BodyKept(m, n), NEW k \in Nat, k >= 24,
         k + 4 <= m.capa, NEW y, WordAt(m.buf, k, y)
  PROVE  WordAt(n.buf, k, y)
<1>1. \A i \in 1..4 : k + i \in 1..m.capa /\ k + i > 24
  BY SMT
<1>2. \A i \in 1..4 : n.buf[k + i] = m.buf[k + i]
  BY <1>1 DEF BodyKept
<1> QED
  BY <1>2, SMTT(20) DEF WordAt

(* unmarshall::take_in of a reply long enough stands behind its header     *)
(* (rpc.cc:879).                                                           *)
LEMMA take_inReads ==
  ASSUME NEW u, NEW b, NEW sz \in Nat, sz >= 24, NEW i, NEW x, Reads(u, b, sz, i, x)
  PROVE  Reads(take_in(u), b, sz, 24, 0)
  BY  DEF Reads, take_in, RPC_HEADER_SZ

(* What PutArrives says of one put.                                        *)
PutIsRead(h, id, s) ==
  LET header == unpack_req_header(Received(PutRequest(h, id, s)))
      a1 == GetLong(header)
      a2 == GetString(a1) IN
  header.x = h /\ a1.x = id /\ a2.x = s /\ okdone(a2)

(* A put arrives: id and content are written behind the header's room, the *)
(* header over it; then both are read (rpc.h:177, 425).                    *)
LEMMA OnePutArrives ==
  ASSUME NEW s \in Seq(Octet), Len(s) \in Word, NEW id \in [hi : Word, lo : Word],
         NEW h \in ReqHeader
  PROVE  PutIsRead(h, id, s) /\ IsMessage(PutRequest(h, id, s))
<1> DEFINE m1 == PutLong(marshall, id)
           m2 == PutString(m1, s)
           m == pack_req_header(m2, h)
           b == Sent(m)
           n == Len(s)
<1>0. PutRequest(h, id, s) = m /\ n \in Nat
  BY SMTT(20) DEF PutRequest
<1>1. /\ IsMessage(m1) /\ m1.ind = 32 /\ WordAt(m1.buf, 24, id.hi) /\ WordAt(m1.buf, 28, id.lo)
  BY marshallMessage, PutLongWords, SMTT(20)
<1> HIDE DEF m1
<1>2. /\ IsMessage(m2) /\ m2.ind = 36 + n /\ WordAt(m2.buf, 32, n)
      /\ \A j \in 1..n : m2.buf[36 + j] = s[j]
      /\ WordAt(m2.buf, 24, id.hi) /\ WordAt(m2.buf, 28, id.lo)
  <2>1. /\ IsMessage(m2) /\ m2.ind = m1.ind + 4 + n /\ WordAt(m2.buf, m1.ind, n)
        /\ \A j \in 1..n : m2.buf[m1.ind + 4 + j] = s[j]
        /\ \A k \in Nat : \A y : k + 4 <= m1.ind /\ WordAt(m1.buf, k, y) => WordAt(m2.buf, k, y)
    BY <1>1, PutStringBytes, ZenonT(60)
  <2> HIDE DEF m2
  <2>2. WordAt(m2.buf, 24, id.hi) /\ WordAt(m2.buf, 28, id.lo)
    BY <1>1, <2>1, SMT
  <2> QED BY <1>0, <1>1, <2>1, <2>2, SMTT(20)
<1> HIDE DEF m2
<1>3. IsMessage(m) /\ m.ind = 36 + n /\ ReqHeaderAt(m.buf, h) /\ BodyKept(m2, m)
  BY <1>2, ReqHeaderPacked
<1> HIDE DEF m
<1>4. m2.capa \in Nat /\ 36 + n <= m2.capa
  BY <1>2 DEF IsMessage
<1>5. /\ WordAt(m.buf, 24, id.hi) /\ WordAt(m.buf, 28, id.lo) /\ WordAt(m.buf, 32, n)
      /\ \A j \in 1..n : m.buf[36 + j] = s[j]
  <2>1. 24 + 4 <= m2.capa /\ 28 + 4 <= m2.capa /\ 32 + 4 <= m2.capa
    BY <1>0, <1>4, SMT
  <2>a. \A k \in Nat : \A y : k >= 24 /\ k + 4 <= m2.capa /\ WordAt(m2.buf, k, y)
                                => WordAt(m.buf, k, y)
    BY <1>3, <1>4, BodyWord
  <2>e. \A y : /\ WordAt(m2.buf, 24, y) => WordAt(m.buf, 24, y)
               /\ WordAt(m2.buf, 28, y) => WordAt(m.buf, 28, y)
               /\ WordAt(m2.buf, 32, y) => WordAt(m.buf, 32, y)
    BY <2>1, <2>a, SMTT(20)
  <2>b. WordAt(m.buf, 24, id.hi)
    BY <1>2, <2>e
  <2>c. WordAt(m.buf, 28, id.lo)
    BY <1>2, <2>e
  <2>d. WordAt(m.buf, 32, n)
    BY <1>2, <2>e
  <2>2. WordAt(m.buf, 24, id.hi) /\ WordAt(m.buf, 28, id.lo) /\ WordAt(m.buf, 32, n)
    BY <2>b, <2>c, <2>d
  <2>3. \A j \in 1..n : 36 + j \in 1..m2.capa /\ 36 + j > 24
    BY <1>0, <1>4, SMTT(20)
  <2>4. \A j \in 1..n : m.buf[36 + j] = s[j]
    BY <1>2, <1>3, <2>3, SMTT(20) DEF BodyKept
  <2> QED BY <2>2, <2>4
<1>6. /\ Reads(Received(m), b, Len(b), 0, 0) /\ b \in Seq(Cell) /\ Len(b) = 36 + n
      /\ \A i \in 1..36 + n : b[i] = m.buf[i]
      /\ \A k \in Nat : \A y : k + 4 <= 36 + n /\ WordAt(m.buf, k, y) => WordAt(b, k, y)
  BY <1>3, ReceivedReads
<1> HIDE DEF b
<1>7. /\ ReqHeaderAt(b, h) /\ WordAt(b, 24, id.hi) /\ WordAt(b, 28, id.lo) /\ WordAt(b, 32, n)
      /\ \A j \in 1..n : b[36 + j] = s[j]
  <2>1. /\ 4 + 4 <= 36 + n /\ 8 + 4 <= 36 + n /\ 12 + 4 <= 36 + n /\ 16 + 4 <= 36 + n
        /\ 20 + 4 <= 36 + n /\ 24 + 4 <= 36 + n /\ 28 + 4 <= 36 + n /\ 32 + 4 <= 36 + n
        /\ \A j \in 1..n : 36 + j \in 1..36 + n
    BY <1>0, SMTT(20)
  <2>2. ReqHeaderAt(b, h)
    BY <1>3, <1>6, <2>1, SMTT(20) DEF ReqHeaderAt
  <2>3. WordAt(b, 24, id.hi) /\ WordAt(b, 28, id.lo) /\ WordAt(b, 32, n)
    BY <1>5, <1>6, <2>1, ZenonT(40)
  <2>4. \A j \in 1..n : b[36 + j] = s[j]
    BY <1>5, <1>6, <2>1, ZenonT(40)
  <2> QED BY <2>2, <2>3, <2>4
<1> DEFINE header == unpack_req_header(Received(m))
           a1 == GetLong(header)
           a2 == GetString(a1)
<1>8. Reads(header, b, Len(b), 24, h)
  <2>1. Len(b) \in Nat /\ 24 <= Len(b)
    BY <1>0, <1>6, SMT
  <2> QED BY <1>6, <1>7, <2>1, ReqHeaderReads, ZenonT(40)
<1> HIDE DEF header
<1>9. Reads(a1, b, Len(b), 32, id)
  <2>1. Len(b) \in Nat /\ 24 \in Nat /\ 24 + 8 <= Len(b) /\ 24 + 8 = 32 /\ 24 + 4 = 28
    BY <1>0, <1>6, SMTT(20)
  <2> QED BY <1>7, <1>8, <2>1, GetLongReads, ZenonT(40)
<1> HIDE DEF a1
<1>10. Reads(a2, b, Len(b), 36 + n, s)
  <2>1. 32 \in Nat /\ 32 + 4 + n <= Len(b) /\ 32 + 4 + n = 36 + n
        /\ \A j \in 1..n : 32 + 4 + j = 36 + j
    BY <1>0, <1>6, SMTT(20)
  <2>2. \A j \in 1..n : b[32 + 4 + j] = s[j]
    BY <1>7, <2>1
  <2>3. Reads(a2, b, Len(b), 32 + 4 + n, s)
    BY <1>6, <1>7, <1>9, <2>1, <2>2, GetStringReads, ZenonT(40)
  <2> QED BY <2>1, <2>3, ZenonT(40)
<1> HIDE DEF a2
<1>11. header.x = h /\ a1.x = id /\ a2.x = s /\ okdone(a2)
  BY <1>6, <1>8, <1>9, <1>10, SMTT(20) DEF Reads, okdone
<1> QED
  BY <1>0, <1>3, <1>11 DEF PutIsRead, header, a1, a2

(* What GetReturns says of one reply.                                      *)
GetIsRead(h, s) ==
  LET header == unpack_reply_header(Received(GetReplyPdu(h, s)))
      r == GetString(take_in(header)) IN
  header.ok /\ header.x = h /\ r.x = s /\ okdone(r)

(* A reply to get returns (rpc.h:400, 143).                                *)
LEMMA OneGetReturns ==
  ASSUME NEW s \in Seq(Octet), Len(s) \in Word, NEW h \in ReplyHeader
  PROVE  GetIsRead(h, s)
<1> DEFINE m2 == PutString(marshall, s)
           m == pack_reply_header(m2, h)
           b == Sent(m)
           n == Len(s)
<1>0. GetReplyPdu(h, s) = m /\ n \in Nat
  BY SMTT(20) DEF GetReplyPdu
<1>2. /\ IsMessage(m2) /\ m2.ind = 28 + n /\ WordAt(m2.buf, 24, n)
      /\ \A j \in 1..n : m2.buf[28 + j] = s[j]
  <2>1. /\ IsMessage(m2) /\ m2.ind = marshall.ind + 4 + n /\ WordAt(m2.buf, marshall.ind, n)
        /\ \A j \in 1..n : m2.buf[marshall.ind + 4 + j] = s[j]
    BY marshallMessage, PutStringBytes, SMTT(20)
  <2> HIDE DEF m2
  <2> QED BY <1>0, <2>1, marshallMessage, SMTT(20)
<1> HIDE DEF m2
<1>3. IsMessage(m) /\ m.ind = 28 + n /\ ReplyHeaderAt(m.buf, h) /\ BodyKept(m2, m)
  BY <1>2, ReplyHeaderPacked
<1> HIDE DEF m
<1>4. m2.capa \in Nat /\ 28 + n <= m2.capa
  BY <1>2 DEF IsMessage
<1>5. WordAt(m.buf, 24, n) /\ \A j \in 1..n : m.buf[28 + j] = s[j]
  <2>1. \A k \in Nat : \A y : k >= 24 /\ k + 4 <= m2.capa /\ WordAt(m2.buf, k, y)
                                => WordAt(m.buf, k, y)
    BY <1>3, <1>4, BodyWord, ZenonT(40)
  <2>2. WordAt(m.buf, 24, n)
    BY <1>0, <1>2, <1>4, <2>1, SMTT(20)
  <2>3. \A j \in 1..n : 28 + j \in 1..m2.capa /\ 28 + j > 24
    BY <1>0, <1>4, SMTT(20)
  <2>4. \A j \in 1..n : m.buf[28 + j] = s[j]
    BY <1>2, <1>3, <2>3 DEF BodyKept
  <2> QED BY <2>2, <2>4
<1>6. /\ Reads(Received(m), b, Len(b), 0, 0) /\ b \in Seq(Cell) /\ Len(b) = 28 + n
      /\ \A i \in 1..28 + n : b[i] = m.buf[i]
      /\ \A k \in Nat : \A y : k + 4 <= 28 + n /\ WordAt(m.buf, k, y) => WordAt(b, k, y)
  BY <1>3, ReceivedReads, ZenonT(40)
<1> HIDE DEF b
<1>7. ReplyHeaderAt(b, h) /\ WordAt(b, 24, n) /\ \A j \in 1..n : b[28 + j] = s[j]
  <2>1. /\ 4 + 4 <= 28 + n /\ 8 + 4 <= 28 + n /\ 24 + 4 <= 28 + n
        /\ \A j \in 1..n : 28 + j \in 1..28 + n
    BY <1>0, SMTT(20)
  <2>2. ReplyHeaderAt(b, h)
    BY <1>3, <1>6, <2>1, ZenonT(40) DEF ReplyHeaderAt
  <2> QED BY <1>5, <1>6, <2>1, <2>2, SMTT(20)
<1> DEFINE header == unpack_reply_header(Received(m))
           t == take_in(header)
           r == GetString(t)
<1>8. Len(b) \in Nat /\ 24 <= Len(b)
  BY <1>0, <1>6, SMTT(20)
<1>9. Reads(header, b, Len(b), 24, h)
  BY <1>6, <1>7, <1>8, ReplyHeaderReads
<1> HIDE DEF header
<1>10. Reads(t, b, Len(b), 24, 0)
  BY <1>8, <1>9, take_inReads
<1> HIDE DEF t
<1>11. Reads(r, b, Len(b), 28 + n, s)
  <2>1. 24 \in Nat /\ 24 + 4 + n <= Len(b) /\ 24 + 4 + n = 28 + n
        /\ \A j \in 1..n : 24 + 4 + j = 28 + j
    BY <1>0, <1>6, SMTT(20)
  <2>2. \A j \in 1..n : b[24 + 4 + j] = s[j]
    BY <1>7, <2>1
  <2>3. Reads(r, b, Len(b), 24 + 4 + n, s)
    BY <1>6, <1>7, <1>10, <2>1, <2>2, GetStringReads, ZenonT(40)
  <2> QED BY <2>1, <2>3
<1> HIDE DEF r
<1>12. header.ok /\ header.x = h /\ r.x = s /\ okdone(r)
  BY <1>6, <1>9, <1>11, SMTT(20) DEF Reads, okdone
<1> QED
  BY <1>0, <1>12 DEF GetIsRead, header, t, r

(* What GetattrReturns says of one reply, and where the attributes lie.    *)
Attr == [atime : Word, mtime : Word, ctime : Word, size : Word]

GetattrIsRead(h, a) ==
  LET header == unpack_reply_header(Received(GetattrReply(h, a)))
      r == GetAttr(take_in(header)) IN
  header.ok /\ header.x = h /\ r.x = a /\ okdone(r)

AttrAt(b, a) ==
  /\ WordAt(b, 24, a.atime) /\ WordAt(b, 28, a.mtime)
  /\ WordAt(b, 32, a.ctime) /\ WordAt(b, 36, a.size)

(* pack keeps the words written before.                                    *)
LEMMA AppendWord ==
  ASSUME NEW m, IsMessage(m), NEW x \in Word
  PROVE  /\ IsMessage(pack(m, x)) /\ pack(m, x).ind = m.ind + 4
         /\ WordAt(pack(m, x).buf, m.ind, x)
         /\ \A k \in Nat : \A y : k + 4 <= m.ind /\ WordAt(m.buf, k, y)
                                    => WordAt(pack(m, x).buf, k, y)
<1>1. /\ IsMessage(pack(m, x)) /\ pack(m, x).ind = m.ind + 4
      /\ WordAt(pack(m, x).buf, m.ind, x)
      /\ \A k \in Nat : \A y : Outside(m, m.ind + 4, k) /\ WordAt(m.buf, k, y)
                                 => WordAt(pack(m, x).buf, k, y)
  BY packWord
<1>2. \A k \in Nat : k + 4 <= m.ind => Outside(m, m.ind + 4, k)
  BY DEF Outside
<1> QED
  BY <1>1, <1>2

(* operator<<(attr) puts the four words in order (extent_protocol.h:38).   *)
LEMMA PutAttrWords ==
  ASSUME NEW m, IsMessage(m), m.ind = 24, NEW a \in Attr
  PROVE  IsMessage(PutAttr(m, a)) /\ PutAttr(m, a).ind = 40 /\ AttrAt(PutAttr(m, a).buf, a)
<1> DEFINE m1 == pack(m, a.atime)
           m2 == pack(m1, a.mtime)
           m3 == pack(m2, a.ctime)
           m4 == pack(m3, a.size)
           Kept(o, c) == \A k \in Nat : \A y : k + 4 <= o.ind /\ WordAt(o.buf, k, y)
                                                 => WordAt(c.buf, k, y)
<1>0. /\ a.atime \in Word /\ a.mtime \in Word /\ a.ctime \in Word /\ a.size \in Word
      /\ PutAttr(m, a) = m4
  BY DEF Attr, PutAttr
<1>1. 24 + 4 = 28 /\ 28 + 4 = 32 /\ 32 + 4 = 36 /\ 36 + 4 = 40
  BY SMT
<1>2. IsMessage(m1) /\ m1.ind = 28 /\ WordAt(m1.buf, 24, a.atime)
  <2>1. IsMessage(m1) /\ m1.ind = m.ind + 4 /\ WordAt(m1.buf, m.ind, a.atime)
    BY <1>0, AppendWord
  <2> HIDE DEF m1
  <2> QED BY <1>1, <2>1, ZenonT(40)
<1> HIDE DEF m1
<1>3. IsMessage(m2) /\ m2.ind = 32 /\ WordAt(m2.buf, 28, a.mtime) /\ Kept(m1, m2)
  BY <1>0, <1>1, <1>2, AppendWord, ZenonT(40)
<1> HIDE DEF m2
<1>4. IsMessage(m3) /\ m3.ind = 36 /\ WordAt(m3.buf, 32, a.ctime) /\ Kept(m2, m3)
  BY <1>0, <1>1, <1>3, AppendWord, ZenonT(40)
<1> HIDE DEF m3
<1>5. IsMessage(m4) /\ m4.ind = 40 /\ WordAt(m4.buf, 36, a.size) /\ Kept(m3, m4)
  BY <1>0, <1>1, <1>4, AppendWord, ZenonT(60)
<1> HIDE DEF m4
<1>6. WordAt(m2.buf, 24, a.atime)
  BY <1>2, <1>3, SMT
<1>7. WordAt(m3.buf, 24, a.atime) /\ WordAt(m3.buf, 28, a.mtime)
  BY <1>3, <1>4, <1>6, SMT
<1>8. WordAt(m4.buf, 24, a.atime) /\ WordAt(m4.buf, 28, a.mtime) /\ WordAt(m4.buf, 32, a.ctime)
  BY <1>4, <1>5, <1>7, SMTT(20)
<1> QED
  BY <1>0, <1>5, <1>8 DEF AttrAt

(* operator>>(attr) reads them in the same order (extent_protocol.h:28).   *)
LEMMA GetAttrReads ==
  ASSUME NEW u, NEW b, NEW sz \in Nat, NEW x, Reads(u, b, sz, 24, x), sz = 40,
         NEW a \in Attr, AttrAt(b, a)
  PROVE  Reads(GetAttr(u), b, sz, 40, a)
<1> DEFINE u1 == unpack(u)
           u2 == unpack(u1)
           u3 == unpack(u2)
           u4 == unpack(u3)
<1>0. GetAttr(u) = [u4 EXCEPT !.x = [atime |-> u1.x, mtime |-> u2.x, ctime |-> u3.x,
                                     size |-> u4.x]]
  BY DEF GetAttr
<1>1. /\ a.atime \in Word /\ a.mtime \in Word /\ a.ctime \in Word /\ a.size \in Word
      /\ a = [atime |-> a.atime, mtime |-> a.mtime, ctime |-> a.ctime, size |-> a.size]
      /\ WordAt(b, 24, a.atime) /\ WordAt(b, 28, a.mtime)
      /\ WordAt(b, 32, a.ctime) /\ WordAt(b, 36, a.size)
  BY DEF Attr, AttrAt
<1>2. \A i \in Nat :
        i + 4 <= sz =>
          \A v, y, o : y \in Word /\ Reads(v, b, sz, i, o) /\ WordAt(b, i, y)
                                        => Reads(unpack(v), b, sz, i + 4, y)
  BY unpackReads, ZenonT(40)
<1>3. Reads(u1, b, sz, 28, a.atime)
  BY <1>1, <1>2, SMTT(20)
<1> HIDE DEF u1
<1>4. Reads(u2, b, sz, 32, a.mtime)
  BY <1>1, <1>2, <1>3, SMTT(20)
<1> HIDE DEF u2
<1>5. Reads(u3, b, sz, 36, a.ctime)
  BY <1>1, <1>2, <1>4, SMTT(20)
<1> HIDE DEF u3
<1>6. Reads(u4, b, sz, 40, a.size)
  BY <1>1, <1>2, <1>5, SMTT(20)
<1> HIDE DEF u4
<1>7. u1.x = a.atime /\ u2.x = a.mtime /\ u3.x = a.ctime /\ u4.x = a.size
  BY <1>3, <1>4, <1>5, <1>6 DEF Reads
<1>8. GetAttr(u) = [u4 EXCEPT !.x = a]
  BY <1>0, <1>1, <1>7
<1>9. Reads([u4 EXCEPT !.x = a], b, sz, 40, a)
  BY <1>6, ReadsChanged
<1> QED
  BY <1>8, <1>9, ZenonT(40)

(* A reply to getattr returns.                                             *)
LEMMA OneGetattrReturns ==
  ASSUME NEW a \in Attr, NEW h \in ReplyHeader
  PROVE  GetattrIsRead(h, a)
<1> DEFINE m2 == PutAttr(marshall, a)
           m == pack_reply_header(m2, h)
           b == Sent(m)
<1>0. GetattrReply(h, a) = m
  BY DEF GetattrReply
<1>2. IsMessage(m2) /\ m2.ind = 40 /\ AttrAt(m2.buf, a)
  BY marshallMessage, PutAttrWords
<1> HIDE DEF m2
<1>3. IsMessage(m) /\ m.ind = 40 /\ ReplyHeaderAt(m.buf, h) /\ BodyKept(m2, m)
  BY <1>2, ReplyHeaderPacked
<1> HIDE DEF m
<1>4. m2.capa \in Nat /\ 40 <= m2.capa
  BY <1>2 DEF IsMessage
<1>5. AttrAt(m.buf, a)
  <2>1. \A k \in Nat : \A y : k >= 24 /\ k + 4 <= m2.capa /\ WordAt(m2.buf, k, y)
                                => WordAt(m.buf, k, y)
    BY <1>3, <1>4, BodyWord, SMTT(20)
  <2>2. WordAt(m.buf, 24, a.atime) /\ WordAt(m.buf, 28, a.mtime)
    BY <1>2, <1>4, <2>1, SMTT(20) DEF AttrAt
  <2>3. WordAt(m.buf, 32, a.ctime) /\ WordAt(m.buf, 36, a.size)
    BY <1>2, <1>4, <2>1, SMTT(20) DEF AttrAt
  <2> QED BY <2>2, <2>3, ZenonT(40) DEF AttrAt
<1>6. /\ Reads(Received(m), b, Len(b), 0, 0) /\ Len(b) = 40
      /\ \A k \in Nat : \A y : k + 4 <= 40 /\ WordAt(m.buf, k, y) => WordAt(b, k, y)
  BY <1>3, ReceivedReads, ZenonT(40)
<1> HIDE DEF b
<1>7. ReplyHeaderAt(b, h)
  BY <1>3, <1>6, SMTT(20) DEF ReplyHeaderAt
<1>8. AttrAt(b, a)
  BY <1>5, <1>6, SMTT(20) DEF AttrAt
<1> DEFINE header == unpack_reply_header(Received(m))
           t == take_in(header)
           r == GetAttr(t)
<1>9. Reads(header, b, Len(b), 24, h)
  BY <1>6, <1>7, ReplyHeaderReads, SMTT(20)
<1> HIDE DEF header
<1>10. Reads(t, b, Len(b), 24, 0)
  BY <1>6, <1>9, take_inReads, SMTT(20)
<1> HIDE DEF t
<1>11. Reads(r, b, Len(b), 40, a)
  BY <1>6, <1>8, <1>10, GetAttrReads
<1> HIDE DEF r
<1>12. header.ok /\ header.x = h /\ r.x = a /\ okdone(r)
  BY <1>6, <1>9, <1>11 DEF Reads, okdone
<1> QED
  BY <1>0, <1>12 DEF GetattrIsRead, header, t, r

-----------------------------------------------------------------------------
(* Every put reaches the handler with its header, extent id and content,   *)
(* and nothing left over, for every content a file can have (rpc.h:177,    *)
(* 425).                                                                   *)
THEOREM PutsArrive == FileSpec => []PutArrives
<1>1. FileTypeOK => PutArrives
  <2> SUFFICES ASSUME FileTypeOK, NEW s \in Contents, NEW id \in Longs, NEW h \in Headers
               PROVE  PutIsRead(h, id, s)
    BY DEF PutArrives, PutIsRead
  <2>1. id \in [hi : Word, lo : Word] /\ h \in ReqHeader
    BY WireAssumption, SMTT(20) DEF ReqHeader
  <2> QED BY <2>1, ContentsAre, OnePutArrives
<1> QED
  BY <1>1, FileTyped, PTL

(* Writing a put request never runs past the end of the buffer, whatever   *)
(* its first size and the length of the content (rpc.cc:781).              *)
THEOREM BuffersHold == FileSpec => []BufferHolds
<1>1. FileTypeOK => BufferHolds
  <2> SUFFICES ASSUME FileTypeOK, NEW s \in Contents, NEW id \in Longs, NEW h \in Headers
               PROVE  /\ PutRequest(h, id, s).ind <= PutRequest(h, id, s).capa
                      /\ PutRequest(h, id, s).capa = Len(PutRequest(h, id, s).buf)
    BY DEF BufferHolds
  <2>1. id \in [hi : Word, lo : Word] /\ h \in ReqHeader
    BY WireAssumption, SMT DEF ReqHeader
  <2>2. IsMessage(PutRequest(h, id, s))
    BY <2>1, ContentsAre, OnePutArrives, ZenonT(40)
  <2> QED BY <2>2 DEF IsMessage
<1> QED
  BY <1>1, FileTyped, PTL

(* Every reply to get gives the caller its xid, its result and the content *)
(* (rpc.h:151).                                                            *)
THEOREM GetsReturn == FileSpec => []GetReturns
<1>1. FileTypeOK => GetReturns
  <2> SUFFICES ASSUME FileTypeOK, NEW s \in Contents, NEW h \in Headers
               PROVE  GetIsRead([xid |-> h.xid, ret |-> h.proc], s)
    BY  DEF GetReturns, GetIsRead
  <2>1. [xid |-> h.xid, ret |-> h.proc] \in ReplyHeader
    BY WireAssumption, SMTT(20) DEF ReplyHeader
  <2> QED BY <2>1, ContentsAre, OneGetReturns
<1> QED
  BY <1>1, FileTyped, PTL

(* Every reply to getattr gives the caller its xid, its result and the     *)
(* four words of the attributes (rpc.h:151).                               *)
THEOREM GetattrsReturn == FileSpec => []GetattrReturns
<1>1. FileTypeOK => GetattrReturns
  <2> SUFFICES ASSUME FileTypeOK, NEW id \in Longs, NEW h \in Headers
               PROVE  GetattrIsRead([xid |-> h.xid, ret |-> 0],
                                    [atime |-> id.hi, mtime |-> id.lo, ctime |-> h.srv_nonce,
                                     size |-> Len(content)])
    BY  DEF GetattrReturns, GetattrIsRead
  <2>1. 0 \in Word
    BY Z3 DEF Word
  <2>2. Len(content) \in Word
    BY ContentsAre DEF Contents
  <2>3. [xid |-> h.xid, ret |-> 0] \in ReplyHeader
    BY <2>1, WireAssumption, SMTT(20) DEF ReplyHeader
  <2>4. [atime |-> id.hi, mtime |-> id.lo, ctime |-> h.srv_nonce, size |-> Len(content)]
          \in Attr
    BY <2>2, WireAssumption, SMT DEF Attr
  <2> QED BY <2>3, <2>4, OneGetattrReturns
<1> QED
  BY <1>1, FileTyped, PTL
=============================================================================
