---------------------------- MODULE ExtentCache ----------------------------
(***************************************************************************)
(* The extent server and the write-back caches of its clients              *)
(* (extent_server.cc, extent_client.cc), under the locks of the caching    *)
(* lock service: the calls assume that the caller holds the lock on the    *)
(* extent, and lock_release_action::dorelease flushes the extent before    *)
(* the lock leaves the client.  The locks are LockToken's, which LockCache *)
(* is shown to implement; one lock per extent.                             *)
(*                                                                         *)
(* Of the attributes the size is modelled; the times are not.  Contents    *)
(* are values with a size.  A call to the server is a request, the         *)
(* server's handler and the reply, one step each.                          *)
(***************************************************************************)
EXTENDS Naturals

CONSTANTS Clients, Workers, ClientOf, None, Extents, Values, Empty, Size, Root,
          NoEntry, IOERR

ASSUME ExtentCacheAssumption ==
  /\ ClientOf \in [Workers -> Clients]
  /\ Empty \in Values /\ Size \in [Values -> Nat] /\ Size[Empty] = 0
  /\ NoEntry \notin Values \cup Nat /\ IOERR \notin Values \cup Nat /\ NoEntry # IOERR

VARIABLES token,              \* where the lock of each extent is
          content_map,        \* the server's extents
          attr_map,           \* their sizes
          content_map_cache,  \* each client's cached extents,
          attr_map_cache,     \* cached sizes,
          dirty_eid_set,      \* and extents to write back
          rpc,                \* each thread's call to the extent server
          flush,              \* each client's write-back of an extent
          result              \* what each thread's last get or getattr returned

server == <<content_map, attr_map>>
caches == <<content_map_cache, attr_map_cache, dirty_eid_set>>
vars == <<token, server, caches, rpc, flush, result>>

Lock == INSTANCE LockToken WITH Locks <- Extents

Sizes == {Size[v] : v \in Values}
Idle == [op |-> "none", eid |-> Root, reply |-> None]
Calls == [op : {"get", "getattr"}, eid : Extents,
          reply : {None, IOERR} \cup Values \cup Sizes] \cup {Idle}

(* Every variable has its type; an error is never cached.                  *)
TypeOK ==
  /\ token \in [Extents -> Lock!Token]
  /\ content_map \in [Extents -> Values \cup {NoEntry}]
  /\ attr_map \in [Extents -> Sizes \cup {NoEntry}]
  /\ content_map_cache \in [Clients -> [Extents -> Values \cup {NoEntry}]]
  /\ attr_map_cache \in [Clients -> [Extents -> Sizes \cup {NoEntry}]]
  /\ dirty_eid_set \in [Clients -> SUBSET Extents]
  /\ rpc \in [Workers -> Calls]
  /\ flush \in [Clients -> [Extents -> {"no", "sent", "done"}]]
  /\ result \in [Workers -> {NoEntry, IOERR} \cup (Extents \X (Values \cup Sizes))]

(* extent_server's constructor: an empty root directory.                   *)
Init ==
  /\ Lock!Init
  /\ content_map = [e \in Extents |-> IF e = Root THEN Empty ELSE NoEntry]
  /\ attr_map = [e \in Extents |-> IF e = Root THEN 0 ELSE NoEntry]
  /\ content_map_cache = [c \in Clients |-> [e \in Extents |-> NoEntry]]
  /\ attr_map_cache = [c \in Clients |-> [e \in Extents |-> NoEntry]]
  /\ dirty_eid_set = [c \in Clients |-> {}]
  /\ rpc = [w \in Workers |-> Idle]
  /\ flush = [c \in Clients |-> [e \in Extents |-> "no"]]
  /\ result = [w \in Workers |-> NoEntry]

-----------------------------------------------------------------------------
(* The lock of e moves from place to place; a thread does not release it   *)
(* in the middle of a call, and it leaves its flush by FlushDone only.     *)
LockMoves(e, tk) ==
  /\ tk \in Lock!Moves(token[e])
  /\ token[e].at # "flush"
  /\ token[e].at = "held" => rpc[token[e].by] = Idle
  /\ token' = [token EXCEPT ![e] = tk]
  /\ UNCHANGED <<server, caches, rpc, flush, result>>

Calling(w, e) == token[e] = Lock!At("held", w) /\ rpc[w] = Idle
Ask(w, op, e) == rpc' = [rpc EXCEPT ![w] = [op |-> op, eid |-> e, reply |-> None]]
Returns(w, e, x) == result' = [result EXCEPT ![w] = IF x = IOERR THEN IOERR ELSE <<e, x>>]

(* extent_client::get and getattr: from the cache if it is there, else a   *)
(* call.                                                                   *)
get(w, e) ==
  LET x == content_map_cache[ClientOf[w]][e] IN
  /\ Calling(w, e)
  /\ \/ x # NoEntry /\ Returns(w, e, x) /\ UNCHANGED rpc
     \/ x = NoEntry /\ Ask(w, "get", e) /\ UNCHANGED result
  /\ UNCHANGED <<token, server, caches, flush>>

getattr(w, e) ==
  LET x == attr_map_cache[ClientOf[w]][e] IN
  /\ Calling(w, e)
  /\ \/ x # NoEntry /\ Returns(w, e, x) /\ UNCHANGED rpc
     \/ x = NoEntry /\ Ask(w, "getattr", e) /\ UNCHANGED result
  /\ UNCHANGED <<token, server, caches, flush>>

(* extent_server::get and getattr.                                         *)
ServerGet(w) ==
  LET k == rpc[w]
      x == IF k.op = "get" THEN content_map[k.eid] ELSE attr_map[k.eid] IN
  /\ k # Idle /\ k.reply = None
  /\ rpc' = [rpc EXCEPT ![w].reply = IF x = NoEntry THEN IOERR ELSE x]
  /\ UNCHANGED <<token, server, caches, flush, result>>

(* The reply reaches the caller, who caches it if it is not an error.  The *)
(* slip before it does not look.                                           *)
GetReplyUnchecked(w) ==
  LET k == rpc[w]  c == ClientOf[w] IN
  /\ k # Idle /\ k.reply # None
  /\ \/ /\ k.op = "get"
        /\ content_map_cache' = [content_map_cache EXCEPT ![c][k.eid] = k.reply]
        /\ UNCHANGED attr_map_cache
     \/ /\ k.op = "getattr"
        /\ attr_map_cache' = [attr_map_cache EXCEPT ![c][k.eid] = k.reply]
        /\ UNCHANGED content_map_cache
  /\ Returns(w, k.eid, k.reply)
  /\ rpc' = [rpc EXCEPT ![w] = Idle]
  /\ UNCHANGED <<token, server, dirty_eid_set, flush>>

GetReply(w) ==
  LET k == rpc[w]  c == ClientOf[w] IN
  /\ k # Idle /\ k.reply # None
  /\ \/ k.reply = IOERR /\ UNCHANGED <<content_map_cache, attr_map_cache>>
     \/ /\ k.reply # IOERR /\ k.op = "get"
        /\ content_map_cache' = [content_map_cache EXCEPT ![c][k.eid] = k.reply]
        /\ UNCHANGED attr_map_cache
     \/ /\ k.reply # IOERR /\ k.op = "getattr"
        /\ attr_map_cache' = [attr_map_cache EXCEPT ![c][k.eid] = k.reply]
        /\ UNCHANGED content_map_cache
  /\ Returns(w, k.eid, k.reply)
  /\ rpc' = [rpc EXCEPT ![w] = Idle]
  /\ UNCHANGED <<token, server, dirty_eid_set, flush>>

(* extent_client::put: the cache alone, after a slip: the new size is      *)
(* forgotten.                                                              *)
PutUnsized(w, e, v) ==
  LET c == ClientOf[w] IN
  /\ Calling(w, e)
  /\ content_map_cache' = [content_map_cache EXCEPT ![c][e] = v]
  /\ dirty_eid_set' = [dirty_eid_set EXCEPT ![c] = @ \cup {e}]
  /\ UNCHANGED <<token, server, attr_map_cache, rpc, flush, result>>

put(w, e, v) ==
  LET c == ClientOf[w] IN
  /\ Calling(w, e)
  /\ content_map_cache' = [content_map_cache EXCEPT ![c][e] = v]
  /\ dirty_eid_set' = [dirty_eid_set EXCEPT ![c] = @ \cup {e}]
  /\ attr_map_cache' = [attr_map_cache EXCEPT ![c][e] = Size[v]]
  /\ UNCHANGED <<token, server, rpc, flush, result>>

-----------------------------------------------------------------------------
(* dorelease calls extent_client::flush: a dirty extent is put to the      *)
(* server first.                                                           *)
Flushing(c, e) == token[e] = Lock!At("flush", c)

FlushSend(c, e) ==
  /\ Flushing(c, e) /\ flush[c][e] = "no" /\ e \in dirty_eid_set[c]
  /\ flush' = [flush EXCEPT ![c][e] = "sent"]
  /\ UNCHANGED <<token, server, caches, rpc, result>>

(* content_map_cache[eid] in flush: an empty string if it is not there.    *)
WriteBack(c, e) == IF content_map_cache[c][e] = NoEntry THEN Empty ELSE content_map_cache[c][e]

(* extent_server::put.                                                     *)
ServerPut(c, e) ==
  /\ flush[c][e] = "sent"
  /\ flush' = [flush EXCEPT ![c][e] = "done"]
  /\ content_map' = [content_map EXCEPT ![e] = WriteBack(c, e)]
  /\ attr_map' = [attr_map EXCEPT ![e] = Size[WriteBack(c, e)]]
  /\ UNCHANGED <<token, caches, rpc, result>>

(* The rest of flush, with remove, and the lock goes on its way.  The slip *)
(* before it keeps the cached size.                                        *)
FlushDoneKept(c, e) ==
  /\ Flushing(c, e) /\ (e \in dirty_eid_set[c] => flush[c][e] = "done")
  /\ flush' = [flush EXCEPT ![c][e] = "no"]
  /\ dirty_eid_set' = [dirty_eid_set EXCEPT ![c] = @ \ {e}]
  /\ content_map_cache' = [content_map_cache EXCEPT ![c][e] = NoEntry]
  /\ token' = [token EXCEPT ![e] = Lock!At("released", c)]
  /\ UNCHANGED <<server, attr_map_cache, rpc, result>>

FlushDone(c, e) ==
  /\ Flushing(c, e) /\ (e \in dirty_eid_set[c] => flush[c][e] = "done")
  /\ flush' = [flush EXCEPT ![c][e] = "no"]
  /\ dirty_eid_set' = [dirty_eid_set EXCEPT ![c] = @ \ {e}]
  /\ content_map_cache' = [content_map_cache EXCEPT ![c][e] = NoEntry]
  /\ attr_map_cache' = [attr_map_cache EXCEPT ![c][e] = NoEntry]
  /\ token' = [token EXCEPT ![e] = Lock!At("released", c)]
  /\ UNCHANGED <<server, rpc, result>>

Next ==
  \/ \E e \in Extents : \E tk \in Lock!Token : LockMoves(e, tk)
  \/ \E w \in Workers : ServerGet(w) \/ GetReply(w)
  \/ \E w \in Workers, e \in Extents :
       get(w, e) \/ getattr(w, e) \/ \E v \in Values : put(w, e, v)
  \/ \E c \in Clients, e \in Extents :
       FlushSend(c, e) \/ ServerPut(c, e) \/ FlushDone(c, e)

Spec == Init /\ [][Next]_vars

-----------------------------------------------------------------------------
(* The client that may look at an extent now or later without asking the   *)
(* lock server.                                                            *)
HasLock(c, e) ==
  \/ token[e].at \in {"cached", "flush"} /\ token[e].by = c
  \/ token[e].at = "held" /\ ClientOf[token[e].by] = c

(* A client that gave the lock of an extent away kept nothing of it: no    *)
(* content or size that would be stale when it gets the lock again, and    *)
(* nothing left to write back over another client's put.                   *)
NothingStaleKept ==
  \A c \in Clients, e \in Extents :
    HasLock(c, e) \/ token[e] = Lock!Lost
      \/ /\ content_map_cache[c][e] = NoEntry
         /\ attr_map_cache[c][e] = NoEntry
         /\ e \notin dirty_eid_set[c]

(* The one copy of an extent that the system stands for: what a client has *)
(* yet to write back, else what the server has.                            *)
StoreOf(e) ==
  IF \E c \in Clients : e \in dirty_eid_set[c]
    THEN content_map_cache[CHOOSE c \in Clients : e \in dirty_eid_set[c]][e]
    ELSE content_map[e]

Abstract == INSTANCE ExtentStore WITH store <- [e \in Extents |-> StoreOf(e)]

(* The caches cannot be told from a single store: every get and getattr    *)
(* returns what the last put of any client wrote.                          *)
ImplementsExtentStore == Abstract!Spec
=============================================================================
