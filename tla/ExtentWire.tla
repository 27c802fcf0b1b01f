----------------------------- MODULE ExtentWire -----------------------------
(***************************************************************************)
(* The calls that carry a file to and from the extent server: what         *)
(* rpcc::call and the handlers of rpcs::reg (rpc/rpc.h) do with the        *)
(* arguments and results of put, get and getattr (extent_protocol.h), for  *)
(* every content that YfsFile reaches.                                     *)
(***************************************************************************)
EXTENDS YfsFile, Marshall

CONSTANTS Longs,     \* extent ids and times to try, as pairs of words
          Headers,   \* headers of requests to try
          Copies     \* contents are tried alone and this many times over

(* What the C++ types hold: char, unsigned long long, int, and a size that *)
(* fits an int.                                                            *)
ASSUME WireAssumption ==
  /\ Letters \subseteq Octet
  /\ Longs \subseteq [hi : Word, lo : Word]
  /\ Headers \subseteq [xid : Word, proc : Word, clt_nonce : Word, srv_nonce : Word,
                        xid_rep : Word]
  /\ Copies \in Nat \ {0} /\ Copies * MaxSize <= 2147483647

Repeated(s, n) == [i \in 1..n * Len(s) |-> s[((i - 1) % Len(s)) + 1]]
Contents == {content, Repeated(content, Copies)}

PutAttr(m, a) == pack(pack(pack(pack(m, a.atime), a.mtime), a.ctime), a.size)

GetAttr(u) ==
  LET atime == unpack(u)
      mtime == unpack(atime)
      ctime == unpack(mtime)
      size == unpack(ctime) IN
  [size EXCEPT !.x = [atime |-> atime.x, mtime |-> mtime.x, ctime |-> ctime.x, size |-> size.x]]

(* call(put, eid, content, r), and the bytes that connection::send sends.  *)
PutRequest(h, id, s) == pack_req_header(PutString(PutLong(marshall, id), s), h)
Sent(m) == SubSeq(m.buf, 1, m.ind)
Received(m) == unmarshall(Sent(m), m.ind)

(* The handler's results before the reply's header, and what call_m reads. *)
GetReplyPdu(h, s) == pack_reply_header(PutString(marshall, s), h)
GetattrReply(h, a) == pack_reply_header(PutAttr(marshall, a), h)

(* A put reaches the handler with its header, extent id and content, and   *)
(* not a byte is left over (rpc.h:425), although the header is written     *)
(* over the front of a buffer that grew behind it.                         *)
PutArrives ==
  \A s \in Contents, id \in Longs, h \in Headers :
    LET header == unpack_req_header(Received(PutRequest(h, id, s)))
        a1 == GetLong(header)
        a2 == GetString(a1) IN
    header.x = h /\ a1.x = id /\ a2.x = s /\ okdone(a2)

(* The reply to get gives the caller its xid, its result and the content   *)
(* (rpc.h:151).                                                            *)
GetReturns ==
  \A s \in Contents, h \in Headers :
    LET rh == [xid |-> h.xid, ret |-> h.proc]
        header == unpack_reply_header(Received(GetReplyPdu(rh, s)))
        r == GetString(take_in(header)) IN
    header.ok /\ header.x = rh /\ r.x = s /\ okdone(r)

(* The reply to getattr gives the caller the four words of the attributes, *)
(* times past 2^31 included.                                               *)
GetattrReturns ==
  \A id \in Longs, h \in Headers :
    LET a == [atime |-> id.hi, mtime |-> id.lo, ctime |-> h.srv_nonce, size |-> Len(content)]
        rh == [xid |-> h.xid, ret |-> 0]
        header == unpack_reply_header(Received(GetattrReply(rh, a)))
        r == GetAttr(take_in(header)) IN
    header.ok /\ header.x = rh /\ r.x = a /\ okdone(r)

(* Nothing is written past the end of the buffer, whichever way it had to  *)
(* grow (rpc.cc:781).                                                      *)
BufferHolds ==
  \A s \in Contents, id \in Longs, h \in Headers :
    LET m == PutRequest(h, id, s) IN m.ind <= m.capa /\ m.capa = Len(m.buf)
=============================================================================
