------------------------------ MODULE Marshall ------------------------------
(***************************************************************************)
(* The bytes of RPC messages: classes marshall and unmarshall              *)
(* (rpc/marshall.h, rpc/rpc.cc) as operators on records.  A buffer is the  *)
(* sequence of the bytes allocated, whose first values are arbitrary; a    *)
(* word is the 32-bit integer with the bits the code shifts and masks, and *)
(* a long is its two words.  The build does not define RPC_CHECKSUMMING.   *)
(***************************************************************************)
EXTENDS Integers, Sequences

CONSTANT DEFAULT_RPC_SZ   \* bytes first allocated (1024 in the code)

RPC_HEADER_SZ == 24   \* sizeof(req_header) + sizeof(rpc_sz_t)
SIZE_SZ == 4          \* sizeof(rpc_sz_t)

ASSUME MarshallAssumption == DEFAULT_RPC_SZ \in Nat /\ DEFAULT_RPC_SZ >= RPC_HEADER_SZ

Junk == 256           \* a byte malloc returned and nobody wrote
Octet == 0..255
Word == {x \in Int : -2147483647 - 1 <= x /\ x <= 2147483647}

-----------------------------------------------------------------------------
(* class marshall: _buf, _capa, _ind.                                      *)

Fresh(n) == [i \in 1..n |-> Junk]
realloc(buf, n) == buf \o Fresh(n - Len(buf))

marshall == [buf |-> Fresh(DEFAULT_RPC_SZ), capa |-> DEFAULT_RPC_SZ, ind |-> RPC_HEADER_SZ]

Grown(m, capa) == [m EXCEPT !.capa = capa, !.buf = realloc(@, capa)]

(* memcpy(_buf+_ind, p, n), and _ind += n.                                 *)
memcpy(buf, ind, p) == SubSeq(buf, 1, ind) \o p \o SubSeq(buf, ind + Len(p) + 1, Len(buf))
Copied(m, p) == [m EXCEPT !.buf = memcpy(@, m.ind, p), !.ind = @ + Len(p)]

(* The buffer doubles, or grows by what is to be copied if that is more.   *)
rawbytes(m, p) ==
  Copied(IF m.ind + Len(p) > m.capa
         THEN Grown(m, IF m.capa > Len(p) THEN 2 * m.capa ELSE m.capa + Len(p))
         ELSE m, p)

(* The bytes of a word, the first one first; >> of a negative int keeps    *)
(* the sign.                                                               *)
HighByte(x) == (x \div 16777216) % 256
UpperByte(x) == (x \div 65536) % 256
LowerByte(x) == (x \div 256) % 256
LowByte(x) == x % 256

(* Four calls of rawbyte in a row, each of which doubles a full buffer: it *)
(* fills at most once in four bytes.                                       *)
pack(m, x) ==
  Copied(IF m.ind + 4 > m.capa THEN Grown(m, 2 * m.capa) ELSE m,
         <<HighByte(x), UpperByte(x), LowerByte(x), LowByte(x)>>)

PutLong(m, x) == pack(pack(m, x.hi), x.lo)
PutString(m, s) == rawbytes(pack(m, Len(s)), s)

(* The headers go in front of what is there already.                       *)
pack_req_header(m, h) ==
  LET m0 == [m EXCEPT !.ind = SIZE_SZ] IN
  [pack(pack(pack(pack(pack(m0, h.xid), h.proc), h.clt_nonce), h.srv_nonce), h.xid_rep)
     EXCEPT !.ind = m.ind]

pack_reply_header(m, h) ==
  [pack(pack([m EXCEPT !.ind = SIZE_SZ], h.xid), h.ret) EXCEPT !.ind = m.ind]

-----------------------------------------------------------------------------
(* class unmarshall: _buf, _sz, _ind, _ok, and x, the value last read.     *)

unmarshall(b, sz) == [buf |-> b, sz |-> sz, ind |-> 0, ok |-> TRUE, x |-> 0]

RawByte(u) ==
  IF u.ind >= u.sz THEN [u EXCEPT !.ok = FALSE, !.x = 0]
  ELSE [u EXCEPT !.x = u.buf[u.ind + 1], !.ind = @ + 1]

FromBytes(b3, b2, b1, b0) ==
  (IF b3 > 127 THEN b3 - 256 ELSE b3) * 16777216 + b2 * 65536 + b1 * 256 + b0

unpackSwapped(u) ==   \* a slip: the other byte order
  LET u3 == RawByte(u)
      u2 == RawByte(u3)
      u1 == RawByte(u2)
      u0 == RawByte(u1) IN
  [u0 EXCEPT !.x = FromBytes(u0.x, u1.x, u2.x, u3.x)]

unpack(u) ==
  LET u3 == RawByte(u)
      u2 == RawByte(u3)
      u1 == RawByte(u2)
      u0 == RawByte(u1) IN
  [u0 EXCEPT !.x = FromBytes(u3.x, u2.x, u1.x, u0.x)]

GetLong(u) ==
  LET h == unpack(u)
      l == unpack(h) IN
  [l EXCEPT !.x = [hi |-> h.x, lo |-> l.x]]

(* The size, read as unsigned, and unmarshall::rawbytes.                   *)
GetString(u) ==
  LET n == unpack(u) IN
  IF n.ok /\ n.x >= 0 /\ n.ind + n.x <= n.sz
  THEN [n EXCEPT !.x = SubSeq(n.buf, n.ind + 1, n.ind + n.x), !.ind = @ + n.x]
  ELSE [n EXCEPT !.ok = FALSE, !.x = <<>>]

unpack_req_header(u) ==
  LET xid == unpack([u EXCEPT !.ind = SIZE_SZ])
      proc == unpack(xid)
      clt == unpack(proc)
      srv == unpack(clt)
      rep == unpack(srv) IN
  [rep EXCEPT !.ind = RPC_HEADER_SZ,
              !.x = [xid |-> xid.x, proc |-> proc.x, clt_nonce |-> clt.x,
                     srv_nonce |-> srv.x, xid_rep |-> rep.x]]

unpack_reply_header(u) ==
  LET xid == unpack([u EXCEPT !.ind = SIZE_SZ])
      ret == unpack(xid) IN
  [ret EXCEPT !.ind = RPC_HEADER_SZ, !.x = [xid |-> xid.x, ret |-> ret.x]]

take_in(u) ==
  [buf |-> u.buf, sz |-> u.sz, ind |-> RPC_HEADER_SZ, ok |-> u.sz >= RPC_HEADER_SZ, x |-> 0]

okdone(u) == u.ok /\ u.ind = u.sz
=============================================================================
