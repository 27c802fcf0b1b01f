----------------------------- MODULE MCYfsFile -----------------------------
(* A small instance of YfsFile and ExtentWire for TLC: the buffer is too   *)
(* small for a put with a content, and far too small for one many times    *)
(* as long.  The words are those with all, none or the top bit set, and    *)
(* one with four different bytes.                                          *)
EXTENDS ExtentWire

TwoLetters == {1, 2}
TopBit == -2147483647 - 1
TwoLongs == {[hi |-> 0, lo |-> TopBit + 2], [hi |-> -1, lo |-> 16909060]}
TwoHeaders ==
  {[xid |-> 1, proc |-> 24577, clt_nonce |-> 2147483647, srv_nonce |-> TopBit, xid_rep |-> 0],
   [xid |-> 16909060, proc |-> -3, clt_nonce |-> 0, srv_nonce |-> 1, xid_rep |-> 258]}
=============================================================================
