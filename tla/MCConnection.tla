---------------------------- MODULE MCConnection ----------------------------
(* A small instance of Connection: two connections that use the same       *)
(* descriptor one after the other, two senders.                            *)
EXTENDS Connection

TwoConns == {1, 2}

(* No send starts on the second connection: it is there to receive, and to *)
(* meet what the first one leaves behind.                                  *)
SecondReceives == made' = 2 => UNCHANGED sends
=============================================================================
