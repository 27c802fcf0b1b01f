---------------------------- MODULE ExtentStore ----------------------------
(***************************************************************************)
(* What the extent service promises to threads that hold the lock on an    *)
(* extent: one copy of every extent, whichever client looks.  A get or a   *)
(* getattr returns what the last put wrote, and nothing else changes it.   *)
(***************************************************************************)
CONSTANTS Workers, Extents, Values, Empty, Size, Root, NoEntry, IOERR

VARIABLES store,   \* the contents of the extents, NoEntry if never put
          result   \* what each thread's last get or getattr returned

Init ==
  /\ store = [e \in Extents |-> IF e = Root THEN Empty ELSE NoEntry]
  /\ result = [w \in Workers |-> NoEntry]

Put(e, v) ==
  /\ store' = [store EXCEPT ![e] = v]
  /\ UNCHANGED result

Get(w, e) ==
  /\ result' = [result EXCEPT ![w] = IF store[e] = NoEntry THEN IOERR ELSE <<e, store[e]>>]
  /\ UNCHANGED store

GetAttr(w, e) ==
  /\ result' = [result EXCEPT ![w] = IF store[e] = NoEntry THEN IOERR ELSE <<e, Size[store[e]]>>]
  /\ UNCHANGED store

Next ==
  \E e \in Extents :
    \/ \E v \in Values : Put(e, v)
    \/ \E w \in Workers : Get(w, e) \/ GetAttr(w, e)

Spec == Init /\ [][Next]_<<store, result>>
=============================================================================
