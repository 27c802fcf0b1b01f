---------------------------- MODULE MCLockCache ----------------------------
(***************************************************************************)
(* Small instances of LockCache: client A with two application threads,    *)
(* client B with one.                                                      *)
(***************************************************************************)
EXTENDS LockCache, TLC

CONSTANTS A, B, a1, a2, b1, l1, l2

MCClients == {A, B}
MCWorkers == {a1, a2, b1}
MCClientOf == [w \in MCWorkers |-> IF w = b1 THEN B ELSE A]
MCWorkers2 == {a1, b1}
MCClientOf2 == [w \in MCWorkers2 |-> IF w = b1 THEN B ELSE A]

(* The behaviours in which every give_back() finds the lock still FREE:    *)
(* most properties say nothing of the others.                              *)
NotOvertaken == ~overtaken'

(* Two locks as long as every call is answered in time and one of A's two  *)
(* threads is idle; one lock otherwise, and after a timeout some thread is *)
(* idle.                                                                   *)
InUse(l) == \E c \in Clients : lockstate_map[c][l] # "ABSENT"
OneLock == \E l \in Locks : \A m \in Locks \ {l} : ~InUse(m)
Resting(w) == pc[w] = "idle" /\ held[w] = {}

SmallEnough ==
  /\ OneLock' \/ (timeouts' = 0 /\ (Resting(a1) \/ Resting(a2))')
  /\ timeouts' > 0 => (\E w \in Workers : Resting(w))'

(* The threads of one client are interchangeable, and so are the locks.    *)
Twins == Permutations({a1, a2}) \cup Permutations({l1, l2})
=============================================================================
