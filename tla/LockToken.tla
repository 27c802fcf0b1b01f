----------------------------- MODULE LockToken -----------------------------
(***************************************************************************)
(* What the caching lock service promises, without calls, callbacks and    *)
(* mutexes: each lock is one token, and every way it may travel between    *)
(* the server, the clients' caches and the threads that use it.  A client  *)
(* gives a token back through a flush of the data it protects, and a token *)
(* can be lost (when a call times out) but never doubled.                  *)
(***************************************************************************)
CONSTANTS Clients, Locks, Workers, ClientOf, None

VARIABLE token

AtServer == [at |-> "server", by |-> None]
Lost     == [at |-> "lost", by |-> None]
At(place, x) == [at |-> place, by |-> x]
HeldAt(c) == {At("held", w) : w \in {v \in Workers : ClientOf[v] = c}}

Token == {AtServer, Lost} \cup [at : {"held"}, by : Workers]
           \cup [at : {"granted", "cached", "flush", "released"}, by : Clients]

(* The moves of a token.  Granted: the server gives the lock to a client   *)
(* that asked.  Held: a thread of the client takes it, new or cached.      *)
(* Cached: the thread is done and the client keeps the lock.  Flush: the   *)
(* lock is to leave the client, which first flushes the data; then it is   *)
(* released, and back at the server when the request arrives.  Lost: the   *)
(* server answers a client that no longer waits, or a cached lock is wiped *)
(* out of the client's table by a retry callback.                          *)
Moves(tk) ==
  CASE tk.at = "server"   -> {At("granted", c) : c \in Clients} \cup {Lost}
    [] tk.at = "granted"  -> HeldAt(tk.by) \cup {Lost}
    [] tk.at = "held"     -> {At("cached", ClientOf[tk.by]),
                              At("flush", ClientOf[tk.by])}
    [] tk.at = "cached"   -> HeldAt(tk.by) \cup {At("flush", tk.by), Lost}
    [] tk.at = "flush"    -> {At("released", tk.by)}
    [] tk.at = "released" -> {AtServer}
    [] tk.at = "lost"     -> {}

Init == token = [l \in Locks |-> AtServer]

Next == LET was == token
            now == token'
        IN \E l \in Locks : /\ now[l] \in Moves(was[l])
                            /\ \A m \in Locks \ {l} : now[m] = was[m]

Spec == Init /\ [][Next]_token
=============================================================================
