---------------------------- MODULE ServerConns ----------------------------
(***************************************************************************)
(* The references an RPC server holds on its connections: the listener     *)
(* (tcpsconn, rpc/connection.cc), the poll thread inside rpcs::got_pdu,    *)
(* the jobs of the pool, the workers inside rpcs::dispatch, and conns_,    *)
(* the latest connection of every client (rpc/rpc.cc).  What a connection  *)
(* does with its bytes is in module Connection, the pool in ThrPool, and   *)
(* the at-most-once decision, here any of its four outcomes, in RpcCall.   *)
(* A step runs from one mutex or blocking call to the next.                *)
(***************************************************************************)
EXTENDS Naturals, Sequences, FiniteSets, FiniteSetsExt, Functions

CONSTANTS Clients,     \* client nonces
          Anonymous,   \* nonce 0, of a client that does not retransmit
          Workers,     \* threads of dispatchpool_
          MaxQueue,    \* bound of the pool's queue
          MaxConns,    \* bound: connections accepted in all
          MaxPdus      \* bound: PDUs taken in all

ASSUME ServerConnsAssumption ==
  /\ IsFiniteSet(Clients) /\ Anonymous \in Clients /\ "nobody" \notin Clients
  /\ IsFiniteSet(Workers)
  /\ MaxQueue \in Nat /\ MaxConns \in Nat /\ MaxPdus \in Nat

Conns == 1..MaxConns   \* in the order of their creation
NoConn == 0
Nobody == "nobody"
Kinds == {"good", "old", "short"}   \* for this server, another instance, cut off

VARIABLES made,     \* connections created
          owner,    \* the client at the other end
          ctime,    \* create_time_, at the resolution of the clock
          fd_,
          dead_,
          closed,   \* closeconn() took it from the poll manager
          refno_,   \* 0 once deleted
          listener, \* tcpsconn::conns_, from descriptors to connections
          acc,      \* process_accept: the new connection, descriptors not yet visited
          latest,   \* rpcs::conns_
          q,        \* jobs in the pool's queue
          worker,   \* what each thread of the pool does
          poll,     \* the connection whose refused PDU the poll thread handles
          phase,    \* how far ~rpcs has come
          pdus,     \* PDUs taken
          leaked,   \* references dispatch() forgot
          newest,   \* history: the latest time of a connection that reached conns_'s update
          crashed   \* the client whose request made a call through a null pointer

connVars == <<made, owner, ctime, fd_, listener, acc, phase>>
poolVars == <<q, worker, poll, pdus, leaked, newest, crashed>>
vars == <<connVars, poolVars, dead_, closed, refno_, latest>>

IdleWorker == [at |-> "idle", c |-> NoConn, old |-> FALSE]
NoAccept == [ch |-> NoConn, todo |-> {}]
Fds == Conns

(* Every variable has its type, and no count goes below zero.              *)
TypeOK ==
  /\ made \in 0..MaxConns
  /\ owner \in [Conns -> Clients]
  /\ ctime \in [Conns -> Conns \cup {0}] /\ fd_ \in [Conns -> Fds \cup {0}]
  /\ dead_ \in [Conns -> BOOLEAN] /\ closed \in [Conns -> BOOLEAN]
  /\ refno_ \in [Conns -> Nat] /\ leaked \in [Conns -> Nat]
  /\ DOMAIN listener \subseteq Fds /\ Range(listener) \subseteq Conns
  /\ acc \in [ch : Conns \cup {NoConn}, todo : SUBSET Fds]
  /\ latest \in [Clients -> Conns \cup {NoConn}]
  /\ q \in Seq([c : Conns, kind : Kinds])
  /\ Len(q) <= MaxQueue
  /\ worker \in [Workers -> [at : {"idle", "save", "run", "send", "blocked", "drop"},
                             c : Conns \cup {NoConn}, old : BOOLEAN]]
  /\ poll \in Conns \cup {NoConn}
  /\ phase \in {"up", "join", "close", "closing", "drain", "gone"}
  /\ pdus \in 0..MaxPdus
  /\ newest \in [Clients -> Conns \cup {0}]
  /\ crashed \in Clients \cup {Nobody}

Init ==
  /\ made = 0
  /\ owner = [c \in Conns |-> Anonymous]
  /\ ctime = [c \in Conns |-> 0] /\ fd_ = [c \in Conns |-> 0]
  /\ dead_ = [c \in Conns |-> FALSE] /\ closed = [c \in Conns |-> FALSE]
  /\ refno_ = [c \in Conns |-> 0] /\ leaked = [c \in Conns |-> 0]
  /\ listener = <<>> /\ acc = NoAccept
  /\ latest = [k \in Clients |-> NoConn]
  /\ q = <<>> /\ worker = [w \in Workers |-> IdleWorker] /\ poll = NoConn
  /\ phase = "up" /\ pdus = 0 /\ newest = [k \in Clients |-> 0] /\ crashed = Nobody

Open(c) == c <= made /\ refno_[c] > 0   \* ~connection closes the descriptor

-----------------------------------------------------------------------------
(* The listener.                                                           *)

(* accept() returns the lowest free descriptor; the new connection's time  *)
(* is that of the previous one or later, and the poll thread knows it from *)
(* now on, before conns_ does.                                             *)
Accept(k) ==
  LET ch == made + 1
      free == Fds \ {fd_[c] : c \in {d \in Conns : Open(d)}}
      times == IF made = 0 THEN {1} ELSE {ctime[made], ctime[made] + 1} IN
  /\ phase = "up" /\ acc = NoAccept /\ made < MaxConns
  /\ made' = ch
  /\ owner' = [owner EXCEPT ![ch] = k]
  /\ \E t \in times : ctime' = [ctime EXCEPT ![ch] = t]
  /\ fd_' = [fd_ EXCEPT ![ch] = Min(free)]
  /\ refno_' = [refno_ EXCEPT ![ch] = 1]
  /\ acc' = [ch |-> ch, todo |-> DOMAIN listener]
  /\ UNCHANGED <<poolVars, dead_, closed, listener, latest, phase>>

CollectNone ==   \* a slip: the listener's own reference is overlooked
  /\ acc # NoAccept /\ acc.todo # {}
  /\ acc' = [acc EXCEPT !.todo = @ \ {Min(@)}]
  /\ UNCHANGED <<made, owner, ctime, fd_, listener, phase, poolVars, dead_, closed,
                 refno_, latest>>

(* One turn of the loop that drops dead connections nobody else refers to, *)
(* after a slip that drops them twice.                                     *)
CollectTwice ==
  LET f == Min(acc.todo)
      c == listener[f] IN
  /\ acc # NoAccept /\ acc.todo # {}
  /\ acc' = [acc EXCEPT !.todo = @ \ {f}]
  /\ IF dead_[c] /\ refno_[c] = 1
     THEN /\ refno_' = [refno_ EXCEPT ![c] = @ - 2]
          /\ listener' = Restrict(listener, DOMAIN listener \ {f})
     ELSE UNCHANGED <<refno_, listener>>
  /\ UNCHANGED <<made, owner, ctime, fd_, phase, poolVars, dead_, closed, latest>>

Collect ==
  LET f == Min(acc.todo)
      c == listener[f] IN
  /\ acc # NoAccept /\ acc.todo # {}
  /\ acc' = [acc EXCEPT !.todo = @ \ {f}]
  /\ IF dead_[c] /\ refno_[c] = 1
     THEN /\ refno_' = [refno_ EXCEPT ![c] = 0]
          /\ listener' = Restrict(listener, DOMAIN listener \ {f})
     ELSE UNCHANGED <<refno_, listener>>
  /\ UNCHANGED <<made, owner, ctime, fd_, phase, poolVars, dead_, closed, latest>>

(* conns_[ch->channo()] = ch.                                              *)
Insert ==
  LET f == fd_[acc.ch] IN
  /\ acc # NoAccept /\ acc.todo = {}
  /\ listener' = [g \in DOMAIN listener \cup {f} |-> IF g = f THEN acc.ch ELSE listener[g]]
  /\ acc' = NoAccept
  /\ UNCHANGED <<made, owner, ctime, fd_, phase, poolVars, dead_, closed, refno_, latest>>

-----------------------------------------------------------------------------
(* The poll thread.                                                        *)

Watched(c) == Open(c) /\ ~dead_[c] /\ poll = NoConn

(* Connection::read_cb meets the end of the stream (see Connection).       *)
Dies(c) ==
  /\ Watched(c)
  /\ dead_' = [dead_ EXCEPT ![c] = TRUE]
  /\ UNCHANGED <<connVars, poolVars, closed, refno_, latest>>

(* got_pdu: the job holds a reference of its own; when the queue is full   *)
(* it goes again, and the connection keeps the PDU.                        *)
got_pdu(c, kind) ==
  /\ Watched(c) /\ pdus < MaxPdus
  /\ refno_' = [refno_ EXCEPT ![c] = @ + 1]
  /\ IF Len(q) < MaxQueue
     THEN /\ q' = Append(q, [c |-> c, kind |-> kind])
          /\ pdus' = pdus + 1
          /\ UNCHANGED poll
     ELSE poll' = c /\ UNCHANGED <<q, pdus>>
  /\ UNCHANGED <<connVars, worker, leaked, newest, crashed, dead_, closed, latest>>

Refused ==
  /\ poll # NoConn
  /\ refno_' = [refno_ EXCEPT ![poll] = @ - 1]
  /\ poll' = NoConn
  /\ UNCHANGED <<connVars, q, worker, pdus, leaked, newest, crashed, dead_, closed, latest>>

-----------------------------------------------------------------------------
(* A thread of the pool in rpcs::dispatch.                                 *)

(* From the queue to the header and the tests that need no mutex.          *)
TakeJob(w) ==
  LET j == Head(q) IN
  /\ worker[w].at = "idle" /\ q # <<>>
  /\ worker' = [worker EXCEPT ![w] =
       [c |-> j.c, old |-> j.kind = "old",
        at |-> CASE j.kind = "short" -> "drop"
                 [] j.kind = "old" -> "send"
                 [] j.kind = "good" /\ owner[j.c] = Anonymous -> "run"
                 [] OTHER -> "save"]]
  /\ q' = Tail(q)
  /\ UNCHANGED <<connVars, poll, pdus, leaked, newest, crashed, dead_, closed, refno_, latest>>

(* The update of conns_ for a request of client k on connection c, after   *)
(* two slips: no reference is counted; the last request wins.              *)
SaveLatestUncounted(k, c) ==
  /\ latest' = [latest EXCEPT ![k] = IF @ = NoConn \/ ctime[@] < ctime[c] THEN c ELSE @]
  /\ UNCHANGED refno_

SaveLatestAlways(k, c) ==
  /\ latest' = [latest EXCEPT ![k] = c]
  /\ refno_' = [d \in Conns |-> refno_[d] - (IF d = latest[k] THEN 1 ELSE 0)
                                          + (IF d = c THEN 1 ELSE 0)]

SaveLatest(k, c) ==
  \/ /\ latest[k] = NoConn
     /\ latest' = [latest EXCEPT ![k] = c]
     /\ refno_' = [refno_ EXCEPT ![c] = @ + 1]
  \/ /\ latest[k] # NoConn /\ ctime[latest[k]] < ctime[c]
     /\ latest' = [latest EXCEPT ![k] = c]
     /\ refno_' = [refno_ EXCEPT ![latest[k]] = @ - 1, ![c] = @ + 1]
  \/ /\ latest[k] # NoConn /\ ctime[latest[k]] >= ctime[c]
     /\ UNCHANGED <<latest, refno_>>

(* With at-most-once logic: conns_, then what checkduplicate_and_update    *)
(* says: NEW, INPROGRESS, or DONE and FORGOTTEN.                           *)
Save(w) ==
  LET c == worker[w].c
      k == owner[c] IN
  /\ worker[w].at = "save"
  /\ SaveLatest(k, c)
  /\ newest' = [newest EXCEPT ![k] = Max({@, ctime[c]})]
  /\ \E at \in {"run", "drop", "send"} : worker' = [worker EXCEPT ![w].at = at]
  /\ UNCHANGED <<connVars, q, poll, pdus, leaked, crashed, dead_, closed>>

(* The handler has returned: a dead connection is exchanged for the        *)
(* client's latest.  conns_[0] is the null pointer that operator[] enters. *)
HandlerReturns(w) ==
  LET j == worker[w]
      c == j.c
      d == latest[owner[c]] IN
  /\ j.at = "run"
  /\ IF dead_[c] /\ c # d
     THEN /\ refno_' = [e \in Conns |-> refno_[e] - (IF e = c THEN 1 ELSE 0)
                                                  + (IF e = d THEN 1 ELSE 0)]
          /\ worker' = [worker EXCEPT ![w].at = "send", ![w].c = d]
          /\ crashed' = IF d = NoConn THEN owner[c] ELSE crashed
     ELSE worker' = [worker EXCEPT ![w].at = "send"] /\ UNCHANGED <<refno_, crashed>>
  /\ UNCHANGED <<connVars, q, poll, pdus, leaked, newest, dead_, closed, latest>>

(* The last line of dispatch, decref(), where the answer to a client of    *)
(* an old instance does not come.                                          *)
Return(w) ==
  LET c == worker[w].c IN
  /\ IF worker[w].old THEN leaked' = [leaked EXCEPT ![c] = @ + 1] /\ UNCHANGED refno_
     ELSE refno_' = [refno_ EXCEPT ![c] = @ - 1] /\ UNCHANGED leaked
  /\ worker' = [worker EXCEPT ![w] = IdleWorker]

(* send() returns at once, or sleeps while the socket takes no more.       *)
Send(w) ==
  /\ worker[w].at = "send"
  /\ \/ Return(w)
     \/ /\ ~dead_[worker[w].c]
        /\ worker' = [worker EXCEPT ![w].at = "blocked"]
        /\ UNCHANGED <<leaked, refno_>>
  /\ UNCHANGED <<connVars, q, poll, pdus, newest, crashed, dead_, closed, latest>>

(* The poll thread wakes a sleeping sender when all is written or the      *)
(* connection is found dead; after closeconn() it does neither.  First a   *)
(* slip: the sender of a dead connection is forgotten.                     *)
SendEndsAlive(w) ==
  /\ worker[w].at = "blocked" /\ ~dead_[worker[w].c]
  /\ Return(w)
  /\ UNCHANGED <<connVars, q, poll, pdus, newest, crashed, dead_, closed, latest>>

SendEnds(w) ==
  /\ worker[w].at = "blocked" /\ ~closed[worker[w].c]
  /\ Return(w)
  /\ UNCHANGED <<connVars, q, poll, pdus, newest, crashed, dead_, closed, latest>>

(* Nothing to send: a header cut off, or a request another worker runs.    *)
Drop(w) ==
  /\ worker[w].at = "drop"
  /\ Return(w)
  /\ UNCHANGED <<connVars, q, poll, pdus, newest, crashed, dead_, closed, latest>>

-----------------------------------------------------------------------------
(* ~rpcs: the listener first, then the pool.                               *)
Destroy ==
  /\ phase = "up"
  /\ phase' = "join"
  /\ UNCHANGED <<made, owner, ctime, fd_, listener, acc, poolVars, dead_, closed, refno_, latest>>

JoinAccept ==
  /\ phase = "join" /\ acc = NoAccept
  /\ phase' = "close"
  /\ UNCHANGED <<made, owner, ctime, fd_, listener, acc, poolVars, dead_, closed, refno_, latest>>

(* closeconn() on the next connection; block_remove_fd() and decref().     *)
closeconn ==
  LET c == listener[Min(DOMAIN listener)] IN
  /\ phase = "close"
  /\ IF listener = <<>> THEN phase' = "drain" /\ UNCHANGED <<dead_, closed>>
     ELSE /\ phase' = "closing"
          /\ closed' = [closed EXCEPT ![c] = ~dead_[c]]
          /\ dead_' = [dead_ EXCEPT ![c] = TRUE]
  /\ UNCHANGED <<made, owner, ctime, fd_, listener, acc, poolVars, refno_, latest>>

CloseDone ==
  LET f == Min(DOMAIN listener) IN
  /\ phase = "closing" /\ poll # listener[f]
  /\ refno_' = [refno_ EXCEPT ![listener[f]] = @ - 1]
  /\ listener' = Restrict(listener, DOMAIN listener \ {f})
  /\ phase' = "close"
  /\ UNCHANGED <<made, owner, ctime, fd_, acc, poolVars, dead_, closed, latest>>

(* ~ThrPool runs the jobs left and joins the workers (see ThrPool).        *)
PoolEnds ==
  /\ phase = "drain" /\ q = <<>> /\ \A w \in Workers : worker[w].at = "idle"
  /\ phase' = "gone"
  /\ UNCHANGED <<made, owner, ctime, fd_, listener, acc, poolVars, dead_, closed, refno_, latest>>

WorkerStep(w) == TakeJob(w) \/ Save(w) \/ HandlerReturns(w) \/ Send(w) \/ Drop(w)

Next ==
  /\ crashed = Nobody
  /\ \/ \E k \in Clients : Accept(k)
     \/ Collect \/ Insert
     \/ \E c \in Conns : Dies(c) \/ \E kind \in Kinds : got_pdu(c, kind)
     \/ Refused
     \/ \E w \in Workers : WorkerStep(w) \/ SendEnds(w)
     \/ Destroy \/ JoinAccept \/ closeconn \/ CloseDone \/ PoolEnds

(* Every thread runs on and handlers return.  No peer has to read, so a    *)
(* sleeping sender is sure to be woken only once its connection is dead.   *)
Fairness ==
  /\ WF_vars(crashed = Nobody /\ (Collect \/ Insert))
  /\ WF_vars(crashed = Nobody /\ Refused)
  /\ \A w \in Workers :
       WF_vars(crashed = Nobody /\ (WorkerStep(w) \/ (worker[w].c # NoConn /\ dead_[worker[w].c] /\ SendEnds(w))))
  /\ WF_vars(crashed = Nobody /\ (JoinAccept \/ closeconn \/ CloseDone \/ PoolEnds))

Spec == Init /\ [][Next]_vars /\ Fairness

-----------------------------------------------------------------------------
Holders(c) ==
  {<<"listener", f>> : f \in {g \in DOMAIN listener : listener[g] = c}}
    \cup {<<"accept", 0>> : x \in {acc.ch} \cap {c}}
    \cup {<<"latest", k>> : k \in {l \in Clients : latest[l] = c}}
    \cup {<<"job", i>> : i \in {n \in DOMAIN q : q[n].c = c}}
    \cup {<<"worker", w>> : w \in {v \in Workers : worker[v].c = c}}
    \cup {<<"poll", 0>> : x \in {poll} \cap {c}}

(* The count of a connection is the number of places that refer to it plus *)
(* the references dispatch() loses when it answers a client of an old      *)
(* instance (rpc.cc:530 returns without decref): so nobody ever holds a    *)
(* deleted connection, no descriptor enters the listener's map twice, and  *)
(* only those references outlive their owners.                             *)
RefsExact == \A c \in Conns : refno_[c] = Cardinality(Holders(c)) + leaked[c]

(* Whatever order two workers take two requests in, a client's entry in    *)
(* conns_ is the newest connection any of its requests came by.            *)
LatestIsNewest ==
  \A k \in Clients : latest[k] # NoConn => ctime[latest[k]] = newest[k]

(* A dead connection only the listener refers to is gone after the next    *)
(* accept that finds it (connection.cc:376).  The only crash that may keep *)
(* it is the reply to a client with nonce 0, which finds nothing in conns_ *)
(* when its own connection died (rpc.cc:618).                              *)
DeadIsCollected ==
  \A c \in Conns :
    (dead_[c] /\ refno_[c] = 1 /\ fd_[c] \in acc.todo /\ listener[fd_[c]] = c)
      ~> refno_[c] = 0 \/ crashed = Anonymous

(* ~rpcs returns, unless a worker sleeps in send() on a connection that    *)
(* closeconn() took from the poll manager: nothing wakes it, and ~ThrPool  *)
(* waits for it (rpc.cc:437, connection.cc:66), or the reply to a client   *)
(* with nonce 0 crashed the server (rpc.cc:618).                           *)
DestructorReturns ==
  phase = "join" ~>
    \/ phase = "gone" \/ crashed = Anonymous
    \/ \E w \in Workers : worker[w].at = "blocked" /\ closed[worker[w].c]
=============================================================================
