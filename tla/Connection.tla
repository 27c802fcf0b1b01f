----------------------------- MODULE Connection -----------------------------
(***************************************************************************)
(* Connections (rpc/connection.cc) under their senders, the poll thread,   *)
(* the thread that owns them, and the network.                             *)
(*                                                                         *)
(* send, closeconn and the callbacks run under the connection's m_, which  *)
(* they give up only to sleep or in block_remove_fd, so a step is what     *)
(* happens between two such points.  A PDU is PduSize units to write, and  *)
(* two units to read: the header with its size, and the rest.  A           *)
(* descriptor that is closed can be given to a later connection.           *)
(***************************************************************************)
EXTENDS Integers, FiniteSets, PollMgr

CONSTANTS Senders,   \* threads that send
          Owner,     \* the thread of the chanmgr that makes and drops connections
          PduSize,
          MaxSends,  \* bound: sends in all
          MaxIn      \* bound: units that arrive in all

ASSUME ConnectionAssumption ==
  /\ Owner \notin Senders /\ IsFiniteSet(Senders)
  /\ IsFiniteSet(Objects) /\ None \notin Fds \cup Objects \cup Senders
  /\ PduSize \in Nat \ {0} /\ MaxSends \in Nat /\ MaxIn \in Nat

VARIABLES fd_,      \* the connection's descriptor, None when it does not exist
          made,     \* number of connections made so far
          dead_, refno_,
          wpdu_,    \* buf: the sender whose PDU is being written
          rpdu_,    \* units of the PDU being read
          kept,     \* whether the owner still has its reference
          net,      \* up; closed by the peer; shut down at this end
          inq,      \* units that arrived, not yet read
          arrived,  \* units that arrived in all
          errno_,   \* errno of the poll thread is EAGAIN
          pc, on,   \* where each thread is, and with which connection
          sends,    \* calls of send so far
          closed,   \* history: connections that closeconn shut down
          aborted   \* the assertion that ended the process

connVars == <<fd_, made, dead_, refno_, wpdu_, rpdu_, kept, net, inq, arrived, errno_,
              pc, on, sends, closed, aborted>>
vars == <<pollVars, connVars>>

Conns == Objects
Threads == Senders \cup {Owner}
Open == {c \in Conns : fd_[c] # None}
FreeFds == Fds \ {fd_[c] : c \in Open}
NoPdu == [buf |-> None, sz |-> 0, solong |-> 0]

(* send: about to lock m_; send_wait, complete: asleep on send_wait_, on   *)
(* send_complete_; completed: woken from it; remove, changewait, removed:  *)
(* in block_remove_fd; finish: the end of send after it; decref: done.     *)
PCs == {"idle", "send", "send_wait", "complete", "completed", "remove",
        "changewait", "removed", "finish", "decref"}

(* Every variable has its type.                                            *)
TypeOK ==
  /\ PollTypeOK
  /\ fd_ \in [Conns -> Fds \cup {None}] /\ made \in 0..Cardinality(Conns)
  /\ dead_ \in [Conns -> BOOLEAN] /\ refno_ \in [Conns -> Nat]
  /\ wpdu_ \in [Conns -> [buf : Senders \cup {None}, sz : {0, PduSize},
                          solong : -1..PduSize]]
  /\ rpdu_ \in [Conns -> 0..2] /\ kept \in [Conns -> BOOLEAN]
  /\ net \in [Conns -> {"up", "closed", "shut"}]
  /\ inq \in [Conns -> 0..MaxIn] /\ arrived \in 0..MaxIn
  /\ errno_ \in BOOLEAN
  /\ pc \in [Threads -> PCs] /\ on \in [Threads -> Conns \cup {None}]
  /\ sends \in 0..MaxSends /\ closed \subseteq Conns
  /\ aborted \in {"no", "add_callback", "write_cb", "readpdu", "~connection"}

Init ==
  /\ PollInit
  /\ fd_ = [c \in Conns |-> None] /\ made = 0
  /\ dead_ = [c \in Conns |-> FALSE] /\ refno_ = [c \in Conns |-> 0]
  /\ wpdu_ = [c \in Conns |-> NoPdu] /\ rpdu_ = [c \in Conns |-> 0]
  /\ kept = [c \in Conns |-> FALSE] /\ net = [c \in Conns |-> "up"]
  /\ inq = [c \in Conns |-> 0] /\ arrived = 0
  /\ errno_ = FALSE
  /\ pc = [t \in Threads |-> "idle"] /\ on = [t \in Threads |-> None]
  /\ sends = 0 /\ closed = {} /\ aborted = "no"

GoTo(t, p, c) == pc' = [pc EXCEPT ![t] = p] /\ on' = [on EXCEPT ![t] = c]
Abort(where) == aborted' = where
Die(c) == dead_' = [dead_ EXCEPT ![c] = TRUE]

-----------------------------------------------------------------------------
(* The constructor, called by connect_to_dst or process_accept.            *)
connection(c, fd) ==
  /\ pc[Owner] = "idle" /\ c = made + 1 /\ fd \in FreeFds
  /\ made' = made + 1
  /\ fd_' = [fd_ EXCEPT ![c] = fd]
  /\ refno_' = [refno_ EXCEPT ![c] = 1]
  /\ kept' = [kept EXCEPT ![c] = TRUE]
  /\ IF callbacks_[fd] = None THEN UNCHANGED aborted ELSE Abort("add_callback")
  /\ add_callback(fd, CB_RDONLY, c)
  /\ UNCHANGED <<loop, dead_, wpdu_, rpdu_, net, inq, arrived, errno_, pc, on, sends,
                 closed>>

(* ~connection: the descriptor is closed, and nothing is left of c.        *)
delete(c) ==
  /\ fd_' = [fd_ EXCEPT ![c] = None]
  /\ dead_' = [dead_ EXCEPT ![c] = FALSE]
  /\ rpdu_' = [rpdu_ EXCEPT ![c] = 0]
  /\ net' = [net EXCEPT ![c] = "up"]
  /\ inq' = [inq EXCEPT ![c] = 0]
  /\ closed' = closed \ {c}
  /\ IF wpdu_[c].buf = None THEN UNCHANGED aborted ELSE Abort("~connection")

(* Two slips: a reference counts twice; the first one that goes deletes a  *)
(* dead connection.                                                        *)
decrefTwice(c) ==
  /\ refno_' = [refno_ EXCEPT ![c] = @ - 2]
  /\ UNCHANGED <<fd_, dead_, rpdu_, net, inq, closed, aborted>>

decrefHasty(c) ==
  /\ refno_' = [refno_ EXCEPT ![c] = @ - 1]
  /\ IF dead_[c] THEN delete(c)
     ELSE UNCHANGED <<fd_, dead_, rpdu_, net, inq, closed, aborted>>

(* decref: the last reference to a dead connection deletes it.             *)
decref(c) ==
  /\ refno_' = [refno_ EXCEPT ![c] = @ - 1]
  /\ IF refno_[c] = 1 /\ dead_[c] THEN delete(c)
     ELSE UNCHANGED <<fd_, dead_, rpdu_, net, inq, closed, aborted>>

(* The owner drops a connection it found dead (get_refconn,                *)
(* process_accept), or has just closed.                                    *)
OwnerDrops(c) ==
  /\ pc[Owner] = "idle" /\ kept[c] /\ dead_[c]
  /\ kept' = [kept EXCEPT ![c] = FALSE]
  /\ decref(c)
  /\ UNCHANGED <<pollVars, made, wpdu_, arrived, errno_, pc, on, sends>>

(* closeconn, on a connection that is not dead yet.                        *)
closeconn(c) ==
  /\ pc[Owner] = "idle" /\ kept[c] /\ ~dead_[c]
  /\ Die(c)
  /\ net' = [net EXCEPT ![c] = "shut"]
  /\ closed' = closed \cup {c}
  /\ GoTo(Owner, "remove", c)
  /\ UNCHANGED <<pollVars, fd_, made, refno_, wpdu_, rpdu_, kept, inq, arrived, errno_,
                 sends, aborted>>

(* block_remove_fd: the thread sleeps until the poll loop has come round.  *)
Remove(t) ==
  /\ pc[t] = "remove"
  /\ RemoveFd(fd_[on[t]])
  /\ GoTo(t, "changewait", on[t])
  /\ UNCHANGED <<fd_, made, dead_, refno_, wpdu_, rpdu_, kept, net, inq, arrived, errno_,
                 sends, closed, aborted>>

Removed(t) ==
  /\ pc[t] = "removed"
  /\ RemovedFd(fd_[on[t]])
  /\ IF t = Owner THEN GoTo(t, "idle", None) ELSE GoTo(t, "finish", on[t])
  /\ UNCHANGED <<fd_, made, dead_, refno_, wpdu_, rpdu_, kept, net, inq, arrived, errno_,
                 sends, closed, aborted>>

-----------------------------------------------------------------------------
(* What writepdu can make of solong: the kernel takes some of the units,   *)
(* none (EAGAIN), or reports an error.                                     *)
writepdu(state, solong) ==
  IF solong = PduSize THEN {PduSize}
  ELSE (IF state = "shut" THEN {} ELSE solong..PduSize)
         \cup (IF state = "up" THEN {} ELSE {-1})

(* The PDU after writepdu: an error also resets the size.                  *)
PduAfter(s, n) == [buf |-> s, sz |-> IF n = -1 THEN 0 ELSE PduSize, solong |-> n]

(* The end of send: wpdu_ is cleared, and the senders waiting for it woken.*)
EndOfSend(s, c) ==
  /\ wpdu_' = [wpdu_ EXCEPT ![c] = NoPdu]
  /\ pc' = [t \in Threads |-> IF t = s THEN "decref"
                              ELSE IF pc[t] = "send_wait" /\ on[t] = c THEN "send"
                              ELSE pc[t]]
  /\ UNCHANGED on

(* A thread with a reference of its own calls send.                        *)
CallSend(s, c) ==
  /\ pc[s] = "idle" /\ kept[c] /\ sends < MaxSends
  /\ sends' = sends + 1
  /\ refno_' = [refno_ EXCEPT ![c] = @ + 1]
  /\ GoTo(s, "send", c)
  /\ UNCHANGED <<pollVars, fd_, made, dead_, wpdu_, rpdu_, kept, net, inq, arrived, errno_,
                 closed, aborted>>

(* send up to its return or its next sleep.  A lossy connection may be     *)
(* shut down first.                                                        *)
send(s) ==
  LET c == on[s] IN
  /\ pc[s] = "send"
  /\ \/ /\ dead_[c]
        /\ GoTo(s, "decref", c)
        /\ UNCHANGED <<pollVars, dead_, wpdu_, net>>
     \/ /\ ~dead_[c] /\ wpdu_[c].buf # None
        /\ GoTo(s, "send_wait", c)
        /\ UNCHANGED <<pollVars, dead_, wpdu_, net>>
     \/ /\ ~dead_[c] /\ wpdu_[c].buf = None
        /\ net' \in {net, [net EXCEPT ![c] = "shut"]}
        /\ \E n \in writepdu(net'[c], 0) :
             \/ /\ n = -1
                /\ wpdu_' = [wpdu_ EXCEPT ![c] = PduAfter(s, n)]
                /\ Die(c)
                /\ GoTo(s, "remove", c)
                /\ UNCHANGED pollVars
             \/ /\ n = PduSize
                /\ EndOfSend(s, c)
                /\ UNCHANGED <<pollVars, dead_>>
             \/ /\ n \in 0..PduSize - 1
                /\ wpdu_' = [wpdu_ EXCEPT ![c] = PduAfter(s, n)]
                /\ add_callback(fd_[c], CB_WRONLY, c)
                /\ GoTo(s, "complete", c)
                /\ UNCHANGED <<loop, dead_>>
  /\ UNCHANGED <<fd_, made, refno_, rpdu_, kept, inq, arrived, errno_, sends, closed,
                 aborted>>

SendEndsBlind(s) ==   \* a slip: a woken sender does not look at dead_
  LET c == on[s] IN
  /\ \/ pc[s] = "finish"
     \/ pc[s] = "completed" /\ wpdu_[c].solong = wpdu_[c].sz
  /\ EndOfSend(s, c)
  /\ UNCHANGED <<pollVars, fd_, made, dead_, refno_, rpdu_, kept, net, inq, arrived, errno_,
                 sends, closed, aborted>>

(* Woken from send_complete_, or back from block_remove_fd.                *)
SendEnds(s) ==
  LET c == on[s] IN
  /\ \/ pc[s] = "finish"
     \/ pc[s] = "completed" /\ (dead_[c] \/ wpdu_[c].solong = wpdu_[c].sz)
  /\ EndOfSend(s, c)
  /\ UNCHANGED <<pollVars, fd_, made, dead_, refno_, rpdu_, kept, net, inq, arrived, errno_,
                 sends, closed, aborted>>

(* The sender drops its reference.                                         *)
SenderDrops(s) ==
  /\ pc[s] = "decref"
  /\ decref(on[s])
  /\ GoTo(s, "idle", None)
  /\ UNCHANGED <<pollVars, made, wpdu_, kept, arrived, errno_, sends>>

SignalComplete(c) ==
  pc' = [t \in Threads |-> IF pc[t] = "complete" /\ on[t] = c THEN "completed" ELSE pc[t]]

-----------------------------------------------------------------------------
(* write_cb.                                                               *)
write_cb(c) ==
  /\ InCallback("write_cb", c)
  /\ \/ /\ dead_[c]
        /\ Abort("write_cb")
        /\ UNCHANGED <<pollVars, dead_, wpdu_, errno_, pc>>
     \/ /\ ~dead_[c] /\ wpdu_[c].sz = 0
        /\ del_callback(fd_[c], CB_WRONLY)
        /\ CallbackReturns
        /\ UNCHANGED <<dead_, wpdu_, errno_, pc, aborted>>
     \/ /\ ~dead_[c] /\ wpdu_[c].sz # 0
        /\ \E n \in writepdu(net[c], wpdu_[c].solong) :
             /\ wpdu_' = [wpdu_ EXCEPT ![c] = PduAfter(@.buf, n)]
             /\ errno_' = IF n = -1 THEN FALSE
                          ELSE errno_ \/ (n = wpdu_[c].solong /\ n < PduSize)
             /\ IF n = -1
                THEN del_callback(fd_[c], CB_RDWR) /\ Die(c)
                ELSE UNCHANGED <<rfds_, wfds_, callbacks_, pending_change_, pipefd_, dead_>>
             /\ IF n \in {-1, PduSize} THEN SignalComplete(c) ELSE UNCHANGED pc
        /\ CallbackReturns
        /\ UNCHANGED aborted
  /\ UNCHANGED <<fd_, made, refno_, rpdu_, kept, net, inq, arrived, on, sends, closed>>

(* readpdu, with q units to read, e telling whether errno is EAGAIN, and r *)
(* units of the PDU read: what it returns and leaves.  At the end of the   *)
(* stream read returns 0 and leaves errno alone, and the PDU is taken for  *)
(* one that is still to come if errno happens to be EAGAIN.  A short read  *)
(* of the size is a failure.                                               *)
Read(r, q, e, ok) == [rpdu |-> r, inq |-> q, errno |-> e, ok |-> ok]

ReadRest(state, q, e) ==
  IF q > 0 THEN {Read(2, q - 1, e, TRUE)}
  ELSE IF state = "up" THEN {Read(1, 0, TRUE, TRUE)}
  ELSE {Read(0, 0, FALSE, FALSE), IF e THEN Read(1, 0, e, TRUE) ELSE Read(0, 0, e, FALSE)}

readpduPatient(state, r, q, e) ==   \* a slip: the end of the stream is no failure
  IF r = 1 THEN ReadRest(state, q, e)
  ELSE IF q = 0 THEN {Read(0, 0, e, TRUE)}
  ELSE ReadRest(state, q - 1, e) \cup {Read(0, q - 1, e, FALSE)}

readpdu(state, r, q, e) ==
  IF r = 1 THEN ReadRest(state, q, e)
  ELSE IF q = 0 THEN {Read(0, 0, e, FALSE), Read(0, 0, FALSE, FALSE)}
  ELSE ReadRest(state, q - 1, e) \cup {Read(0, q - 1, e, FALSE)}

(* The failure path of read_cb.                                            *)
ReadFailsHalf(c) ==   \* a slip: the descriptor stays watched for writing
  del_callback(fd_[c], CB_RDONLY) /\ Die(c) /\ SignalComplete(c)

ReadFails(c) == del_callback(fd_[c], CB_RDWR) /\ Die(c) /\ SignalComplete(c)

(* read_cb.  The chanmgr may refuse a PDU, which is then kept, and offered *)
(* again when the descriptor is readable the next time.                    *)
read_cb(c) ==
  /\ InCallback("read_cb", c)
  /\ \/ /\ dead_[c]
        /\ CallbackReturns
        /\ UNCHANGED <<rfds_, wfds_, callbacks_, pending_change_, pipefd_, dead_, rpdu_,
                       inq, errno_, pc, aborted>>
     \/ /\ ~dead_[c] /\ rpdu_[c] = 0 /\ inq[c] = 0 /\ net[c] = "up"
        /\ Abort("readpdu")
        /\ UNCHANGED <<pollVars, dead_, rpdu_, inq, errno_, pc>>
     \/ /\ ~dead_[c] /\ ~(rpdu_[c] = 0 /\ inq[c] = 0 /\ net[c] = "up")
        /\ \E x \in (IF rpdu_[c] = 2 THEN {Read(2, inq[c], errno_, TRUE)}
                     ELSE readpdu(net[c], rpdu_[c], inq[c], errno_)) :
             /\ inq' = [inq EXCEPT ![c] = x.inq]
             /\ errno_' = x.errno
             /\ IF x.ok
                THEN UNCHANGED <<rfds_, wfds_, callbacks_, pending_change_, pipefd_, dead_,
                                 pc>>
                ELSE ReadFails(c)
             /\ \E got_pdu \in BOOLEAN :
                  rpdu_' = [rpdu_ EXCEPT ![c] = IF x.rpdu = 2 /\ got_pdu THEN 0 ELSE x.rpdu]
        /\ CallbackReturns
        /\ UNCHANGED aborted
  /\ UNCHANGED <<fd_, made, refno_, wpdu_, kept, net, arrived, on, sends, closed>>

-----------------------------------------------------------------------------
(* The poll thread.  The head of its loop wakes the threads that sleep in  *)
(* block_remove_fd.  A descriptor is readable when something arrived or    *)
(* the stream has ended; when it is writable is the network's choice.      *)
ReadableData(fd) == \E c \in Open : fd_[c] = fd /\ inq[c] > 0   \* a slip
Readable(fd) == \E c \in Open : fd_[c] = fd /\ (inq[c] > 0 \/ net[c] # "up")

Head ==
  /\ WaitLoopHead
  /\ pc' = [t \in Threads |-> IF pending_change_ /\ pc[t] = "changewait" THEN "removed"
                              ELSE pc[t]]
  /\ UNCHANGED <<fd_, made, dead_, refno_, wpdu_, rpdu_, kept, net, inq, arrived, errno_,
                 on, sends, closed, aborted>>

Select(W) == WaitReadySelect({fd \in loop.r : Readable(fd)}, W) /\ UNCHANGED connVars

PollThread ==
  \/ Head
  \/ WaitReadySnapshot /\ UNCHANGED connVars
  \/ \E W \in SUBSET loop.w : Select(W)
  \/ \E fd \in Fds : (PickReadable(fd) \/ PickWritable(fd)) /\ UNCHANGED connVars
  \/ \E c \in Conns : write_cb(c) \/ read_cb(c)

(* The network: a unit arrives, or the peer goes.                          *)
Arrive(c) ==
  /\ c \in Open /\ net[c] = "up" /\ arrived < MaxIn
  /\ inq' = [inq EXCEPT ![c] = @ + 1]
  /\ arrived' = arrived + 1
  /\ UNCHANGED <<pollVars, fd_, made, dead_, refno_, wpdu_, rpdu_, kept, net, errno_, pc, on,
                 sends, closed, aborted>>

PeerCloses(c) ==
  /\ c \in Open /\ net[c] = "up"
  /\ net' = [net EXCEPT ![c] = "closed"]
  /\ UNCHANGED <<pollVars, fd_, made, dead_, refno_, wpdu_, rpdu_, kept, inq, arrived,
                 errno_, pc, on, sends, closed, aborted>>

OwnerStep ==
  \/ \E c \in Conns, fd \in Fds : connection(c, fd)
  \/ \E c \in Conns : OwnerDrops(c) \/ closeconn(c)

ThreadStep(t) ==
  \/ Remove(t) \/ Removed(t)
  \/ t # Owner /\ (send(t) \/ SendEnds(t) \/ SenderDrops(t))

Next ==
  /\ aborted = "no"
  /\ \/ PollThread
     \/ \E t \in Threads : ThreadStep(t)
     \/ \E s \in Senders, c \in Conns : CallSend(s, c)
     \/ OwnerStep
     \/ \E c \in Conns : Arrive(c) \/ PeerCloses(c)

(* Every thread runs on.  A descriptor watched for writing is not left out *)
(* for ever, a write that is tried again and again goes on (the peer reads *)
(* or is gone), and a chanmgr that is offered a PDU again and again takes  *)
(* it (the pool's threads take jobs from its queue).                       *)
Fairness ==
  /\ WF_vars(aborted = "no" /\ PollThread)
  /\ \A t \in Threads : WF_vars(aborted = "no" /\ ThreadStep(t))
  /\ SF_vars(aborted = "no" /\ loop.w # {} /\ Select(loop.w))
  /\ SF_vars(aborted = "no" /\ \E c \in Conns : write_cb(c) /\ wpdu_' # wpdu_)
  /\ SF_vars(aborted = "no" /\ \E c \in Conns : read_cb(c) /\ rpdu_[c] = 2 /\ rpdu_'[c] = 0)

Spec == Init /\ [][Next]_vars /\ Fairness

-----------------------------------------------------------------------------
(* What the comment of block_remove_fd (pollmgr.cc:57) promises, and       *)
(* ~connection relies on: once a connection is deleted, the poll thread    *)
(* neither has it registered nor is about to call it, and it never selects *)
(* on a closed descriptor.                                                 *)
DeletedIsQuiet ==
  /\ \A fd \in FreeFds : callbacks_[fd] = None /\ fd \notin rfds_ \cup wfds_
  /\ loop.cb # None => loop.cb \in Open
  /\ loop.at = "select" => loop.r \cup loop.w \subseteq {fd_[c] : c \in Open}

(* The assertions of the poll thread and of ~connection hold, even when a  *)
(* descriptor is remade, with one exception: write_cb can meet a dead      *)
(* connection (connection.cc:174), and then only while the thread that     *)
(* killed it has not come back from block_remove_fd.                       *)
AssertionsHold ==
  /\ aborted \in {"no", "write_cb"}
  /\ aborted = "write_cb" =>
       \E t \in Threads : on[t] = loop.cb /\ pc[t] \in {"remove", "changewait"}

(* Every send returns, unless closeconn (which signals nobody) came while  *)
(* it slept, or the process was ended by an assertion.                     *)
SendReturns ==
  \A s \in Senders :
    pc[s] # "idle" ~> pc[s] = "idle" \/ on[s] \in closed \/ aborted # "no"

(* When the peer is gone the connection is found dead, and callers learn   *)
(* that they have to send again, unless the poll thread waits for the rest *)
(* of a PDU that will not come (errno left over, connection.cc:286).       *)
GonePeerNoticed ==
  \A c \in Conns :
    net[c] # "up" ~> dead_[c] \/ aborted # "no" \/ (rpdu_[c] = 1 /\ errno_)

(* A PDU the chanmgr refused is offered again until it is taken, or the    *)
(* connection dies, as long as anything else arrives: a client that only   *)
(* waits for the answer gives the poll thread no reason to look again      *)
(* (connection.cc:213).                                                    *)
RefusedIsOffered ==
  \A c \in Conns :
    rpdu_[c] = 2 ~> rpdu_[c] = 0 \/ dead_[c] \/ aborted # "no" \/ (inq[c] = 0 /\ net[c] = "up")
=============================================================================
