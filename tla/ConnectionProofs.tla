-------------------------- MODULE ConnectionProofs --------------------------
(***************************************************************************)
(* Proofs about Connection and PollMgr, for any finite sets of connections *)
(* and senders, any descriptors and bounds: types, that a deleted          *)
(* connection is neither registered nor called, and which assertions hold. *)
(*                                                                         *)
(* A connection that died in a callback has been unregistered there.  One  *)
(* that died in send or closeconn has a thread in block_remove_fd, which   *)
(* has a reference to it until the poll loop has come round: as long as    *)
(* the loop may still reach the connection, that thread is there.          *)
(***************************************************************************)
EXTENDS Connection, FiniteSetTheorems, TLAPS

(* The places in block_remove_fd: before the descriptor is unwatched,      *)
(* until the thread is woken, until it is back.                            *)
Before == {"remove"}
Waits == {"remove", "changewait"}
Inside == {"remove", "changewait", "removed"}

(* The places at which a sender's PDU is being written.                    *)
Writes == Inside \cup {"complete", "completed", "finish"}

(* Some thread has c, and is at one of the places P.                       *)
Removing(c, P) == \E t \in Threads : on[t] = c /\ pc[t] \in P

Watched == rfds_ \cup wfds_
OpenFd(fd) == \E c \in Open : fd_[c] = fd

Typed == /\ TypeOK /\ 1..made \subseteq Conns
         /\ \A c \in Conns : inq[c] <= arrived /\ (c \in Open => c \in 1..made)

(* A thread that is not idle has an open connection.  While it is in       *)
(* block_remove_fd that is dead; once it has unwatched the descriptor it   *)
(* stays so, and once it was woken the loop does not have it either.       *)
ThreadFits(t) ==
  /\ pc[t] = "idle" <=> on[t] = None
  /\ on[t] # None => on[t] \in Open
  /\ pc[t] \in Inside => dead_[on[t]]
  /\ pc[t] = "changewait" => pending_change_
  /\ pc[t] \in {"changewait", "removed"} => fd_[on[t]] \notin Watched
  /\ pc[t] = "removed" => fd_[on[t]] \notin loop.r \cup loop.w

OwnerFits ==
  /\ pc[Owner] \in Inside \cup {"idle"}
  /\ pc[Owner] # "idle" => kept[on[Owner]]

(* The references to c: its senders', and the owner's.                     *)
SendersOf(c) == {s \in Senders : on[s] = c}
Counted(c) == refno_[c] = Cardinality(SendersOf(c)) + IF kept[c] THEN 1 ELSE 0

(* Whose PDU is being written has a reference to the connection.           *)
ConnFits(c) ==
  /\ dead_[c] => c \in Open
  /\ kept[c] => c \in Open
  /\ c \in Open => dead_[c] \/ kept[c]
  /\ wpdu_[c].buf # None =>
       /\ on[wpdu_[c].buf] = c
       /\ pc[wpdu_[c].buf] \in Writes

FdsDiffer == \A c, d \in Open : fd_[c] = fd_[d] => c = d

(* What is registered is open, and is dead only as long as a thread is in  *)
(* block_remove_fd for it.                                                 *)
CallbackFits(fd) ==
  callbacks_[fd] # None =>
    /\ callbacks_[fd] \in Open /\ fd_[callbacks_[fd]] = fd
    /\ dead_[callbacks_[fd]] => Removing(callbacks_[fd], Inside)

WatchFits ==
  /\ \A fd \in Watched : OpenFd(fd)
  /\ \A c \in Conns : dead_[c] /\ fd_[c] \in Watched => Removing(c, Before)

(* The lists of the poll loop: what is to be read is readable, and remains *)
(* so until it is read; what is selected on is open.                       *)
LoopFits ==
  /\ loop.at \in {"top", "snapshot"} => loop.r = {} /\ loop.w = {}
  /\ loop.at \in {"write", "write_cb"} => loop.r = {}
  /\ loop.at \in {"read_cb", "write_cb"} <=> loop.cb # None
  /\ loop.cb # None => loop.cb \in Open
  /\ loop.at = "read_cb" =>
       fd_[loop.cb] \notin loop.r /\ (inq[loop.cb] > 0 \/ net[loop.cb] # "up")
  /\ loop.at # "select" => \A fd \in loop.r : Readable(fd)
  /\ loop.at = "select" => \A fd \in loop.r \cup loop.w : OpenFd(fd)

(* The loop reaches a dead connection only while a thread waits for the    *)
(* loop to come round.                                                     *)
DeadFits(c) ==
  dead_[c] =>
    /\ fd_[c] \in loop.r \/ (loop.at = "select" /\ fd_[c] \in loop.w) => Removing(c, Waits)
    /\ loop.cb = c => Removing(c, Waits)

Ended ==
  /\ aborted \in {"no", "write_cb"}
  /\ aborted = "write_cb" => loop.cb # None /\ Removing(loop.cb, Waits)

(* What is about the poll loop.                                            *)
PollFits ==
  /\ FdsDiffer /\ WatchFits /\ Ended
  /\ \A c \in Conns : DeadFits(c)
  /\ \A fd \in Fds : CallbackFits(fd)

IInv ==
  /\ Typed /\ OwnerFits /\ LoopFits /\ PollFits
  /\ \A t \in Threads : ThreadFits(t)
  /\ \A c \in Conns : Counted(c) /\ ConnFits(c)
-----------------------------------------------------------------------------
(* The prover of a step that names none: the steps that need arithmetic or *)
(* the types of records name SMT.                                          *)
USE ZenonT(40)

(* The initial states.                                                     *)
LEMMA Initially == Init => IInv
<1> SUFFICES ASSUME Init PROVE IInv
  OBVIOUS
<1>1. Open = {} /\ \A t \in Threads : pc[t] = "idle" /\ on[t] = None
  BY DEF Init, Open
<1>2. Typed
  <2>1. PollTypeOK
    BY  DEF Init, PollInit, PollTypeOK, Places
  <2>2. made \in 0..Cardinality(Conns) /\ 1..made \subseteq Conns
    BY FS_CardinalityType, ConnectionAssumption, SMT DEF Init, Conns
  <2>3. /\ fd_ \in [Conns -> Fds \cup {None}]
        /\ dead_ \in [Conns -> BOOLEAN] /\ refno_ \in [Conns -> Nat]
        /\ rpdu_ \in [Conns -> 0..2] /\ kept \in [Conns -> BOOLEAN]
        /\ net \in [Conns -> {"up", "closed", "shut"}]
        /\ inq \in [Conns -> 0..MaxIn] /\ arrived \in 0..MaxIn
    BY ConnectionAssumption, SMT DEF Init
  <2>4. wpdu_ \in [Conns -> [buf : Senders \cup {None}, sz : {0, PduSize},
                            solong : -1..PduSize]]
    <3>1. NoPdu \in [buf : Senders \cup {None}, sz : {0, PduSize}, solong : -1..PduSize]
      BY ConnectionAssumption, SMT DEF NoPdu
    <3> QED BY <3>1 DEF Init
  <2>5. /\ pc \in [Threads -> PCs] /\ on \in [Threads -> Conns \cup {None}]
        /\ sends \in 0..MaxSends /\ closed \subseteq Conns
    BY ConnectionAssumption, SMT DEF Init, PCs
  <2>7. /\ errno_ \in BOOLEAN
        /\ aborted \in {"no", "add_callback", "write_cb", "readpdu", "~connection"}
    BY  DEF Init
  <2>6. \A c \in Conns : inq[c] <= arrived /\ c \notin Open
    BY <1>1, SMT DEF Init
  <2> QED BY <2>1, <2>2, <2>3, <2>4, <2>5, <2>6, <2>7 DEF Typed, TypeOK
<1>3. \A c \in Conns : ~dead_[c] /\ ~kept[c] /\ wpdu_[c].buf = None
  BY DEF Init, NoPdu
<1>4. \A c \in Conns : Counted(c) /\ ConnFits(c)
  <2> SUFFICES ASSUME NEW c \in Conns PROVE Counted(c) /\ ConnFits(c)
    OBVIOUS
  <2>1. SendersOf(c) = {}
    BY <1>1, ConnectionAssumption DEF SendersOf, Threads, Conns
  <2>2. refno_[c] = 0
    BY DEF Init
  <2>3. Cardinality(SendersOf(c)) = 0
    BY <2>1, FS_EmptySet
  <2>4. Counted(c)
    BY <1>3, <2>2, <2>3, SMT DEF Counted
  <2>5. ConnFits(c)
    BY <1>1, <1>3 DEF ConnFits
  <2> QED BY <2>4, <2>5
<1>5. OwnerFits
  BY <1>1 DEF OwnerFits, Threads
<1>6. LoopFits
  BY DEF Init, PollInit, LoopFits
<1>7. PollFits
  BY <1>1, <1>3 DEF Init, PollInit, PollFits, FdsDiffer, WatchFits, Ended, DeadFits,
                     CallbackFits, Watched
<1>8. \A t \in Threads : ThreadFits(t)
  BY <1>1 DEF ThreadFits, Inside
<1> QED BY <1>2, <1>4, <1>5, <1>6, <1>7, <1>8 DEF IInv
-----------------------------------------------------------------------------
(* Steps that leave the loop and what is registered alone.                 *)

(* Threads in block_remove_fd stay where they are.                         *)
Stay == \A u \in Threads : pc[u] \in Inside => pc'[u] = pc[u] /\ on'[u] = on[u]

(* Somebody who removes goes on to do so.                                  *)
LEMMA StayRemoving ==
  ASSUME Stay, NEW c, NEW P, P \subseteq Inside, Removing(c, P)
  PROVE  Removing(c, P)'
  BY DEF Stay, Removing

(* A place is in the larger sets of places.                                *)
LEMMA RemovingMore ==
  ASSUME NEW c
  PROVE  /\ Removing(c, Before) => Removing(c, Waits)
         /\ Removing(c, Waits) => Removing(c, Inside)
         /\ Removing(c, Before)' => Removing(c, Waits)'
         /\ Removing(c, Waits)' => Removing(c, Inside)'
  BY DEF Removing, Before, Waits, Inside

(* No connection dies but one that a thread will remove.                   *)
Dying == \A c \in Conns : dead_'[c] => dead_[c] \/ Removing(c, Before)'

(* Nothing changes for the poll loop.                                      *)
LEMMA PollFrame ==
  ASSUME IInv, Stay, Dying, UNCHANGED <<fd_, pollVars, aborted>>
  PROVE  PollFits'
<1> USE DEF pollVars
<1>1. FdsDiffer'
  BY DEF IInv, PollFits, FdsDiffer, Open
<1>2. WatchFits'
  <2>1. \A fd \in Watched' : OpenFd(fd)'
    BY DEF IInv, PollFits, WatchFits, Watched, OpenFd, Open
  <2>2. ASSUME NEW c \in Conns, dead_'[c], fd_'[c] \in Watched'
        PROVE  Removing(c, Before)'
    <3>1. fd_[c] \in Watched
      BY <2>2 DEF Watched
    <3>2. CASE dead_[c]
      <4>1. Removing(c, Before)
        BY <3>1, <3>2 DEF IInv, PollFits, WatchFits
      <4> QED BY <4>1, StayRemoving DEF Before, Inside
    <3> QED BY <2>2, <3>2 DEF Dying
  <2> QED BY <2>1, <2>2 DEF WatchFits
<1>3. Ended'
  <2> PICK k : k = loop.cb
    OBVIOUS
  <2>1. Removing(k, Waits) => Removing(k, Waits)'
    BY StayRemoving DEF Waits, Inside
  <2>2. loop'.cb = k
    OBVIOUS
  <2> QED BY <2>1, <2>2 DEF IInv, PollFits, Ended, Removing
<1>4. \A c \in Conns : DeadFits(c)'
  <2> SUFFICES ASSUME NEW c \in Conns, dead_'[c] PROVE DeadFits(c)'
    BY DEF DeadFits
  <2>1. Removing(c, Waits) => Removing(c, Waits)'
    BY StayRemoving DEF Waits, Inside
  <2>2. dead_[c] \/ Removing(c, Waits)'
    BY RemovingMore DEF Dying
  <2> QED BY <2>1, <2>2 DEF IInv, PollFits, DeadFits
<1>5. \A fd \in Fds : CallbackFits(fd)'
  <2> SUFFICES ASSUME NEW fd \in Fds, callbacks_[fd] # None PROVE CallbackFits(fd)'
    BY DEF CallbackFits
  <2> DEFINE c == callbacks_[fd]
  <2>1. CallbackFits(fd)
    BY DEF IInv, PollFits
  <2>2. Removing(c, Inside) => Removing(c, Inside)'
    BY StayRemoving
  <2>3. c \in Conns /\ c \in Open /\ fd_[c] = fd
    BY <2>1 DEF CallbackFits, Open
  <2>4. dead_'[c] => dead_[c] \/ Removing(c, Inside)'
    BY <2>3, RemovingMore DEF Dying
  <2>5. callbacks_'[fd] = c /\ c \in Open' /\ fd_'[c] = fd
    BY <2>3 DEF Open
  <2>6. dead_'[c] => Removing(c, Inside)'
    BY <2>1, <2>2, <2>4 DEF CallbackFits
  <2>7. (callbacks_[fd])' = c
    BY <2>5
  <2> QED BY <2>3, <2>5, <2>6, <2>7 DEF CallbackFits, Removing
<1> QED BY <1>1, <1>2, <1>3, <1>4, <1>5 DEF PollFits

(* What is readable stays so.                                              *)
LEMMA LoopFrame ==
  ASSUME IInv, UNCHANGED <<fd_, loop>>,
         \A c \in Conns : inq[c] > 0 \/ net[c] # "up" => inq'[c] > 0 \/ net'[c] # "up"
  PROVE  LoopFits'
<1>1. Open' = Open /\ \A fd : OpenFd(fd)' <=> OpenFd(fd)
  BY DEF Open, OpenFd
<1>2. \A fd : Readable(fd) => Readable(fd)'
  BY <1>1 DEF Readable, Open
<1>3. LoopFits
  BY DEF IInv
<1>4. loop.at = "read_cb" => loop.cb \in Conns
  BY <1>3 DEF LoopFits, Open
<1> QED BY <1>1, <1>2, <1>3, <1>4 DEF LoopFits

(* A thread that does not move.                                            *)
LEMMA ThreadFrame ==
  ASSUME IInv, NEW u \in Threads, pc'[u] = pc[u], on'[u] = on[u],
         UNCHANGED <<fd_, rfds_, wfds_, loop>>, pending_change_ => pending_change_',
         \A c \in Conns : dead_[c] => dead_'[c]
  PROVE  ThreadFits(u)'
<1>1. Open' = Open /\ Watched' = Watched
  BY DEF Open, Watched
<1>2. ThreadFits(u)
  BY DEF IInv
<1>3. pc[u] \in Inside => on[u] \in Conns
  BY <1>2 DEF ThreadFits, Inside, Open
<1> QED BY <1>1, <1>2, <1>3 DEF ThreadFits
-----------------------------------------------------------------------------
(* Counting the references.                                                *)

(* The senders of a connection are finitely many.                          *)
LEMMA SendersFinite ==
  ASSUME NEW c
  PROVE  /\ IsFiniteSet(SendersOf(c)) /\ Cardinality(SendersOf(c)) \in Nat
         /\ IsFiniteSet(SendersOf(c)') /\ Cardinality(SendersOf(c)') \in Nat
<1>1. SendersOf(c) \subseteq Senders /\ SendersOf(c)' \subseteq Senders
  BY  DEF SendersOf
<1>2. IsFiniteSet(SendersOf(c)) /\ IsFiniteSet(SendersOf(c)')
  BY <1>1, FS_Subset, ConnectionAssumption
<1> QED BY <1>2, FS_CardinalityType

(* Nobody takes or drops a reference.                                      *)
LEMMA CountSame ==
  ASSUME NEW c, Counted(c), refno_'[c] = refno_[c], kept'[c] = kept[c],
         \A s \in Senders : on'[s] = c <=> on[s] = c
  PROVE  Counted(c)'
<1>1. SendersOf(c)' = SendersOf(c)
  BY  DEF SendersOf
<1> QED BY <1>1 DEF Counted

(* A sender takes one.                                                     *)
LEMMA CountUp ==
  ASSUME NEW c, Counted(c), NEW s \in Senders, on[s] # c, on'[s] = c,
         \A u \in Senders : u # s => (on'[u] = c <=> on[u] = c),
         refno_'[c] = refno_[c] + 1, kept'[c] = kept[c]
  PROVE  Counted(c)'
<1>1. SendersOf(c)' = SendersOf(c) \cup {s} /\ s \notin SendersOf(c)
  BY  DEF SendersOf
<1>2. Cardinality(SendersOf(c)') = Cardinality(SendersOf(c)) + 1
  BY <1>1, SendersFinite, FS_AddElement, ZenonT(40)
<1> QED BY <1>2, SendersFinite, SMT DEF Counted

(* A sender drops one.  There was one more if the owner has its own, and   *)
(* if another thread is in block_remove_fd.                                *)
LEMMA CountDown ==
  ASSUME NEW c, Counted(c), NEW s \in Senders, on[s] = c, on'[s] # c,
         \A u \in Senders : u # s => (on'[u] = c <=> on[u] = c),
         refno_'[c] = refno_[c] - 1, kept'[c] = kept[c]
  PROVE  /\ Counted(c)' /\ refno_[c] \in Nat /\ refno_[c] >= 1
         /\ refno_[c] = 1 => ~kept[c] /\ \A u \in Senders : u # s => on[u] # c
<1>1. SendersOf(c)' = SendersOf(c) \ {s} /\ s \in SendersOf(c)
  BY SMT DEF SendersOf
<1>2. Cardinality(SendersOf(c)') = Cardinality(SendersOf(c)) - 1
  BY <1>1, SendersFinite, FS_RemoveElement, ZenonT(40)
<1>3. Counted(c)' /\ refno_[c] \in Nat /\ refno_[c] >= 1
  BY <1>2, SendersFinite, SMT DEF Counted
<1>4. ASSUME refno_[c] = 1
      PROVE  ~kept[c] /\ \A u \in Senders : u # s => on[u] # c
  <2>1. ~kept[c] /\ Cardinality(SendersOf(c)') = 0
    BY <1>2, <1>4, SendersFinite, SMT DEF Counted
  <2>2. SendersOf(c)' = {}
    BY <2>1, SendersFinite, FS_EmptySet
  <2> QED BY <1>1, <2>1, <2>2 DEF SendersOf
<1> QED BY <1>3, <1>4

(* The owner drops its own, which is the last one if there are no senders. *)
LEMMA CountOwner ==
  ASSUME NEW c, Counted(c), kept[c], ~kept'[c], \A s \in Senders : on'[s] = on[s],
         refno_'[c] = refno_[c] - 1
  PROVE  /\ Counted(c)' /\ refno_[c] \in Nat /\ refno_[c] >= 1
         /\ refno_[c] = 1 => \A u \in Senders : on[u] # c
<1>1. SendersOf(c)' = SendersOf(c)
  BY  DEF SendersOf
<1>2. Counted(c)' /\ refno_[c] \in Nat /\ refno_[c] >= 1
  BY <1>1, SendersFinite, SMT DEF Counted
<1>3. ASSUME refno_[c] = 1 PROVE \A u \in Senders : on[u] # c
  <2>1. Cardinality(SendersOf(c)) = 0
    BY <1>3, SendersFinite, SMT DEF Counted
  <2>2. SendersOf(c) = {}
    BY <2>1, SendersFinite, FS_EmptySet
  <2> QED BY <2>2 DEF SendersOf
<1> QED BY <1>2, <1>3
-----------------------------------------------------------------------------
(* Steps of threads that are not in block_remove_fd.                       *)

(* A thread goes to a place that is not inside, or only before it.         *)
Moves(u) ==
  /\ pc[u] \notin Inside
  /\ \/ pc'[u] = "idle" /\ on'[u] = None
     \/ /\ on'[u] \in Open /\ pc'[u] \notin {"idle", "changewait", "removed"}
        /\ pc'[u] \in Inside => dead_'[on'[u]]

Rests(u) == pc'[u] = pc[u] /\ on'[u] = on[u]

(* What is readable stays so.                                              *)
StillReadable ==
  \A c \in Conns : inq[c] > 0 \/ net[c] # "up" => inq'[c] > 0 \/ net'[c] # "up"

(* A step that leaves the poll manager alone, in which no thread in        *)
(* block_remove_fd moves.                                                  *)
LEMMA QuietStep ==
  ASSUME IInv, UNCHANGED <<fd_, pollVars, aborted>>,
         \A u \in Threads : Rests(u) \/ Moves(u),
         Dying, \A c \in Conns : dead_[c] => dead_'[c], StillReadable
  PROVE  LoopFits' /\ PollFits' /\ \A t \in Threads : ThreadFits(t)'
<1> USE DEF pollVars
<1>1. Stay
  BY  DEF Stay, Moves, Rests
<1>2. PollFits'
  BY <1>1, PollFrame
<1>3. LoopFits'
  BY LoopFrame DEF StillReadable
<1>4. ASSUME NEW t \in Threads PROVE ThreadFits(t)'
  <2>1. CASE Rests(t)
    BY <2>1, ThreadFrame DEF Rests
  <2>2. CASE Moves(t)
    <3>1. CASE pc'[t] = "idle" /\ on'[t] = None
      BY <3>1 DEF ThreadFits, Inside
    <3>2. CASE /\ on'[t] \in Open /\ pc'[t] \notin {"idle", "changewait", "removed"}
               /\ pc'[t] \in Inside => dead_'[on'[t]]
      <4>1. Open' = Open /\ None \notin Open
        BY ConnectionAssumption DEF Open, Conns
      <4> QED BY <3>2, <4>1 DEF ThreadFits
    <3> QED BY <2>2, <3>1, <3>2 DEF Moves
  <2> QED BY <2>1, <2>2
<1> QED BY <1>2, <1>3, <1>4

(* A connection that neither dies nor is dropped, and whose PDU, if it has *)
(* one, is still its sender's.                                             *)
LEMMA ConnFrame ==
  ASSUME IInv, NEW c \in Conns, fd_' = fd_, dead_'[c] = dead_[c], kept'[c] = kept[c],
         wpdu_'[c].buf \in {wpdu_[c].buf, None},
         \A s \in Senders : on[s] = c /\ pc[s] \in Writes => on'[s] = c /\ pc'[s] \in Writes
  PROVE  ConnFits(c)'
<1>1. ConnFits(c) /\ Open' = Open
  BY DEF IInv, Open
<1>2. wpdu_[c].buf \in Senders \cup {None}
  BY DEF IInv, Typed, TypeOK
<1> QED BY <1>1, <1>2 DEF ConnFits
-----------------------------------------------------------------------------
(* The network's steps.                                                    *)
LEMMA ArriveKeeps ==
  ASSUME IInv, NEW c \in Conns, Arrive(c)
  PROVE  IInv'
<1> USE DEF Arrive
<1>1. Typed'
  <2>1. inq \in [Conns -> 0..MaxIn] /\ arrived \in 0..MaxIn /\ inq[c] <= arrived
    BY DEF IInv, Typed, TypeOK
  <2>2. inq' \in [Conns -> 0..MaxIn] /\ arrived' \in 0..MaxIn
    BY <2>1, ConnectionAssumption, SMT
  <2>3. \A d \in Conns : inq'[d] <= arrived'
    BY <2>1, SMT DEF IInv, Typed
  <2> QED BY <2>2, <2>3, SMT DEF IInv, Typed, TypeOK, PollTypeOK, pollVars, Open
<1>2. LoopFits' /\ PollFits' /\ \A t \in Threads : ThreadFits(t)'
  <2>1. StillReadable
    BY SMT DEF StillReadable, IInv, Typed, TypeOK
  <2> QED BY <2>1, QuietStep DEF Rests, Dying
<1>3. \A d \in Conns : Counted(d)' /\ ConnFits(d)'
  BY CountSame, ConnFrame DEF IInv
<1>4. OwnerFits'
  BY DEF IInv, OwnerFits
<1> QED BY <1>1, <1>2, <1>3, <1>4 DEF IInv

(* The peer goes: what was readable still is.                              *)
LEMMA PeerClosesKeeps ==
  ASSUME IInv, NEW c \in Conns, PeerCloses(c)
  PROVE  IInv'
<1> USE DEF PeerCloses
<1>1. Typed'
  BY SMT DEF IInv, Typed, TypeOK, PollTypeOK, pollVars, Open
<1>2. LoopFits' /\ PollFits' /\ \A t \in Threads : ThreadFits(t)'
  <2>1. StillReadable
    BY DEF StillReadable, IInv, Typed, TypeOK
  <2> QED BY <2>1, QuietStep DEF Rests, Dying
<1>3. \A d \in Conns : Counted(d)' /\ ConnFits(d)'
  BY CountSame, ConnFrame DEF IInv
<1>4. OwnerFits'
  BY DEF IInv, OwnerFits
<1> QED BY <1>1, <1>2, <1>3, <1>4 DEF IInv
-----------------------------------------------------------------------------
(* A sender takes a reference and calls send.                              *)
LEMMA CallSendKeeps ==
  ASSUME IInv, NEW s \in Senders, NEW c \in Conns, CallSend(s, c)
  PROVE  IInv'
<1> USE DEF CallSend, GoTo
<1>0. s \in Threads /\ s # Owner /\ on[s] = None /\ c \in Open /\ c # None
  BY ConnectionAssumption DEF IInv, Threads, ThreadFits, ConnFits, Conns
<1>1. pc \in [Threads -> PCs] /\ on \in [Threads -> Conns \cup {None}]
  BY DEF IInv, Typed, TypeOK
<1>2. /\ \A u \in Threads : u # s => Rests(u)
      /\ pc'[s] = "send" /\ on'[s] = c
  BY <1>0, <1>1 DEF Rests
<1>3. Typed'
  <2>1. refno_' \in [Conns -> Nat]
    BY SMT DEF IInv, Typed, TypeOK
  <2>2. pc' \in [Threads -> PCs] /\ on' \in [Threads -> Conns \cup {None}]
    BY <1>1 DEF PCs
  <2>3. sends' \in 0..MaxSends
    BY ConnectionAssumption, SMT DEF IInv, Typed, TypeOK
  <2> QED BY <2>1, <2>2, <2>3, SMTT(20) DEF IInv, Typed, TypeOK, PollTypeOK, pollVars, Open
<1>4. LoopFits' /\ PollFits' /\ \A t \in Threads : ThreadFits(t)'
  <2>1. Moves(s)
    BY <1>0, <1>2 DEF Moves, Inside
  <2>2. StillReadable /\ Dying
    BY DEF StillReadable, Dying
  <2> QED BY <1>2, <2>1, <2>2, QuietStep
<1>5. ASSUME NEW d \in Conns PROVE Counted(d)' /\ ConnFits(d)'
  <2>1. Counted(d)
    BY DEF IInv
  <2>2. ASSUME d = c PROVE Counted(d)'
    <3>1. refno_'[c] = refno_[c] + 1
      BY DEF IInv, Typed, TypeOK
    <3>2. \A u \in Senders : u # s => (on'[u] = c <=> on[u] = c)
      BY <1>2 DEF Threads, Rests
    <3> QED BY <1>0, <1>2, <2>1, <2>2, <3>1, <3>2, CountUp
  <2>3. ASSUME d # c PROVE Counted(d)'
    <3>1. \A u \in Senders : on'[u] = d <=> on[u] = d
      BY <1>0, <1>2, <2>3, ConnectionAssumption, SMTT(20) DEF Threads, Rests, Conns
    <3> QED BY <2>1, <2>3, <3>1, CountSame DEF IInv, Typed, TypeOK
  <2>4. ConnFits(d)'
    <3>1. \A u \in Senders : on[u] = d /\ pc[u] \in Writes => on'[u] = d /\ pc'[u] \in Writes
      BY <1>2 DEF Threads, Rests, Writes, Inside
    <3> QED BY <3>1, ConnFrame
  <2> QED BY <2>2, <2>3, <2>4
<1>6. OwnerFits'
  BY <1>0, <1>2 DEF IInv, OwnerFits, Rests, Threads
<1> QED BY <1>3, <1>4, <1>5, <1>6 DEF IInv

(* closeconn: the owner goes to block_remove_fd for what it has shut down. *)
LEMMA CloseKeeps ==
  ASSUME IInv, NEW c \in Conns, closeconn(c)
  PROVE  IInv'
<1> USE DEF closeconn, GoTo, Die
<1>0. Owner \in Threads /\ on[Owner] = None /\ c \in Open /\ c # None
  BY ConnectionAssumption DEF IInv, Threads, ThreadFits, ConnFits, Conns
<1>1. /\ pc \in [Threads -> PCs] /\ on \in [Threads -> Conns \cup {None}]
      /\ dead_ \in [Conns -> BOOLEAN] /\ net \in [Conns -> {"up", "closed", "shut"}]
  BY DEF IInv, Typed, TypeOK
<1>2. /\ \A u \in Threads : u # Owner => Rests(u)
      /\ pc'[Owner] = "remove" /\ on'[Owner] = c
      /\ dead_'[c] /\ \A d \in Conns : d # c => dead_'[d] = dead_[d]
  BY <1>0, <1>1 DEF Rests
<1>3. Typed'
  <2>1. dead_' \in [Conns -> BOOLEAN] /\ net' \in [Conns -> {"up", "closed", "shut"}]
    BY <1>1
  <2>2. pc' \in [Threads -> PCs] /\ on' \in [Threads -> Conns \cup {None}]
    BY <1>1 DEF PCs
  <2> QED BY <2>1, <2>2, SMT DEF IInv, Typed, TypeOK, PollTypeOK, pollVars, Open
<1>4. LoopFits' /\ PollFits' /\ \A t \in Threads : ThreadFits(t)'
  <2>1. Moves(Owner)
    BY <1>0, <1>2 DEF Moves, Inside
  <2>2. StillReadable
    BY <1>1 DEF StillReadable
  <2>3. Removing(c, Before)'
    BY <1>0, <1>2 DEF Removing, Before
  <2>4. Dying /\ \A d \in Conns : dead_[d] => dead_'[d]
    BY <1>2, <2>3 DEF Dying
  <2> QED BY <1>2, <2>1, <2>2, <2>4, QuietStep
<1>5. ASSUME NEW d \in Conns PROVE Counted(d)' /\ ConnFits(d)'
  <2>0. \A u \in Senders : on'[u] = on[u] /\ pc'[u] = pc[u]
    BY <1>2, ConnectionAssumption DEF Threads, Rests
  <2>1. Counted(d)'
    BY <2>0, CountSame DEF IInv
  <2>2. CASE d # c
    BY <1>2, <2>0, <2>1, <2>2, ConnFrame
  <2>3. CASE d = c
    <3>1. ConnFits(c) /\ wpdu_[c].buf \in Senders \cup {None}
      BY DEF IInv, Typed, TypeOK
    <3>2. c \in Open' /\ dead_'[c] /\ kept'[c] = kept[c] /\ wpdu_'[c] = wpdu_[c]
      BY <1>0, <1>2 DEF Open
    <3>3. ConnFits(c)'
      BY <2>0, <3>1, <3>2, ZenonT(40) DEF ConnFits
    <3> QED BY <2>1, <2>3, <3>3
  <2> QED BY <2>1, <2>2, <2>3
<1>6. OwnerFits'
  BY <1>0, <1>2 DEF OwnerFits, Inside
<1> QED BY <1>3, <1>4, <1>5, <1>6 DEF IInv
-----------------------------------------------------------------------------
(* send.                                                                   *)
PduType == [buf : Senders \cup {None}, sz : {0, PduSize}, solong : -1..PduSize]

(* The PDUs there are have their type.                                     *)
LEMMA PduTyped ==
  ASSUME NEW s \in Senders \cup {None}, NEW n \in -1..PduSize
  PROVE  PduAfter(s, n) \in PduType /\ NoPdu \in PduType
  BY ConnectionAssumption, SMT DEF PduAfter, NoPdu, PduType

(* What writepdu makes of a number of units is one again.                  *)
LEMMA WriteTyped ==
  ASSUME NEW state, NEW m \in -1..PduSize, NEW n \in writepdu(state, m)
  PROVE  n \in -1..PduSize
  BY ConnectionAssumption, SMT DEF writepdu

(* A sender in a call has an open connection.                              *)
LEMMA SenderHas ==
  ASSUME IInv, NEW s \in Senders, pc[s] # "idle"
  PROVE  /\ s \in Threads /\ s # Owner
         /\ on[s] \in Conns /\ on[s] \in Open /\ on[s] # None
  BY ConnectionAssumption DEF IInv, Threads, ThreadFits, Open, Conns

(* What does not change keeps its type.                                    *)
LEMMA TypedFrame ==
  ASSUME IInv, UNCHANGED <<pollVars, fd_, made, rpdu_, inq, arrived, errno_, sends, closed,
                           aborted>>,
         dead_' \in [Conns -> BOOLEAN], refno_' \in [Conns -> Nat],
         kept' \in [Conns -> BOOLEAN],
         net' \in [Conns -> {"up", "closed", "shut"}], wpdu_' \in [Conns -> PduType],
         pc' \in [Threads -> PCs], on' \in [Threads -> Conns \cup {None}]
  PROVE  Typed'
<1>1. PollTypeOK'
  BY DEF IInv, Typed, TypeOK, PollTypeOK, pollVars
<1>2. Open' = Open
  BY DEF Open
<1>3. TypeOK'
  BY <1>1 DEF IInv, Typed, TypeOK, PduType
<1> QED BY <1>2, <1>3 DEF IInv, Typed

(* send returns at once, or waits for its turn.                            *)
LEMMA SendGoes ==
  ASSUME IInv, NEW s \in Senders, pc[s] = "send", NEW p \in {"decref", "send_wait"},
         GoTo(s, p, on[s]),
         UNCHANGED <<pollVars, fd_, made, dead_, refno_, wpdu_, rpdu_, kept, net, inq, arrived,
                     errno_, sends, closed, aborted>>
  PROVE  IInv'
<1> USE DEF GoTo
<1>0. s \in Threads /\ s # Owner /\ on[s] \in Conns /\ on[s] \in Open /\ on[s] # None
  BY SenderHas
<1>1. pc \in [Threads -> PCs] /\ on \in [Threads -> Conns \cup {None}]
  BY DEF IInv, Typed, TypeOK
<1>2. /\ \A u \in Threads : u # s => Rests(u)
      /\ pc'[s] = p /\ on'[s] = on[s]
  BY <1>0, <1>1 DEF Rests
<1>3. Typed'
  <2>1. pc' \in [Threads -> PCs] /\ on' \in [Threads -> Conns \cup {None}]
    BY <1>0, <1>1 DEF PCs
  <2>2. /\ dead_ \in [Conns -> BOOLEAN] /\ refno_ \in [Conns -> Nat]
        /\ kept \in [Conns -> BOOLEAN]
        /\ net \in [Conns -> {"up", "closed", "shut"}] /\ wpdu_ \in [Conns -> PduType]
    BY DEF IInv, Typed, TypeOK, PduType
  <2> QED BY <2>1, <2>2, TypedFrame
<1>4. LoopFits' /\ PollFits' /\ \A t \in Threads : ThreadFits(t)'
  <2>1. Moves(s)
    BY <1>0, <1>2 DEF Moves, Inside
  <2>2. StillReadable /\ Dying
    BY DEF StillReadable, Dying
  <2> QED BY <1>2, <2>1, <2>2, QuietStep
<1>5. ASSUME NEW d \in Conns PROVE Counted(d)' /\ ConnFits(d)'
  <2>1. \A u \in Senders : on'[u] = on[u] /\ (pc[u] \in Writes => pc'[u] \in Writes)
    BY <1>2 DEF Threads, Rests, Writes, Inside
  <2>2. Counted(d)'
    BY <2>1, CountSame DEF IInv
  <2>3. ConnFits(d)'
    BY <2>1, ConnFrame
  <2> QED BY <2>2, <2>3
<1>6. OwnerFits'
  BY <1>0, <1>2 DEF IInv, OwnerFits, Rests, Threads
<1> QED BY <1>3, <1>4, <1>5, <1>6 DEF IInv

(* What send may do to the network of the connection it is called for.     *)
NetAfter(c) == net' = net \/ net' = [net EXCEPT ![c] = "shut"]

(* Shut down or not, what was readable still is.                           *)
LEMMA NetTyped ==
  ASSUME IInv, NEW c \in Conns, NetAfter(c)
  PROVE  /\ net' \in [Conns -> {"up", "closed", "shut"}]
         /\ inq' = inq => StillReadable
  BY SMT DEF IInv, Typed, TypeOK, NetAfter, StillReadable

(* The end of send.                                                        *)
LEMMA EndKeeps ==
  ASSUME IInv, NEW s \in Senders, pc[s] \in {"send", "finish", "completed"},
         EndOfSend(s, on[s]), NetAfter(on[s]),
         UNCHANGED <<pollVars, fd_, made, dead_, refno_, rpdu_, kept, inq, arrived, errno_,
                     sends, closed, aborted>>
  PROVE  IInv'
<1> USE DEF EndOfSend
<1> DEFINE c == on[s]
<1>0. s \in Threads /\ s # Owner /\ c \in Conns /\ c \in Open /\ c # None
  BY SenderHas
<1>1. /\ pc \in [Threads -> PCs] /\ on \in [Threads -> Conns \cup {None}]
      /\ wpdu_ \in [Conns -> PduType]
  BY DEF IInv, Typed, TypeOK, PduType
<1>2. /\ pc'[s] = "decref"
      /\ \A u \in Threads : u # s => \/ pc'[u] = pc[u]
                                     \/ pc[u] = "send_wait" /\ pc'[u] = "send"
  BY <1>0
<1>3. /\ wpdu_'[c].buf = None
      /\ \A d \in Conns : d # c => wpdu_'[d] = wpdu_[d]
  BY <1>0, <1>1 DEF NoPdu
<1>4. Typed'
  <2>1. pc' \in [Threads -> PCs] /\ on' \in [Threads -> Conns \cup {None}]
    BY <1>1 DEF PCs
  <2>2. wpdu_' \in [Conns -> PduType]
    <3>1. NoPdu \in PduType
      BY ConnectionAssumption, SMT DEF NoPdu, PduType
    <3> QED BY <1>1, <3>1
  <2>3. /\ dead_ \in [Conns -> BOOLEAN] /\ refno_ \in [Conns -> Nat]
        /\ kept \in [Conns -> BOOLEAN]
    BY DEF IInv, Typed, TypeOK
  <2> QED BY <1>0, <2>1, <2>2, <2>3, TypedFrame, NetTyped
<1>5. LoopFits' /\ PollFits' /\ \A t \in Threads : ThreadFits(t)'
  <2>1. Moves(s)
    BY <1>0, <1>2 DEF Moves, Inside
  <2>2. ASSUME NEW u \in Threads, u # s PROVE Rests(u) \/ Moves(u)
    <3>1. CASE pc'[u] = pc[u]
      BY <3>1 DEF Rests
    <3>2. CASE pc[u] = "send_wait" /\ pc'[u] = "send"
      <4>1. on[u] \in Open
        BY <3>2 DEF IInv, ThreadFits
      <4> QED BY <3>2, <4>1 DEF Moves, Inside
    <3> QED BY <1>2, <2>2, <3>1, <3>2
  <2>3. StillReadable /\ Dying
    BY <1>0, NetTyped DEF Dying
  <2> QED BY <2>1, <2>2, <2>3, QuietStep
<1>6. ASSUME NEW d \in Conns PROVE Counted(d)' /\ ConnFits(d)'
  <2>1. Counted(d)'
    BY CountSame DEF IInv
  <2>2. CASE d = c
    <3>1. ConnFits(c) /\ Open' = Open
      BY <1>0 DEF IInv, Open
    <3>2. ConnFits(c)'
      BY <1>3, <3>1 DEF ConnFits
    <3> QED BY <2>1, <2>2, <3>2
  <2>3. CASE d # c
    <3>1. \A u \in Senders : on[u] = d /\ pc[u] \in Writes => on'[u] = d /\ pc'[u] \in Writes
      BY <1>2, <2>3 DEF Threads, Writes, Inside
    <3>2. ConnFits(d)'
      BY <1>3, <2>3, <3>1, ConnFrame
    <3> QED BY <2>1, <3>2
  <2> QED BY <2>2, <2>3
<1>7. OwnerFits'
  BY <1>0, <1>2 DEF IInv, OwnerFits, Threads, Inside
<1> QED BY <1>4, <1>5, <1>6, <1>7 DEF IInv

(* The write fails: the sender goes to block_remove_fd.                    *)
LEMMA SendDies ==
  ASSUME IInv, NEW s \in Senders, pc[s] = "send", ~dead_[on[s]], wpdu_[on[s]].buf = None,
         wpdu_' = [wpdu_ EXCEPT ![on[s]] = PduAfter(s, -1)],
         Die(on[s]), GoTo(s, "remove", on[s]), NetAfter(on[s]),
         UNCHANGED <<pollVars, fd_, made, refno_, rpdu_, kept, inq, arrived, errno_, sends,
                     closed, aborted>>
  PROVE  IInv'
<1> USE DEF GoTo, Die
<1> DEFINE c == on[s]
<1>0. s \in Threads /\ s # Owner /\ c \in Conns /\ c \in Open /\ c # None
  BY SenderHas
<1>1. /\ pc \in [Threads -> PCs] /\ on \in [Threads -> Conns \cup {None}]
      /\ wpdu_ \in [Conns -> PduType] /\ dead_ \in [Conns -> BOOLEAN]
  BY DEF IInv, Typed, TypeOK, PduType
<1>2. /\ \A u \in Threads : u # s => Rests(u)
      /\ pc'[s] = "remove" /\ on'[s] = c
      /\ dead_'[c] /\ \A d \in Conns : d # c => dead_'[d] = dead_[d]
  BY <1>0, <1>1 DEF Rests
<1>3. /\ wpdu_'[c].buf = s
      /\ \A d \in Conns : d # c => wpdu_'[d] = wpdu_[d]
  BY <1>0, <1>1 DEF PduAfter
<1>4. Typed'
  <2>1. pc' \in [Threads -> PCs] /\ on' \in [Threads -> Conns \cup {None}]
    BY <1>0, <1>1 DEF PCs
  <2>2. wpdu_' \in [Conns -> PduType] /\ dead_' \in [Conns -> BOOLEAN]
    <3>1. PduAfter(s, -1) \in PduType
      BY ConnectionAssumption, SMT DEF PduAfter, PduType
    <3> QED BY <1>1, <3>1
  <2>3. refno_ \in [Conns -> Nat] /\ kept \in [Conns -> BOOLEAN]
    BY DEF IInv, Typed, TypeOK
  <2> QED BY <1>0, <2>1, <2>2, <2>3, TypedFrame, NetTyped
<1>5. LoopFits' /\ PollFits' /\ \A t \in Threads : ThreadFits(t)'
  <2>1. Moves(s)
    BY <1>0, <1>2 DEF Moves, Inside
  <2>2. Removing(c, Before)'
    BY <1>0, <1>2 DEF Removing, Before
  <2>3. Dying /\ \A d \in Conns : dead_[d] => dead_'[d]
    BY <1>2, <2>2 DEF Dying
  <2>4. StillReadable
    BY <1>0, NetTyped
  <2> QED BY <1>2, <2>1, <2>3, <2>4, QuietStep
<1>6. ASSUME NEW d \in Conns PROVE Counted(d)' /\ ConnFits(d)'
  <2>0. \A u \in Senders : on'[u] = on[u] /\ (u # s => pc'[u] = pc[u])
    BY <1>2 DEF Threads, Rests
  <2>1. Counted(d)'
    BY <2>0, CountSame DEF IInv
  <2>2. CASE d = c
    <3>1. ConnFits(c) /\ Open' = Open
      BY <1>0 DEF IInv, Open
    <3>2. ConnFits(c)'
      BY <1>0, <1>2, <1>3, <3>1, SMTT(20) DEF ConnFits, Writes, Inside
    <3> QED BY <2>1, <2>2, <3>2, SMT
  <2>3. CASE d # c
    <3>1. \A u \in Senders : on[u] = d /\ pc[u] \in Writes => on'[u] = d /\ pc'[u] \in Writes
      BY <2>0, <2>3
    <3>2. ConnFits(d)'
      BY <1>2, <1>3, <2>3, <3>1, ConnFrame
    <3> QED BY <2>1, <3>2
  <2> QED BY <2>2, <2>3
<1>7. OwnerFits'
  BY <1>0, <1>2, SMT DEF IInv, OwnerFits, Rests, Threads
<1> QED BY <1>4, <1>5, <1>6, <1>7 DEF IInv
-----------------------------------------------------------------------------
(* The kernel takes a part: the descriptor is watched for writing too, and *)
(* the sender sleeps.                                                      *)
LEMMA SendSleeps ==
  ASSUME IInv, NEW s \in Senders, pc[s] = "send", ~dead_[on[s]], wpdu_[on[s]].buf = None,
         NEW n \in 0..PduSize - 1, wpdu_' = [wpdu_ EXCEPT ![on[s]] = PduAfter(s, n)],
         add_callback(fd_[on[s]], CB_WRONLY, on[s]), GoTo(s, "complete", on[s]),
         NetAfter(on[s]),
         UNCHANGED <<loop, fd_, made, dead_, refno_, rpdu_, kept, inq, arrived, errno_, sends,
                     closed, aborted>>
  PROVE  IInv'
<1> USE DEF GoTo
<1> DEFINE c == on[s]
           fd == fd_[c]
<1>0. s \in Threads /\ s # Owner /\ c \in Conns /\ c \in Open /\ c # None
  BY SenderHas
<1>1. /\ pc \in [Threads -> PCs] /\ on \in [Threads -> Conns \cup {None}]
      /\ wpdu_ \in [Conns -> PduType] /\ fd_ \in [Conns -> Fds \cup {None}]
      /\ callbacks_ \in [Fds -> Objects \cup {None}]
  BY DEF IInv, Typed, TypeOK, PduType, PollTypeOK
<1>2. /\ \A u \in Threads : u # s => Rests(u)
      /\ pc'[s] = "complete" /\ on'[s] = c
  BY <1>0, <1>1 DEF Rests
<1>3. /\ wpdu_'[c].buf = s
      /\ \A d \in Conns : d # c => wpdu_'[d] = wpdu_[d]
  BY <1>0, <1>1 DEF PduAfter
<1>4. /\ fd \in Fds /\ Open' = Open /\ Watched' = Watched \cup {fd}
      /\ callbacks_'[fd] = c /\ \A f \in Fds : f # fd => callbacks_'[f] = callbacks_[f]
      /\ pending_change_' = pending_change_
  BY <1>0, <1>1 DEF Open, Watched, add_callback, watch_fd, CB_WRONLY, CB_RDONLY
<1>5. \A d \in Conns : dead_[d] => d \in Open /\ d # c /\ fd_[d] # fd
  BY <1>0 DEF IInv, ConnFits, PollFits, FdsDiffer
<1>6. Stay
  BY <1>2 DEF Stay, Rests, Inside
<1>7. Typed'
  <2>1. pc' \in [Threads -> PCs] /\ on' \in [Threads -> Conns \cup {None}]
    BY <1>0, <1>1 DEF PCs
  <2>2. wpdu_' \in [Conns -> PduType]
    <3>1. PduAfter(s, n) \in PduType
      BY ConnectionAssumption, SMT DEF PduAfter, PduType
    <3> QED BY <1>1, <3>1
  <2>3. net' \in [Conns -> {"up", "closed", "shut"}]
    BY <1>0, NetTyped
  <2>4. PollTypeOK'
    <3>1. callbacks_' \in [Fds -> Objects \cup {None}]
      BY <1>0, <1>1, <1>4 DEF add_callback, Conns
    <3>2. rfds_' \subseteq Fds /\ wfds_' \subseteq Fds /\ pipefd_' \in Nat
      BY <1>4, SMTT(20) DEF IInv, Typed, TypeOK, PollTypeOK, add_callback, watch_fd, CB_WRONLY,
         CB_RDONLY
    <3> QED BY <1>4, <3>1, <3>2 DEF IInv, Typed, TypeOK, PollTypeOK
  <2>5. TypeOK'
    BY <2>1, <2>2, <2>3, <2>4 DEF IInv, Typed, TypeOK, PduType
  <2> QED BY <1>4, <2>5 DEF IInv, Typed
<1>8. LoopFits'
  BY <1>0, NetTyped, LoopFrame DEF StillReadable
<1>9. PollFits'
  <2>1. FdsDiffer'
    BY <1>4 DEF IInv, PollFits, FdsDiffer
  <2>2. WatchFits'
    <3>1. \A f \in Watched' : OpenFd(f)'
      BY <1>0, <1>4 DEF IInv, PollFits, WatchFits, OpenFd
    <3>2. ASSUME NEW d \in Conns, dead_'[d], fd_'[d] \in Watched' PROVE Removing(d, Before)'
      <4>1. Removing(d, Before)
        BY <1>4, <1>5, <3>2 DEF IInv, PollFits, WatchFits
      <4> QED BY <1>6, <4>1, StayRemoving DEF Before, Inside
    <3> QED BY <3>1, <3>2 DEF WatchFits
  <2>3. Ended'
    <3> PICK k : k = loop.cb
      OBVIOUS
    <3>1. Removing(k, Waits) => Removing(k, Waits)'
      BY <1>6, StayRemoving DEF Waits, Inside
    <3> QED BY <3>1 DEF IInv, PollFits, Ended, Removing
  <2>4. ASSUME NEW d \in Conns PROVE DeadFits(d)'
    <3>1. Removing(d, Waits) => Removing(d, Waits)'
      BY <1>6, StayRemoving DEF Waits, Inside
    <3> QED BY <3>1 DEF IInv, PollFits, DeadFits
  <2>5. ASSUME NEW f \in Fds PROVE CallbackFits(f)'
    <3>1. CASE f = fd
      BY <1>0, <1>4, <3>1 DEF CallbackFits
    <3>2. CASE f # fd
      <4> PICK k : k = callbacks_[f]
        OBVIOUS
      <4>1. callbacks_'[f] = k /\ CallbackFits(f)
        BY <1>4, <3>2 DEF IInv, PollFits
      <4>2. Removing(k, Inside) => Removing(k, Inside)'
        BY <1>6, StayRemoving
      <4>3. k # None => k \in Open' /\ fd_'[k] = f /\ (dead_'[k] => Removing(k, Inside)')
        BY <1>4, <4>1, <4>2 DEF CallbackFits
      <4> QED BY <4>1, <4>3 DEF CallbackFits, Removing
    <3> QED BY <3>1, <3>2
  <2> QED BY <2>1, <2>2, <2>3, <2>4, <2>5 DEF PollFits
<1>10. ASSUME NEW u \in Threads PROVE ThreadFits(u)'
  <2>1. CASE u = s
    BY <1>0, <1>2, <1>4, <2>1, SMTT(20) DEF ThreadFits, Inside
  <2>2. CASE u # s
    <3>1. pc'[u] = pc[u] /\ on'[u] = on[u] /\ ThreadFits(u)
      BY <1>2, <2>2 DEF Rests, IInv
    <3>2. pc[u] \in Inside => on[u] \in Conns /\ dead_[on[u]] /\ fd_[on[u]] # fd
      BY <1>5, <3>1 DEF ThreadFits, Inside, Open
    <3> QED BY <1>4, <3>1, <3>2, SMT DEF ThreadFits, Inside
  <2> QED BY <2>1, <2>2
<1>11. ASSUME NEW d \in Conns PROVE Counted(d)' /\ ConnFits(d)'
  <2>0. \A u \in Senders : on'[u] = on[u] /\ (u # s => pc'[u] = pc[u])
    BY <1>2 DEF Threads, Rests
  <2>1. Counted(d)'
    BY <2>0, CountSame DEF IInv
  <2>2. CASE d = c
    <3>1. ConnFits(c)
      BY <1>0 DEF IInv
    <3>2. ConnFits(c)'
      BY <1>0, <1>2, <1>3, <1>4, <3>1, SMTT(20) DEF ConnFits, Writes
    <3> QED BY <2>1, <2>2, <3>2, SMTT(20)
  <2>3. CASE d # c
    <3>1. \A u \in Senders : on[u] = d /\ pc[u] \in Writes => on'[u] = d /\ pc'[u] \in Writes
      BY <2>0, <2>3
    <3>2. ConnFits(d)'
      BY <1>2, <1>3, <2>3, <3>1, ConnFrame
    <3> QED BY <2>1, <3>2
  <2> QED BY <2>2, <2>3
<1>12. OwnerFits'
  BY <1>0, <1>2 DEF IInv, OwnerFits, Rests, Threads
<1> QED BY <1>7, <1>8, <1>9, <1>10, <1>11, <1>12 DEF IInv

(* All of send, and its end after a sleep.                                 *)
LEMMA SendKeeps ==
  ASSUME IInv, NEW s \in Senders, send(s)
  PROVE  IInv'
<1> DEFINE c == on[s]
<1>0. c \in Conns /\ pc[s] = "send"
  BY SenderHas DEF send
<1>1. CASE /\ dead_[c]
           /\ GoTo(s, "decref", c)
           /\ UNCHANGED <<pollVars, dead_, wpdu_, net>>
  BY <1>0, <1>1, SendGoes DEF send
<1>2. CASE /\ ~dead_[c] /\ wpdu_[c].buf # None
           /\ GoTo(s, "send_wait", c)
           /\ UNCHANGED <<pollVars, dead_, wpdu_, net>>
  BY <1>0, <1>2, SendGoes DEF send
<1>3. ASSUME ~dead_[c], wpdu_[c].buf = None, NEW n \in writepdu(net'[c], 0),
             net' \in {net, [net EXCEPT ![c] = "shut"]},
             \/ /\ n = -1
                /\ wpdu_' = [wpdu_ EXCEPT ![c] = PduAfter(s, n)]
                /\ Die(c)
                /\ GoTo(s, "remove", c)
                /\ UNCHANGED pollVars
             \/ /\ n = PduSize
                /\ EndOfSend(s, c)
                /\ UNCHANGED <<pollVars, dead_>>
             \/ /\ n \in 0..PduSize - 1
                /\ wpdu_' = [wpdu_ EXCEPT ![c] = PduAfter(s, n)]
                /\ add_callback(fd_[c], CB_WRONLY, c)
                /\ GoTo(s, "complete", c)
                /\ UNCHANGED <<loop, dead_>>
      PROVE  IInv'
  <2>0. /\ NetAfter(c)
        /\ UNCHANGED <<fd_, made, refno_, rpdu_, kept, inq, arrived, errno_, sends, closed,
                       aborted>>
    BY <1>3 DEF NetAfter, send
  <2>1. CASE /\ n = -1
             /\ wpdu_' = [wpdu_ EXCEPT ![c] = PduAfter(s, n)]
             /\ Die(c)
             /\ GoTo(s, "remove", c)
             /\ UNCHANGED pollVars
    BY <1>0, <1>3, <2>0, <2>1, SendDies
  <2>2. CASE /\ n = PduSize
             /\ EndOfSend(s, c)
             /\ UNCHANGED <<pollVars, dead_>>
    BY <1>0, <2>0, <2>2, EndKeeps
  <2>3. CASE /\ n \in 0..PduSize - 1
             /\ wpdu_' = [wpdu_ EXCEPT ![c] = PduAfter(s, n)]
             /\ add_callback(fd_[c], CB_WRONLY, c)
             /\ GoTo(s, "complete", c)
             /\ UNCHANGED <<loop, dead_>>
    BY <1>0, <1>3, <2>0, <2>3, SendSleeps
  <2> QED BY <1>3, <2>1, <2>2, <2>3
<1> QED BY <1>1, <1>2, <1>3 DEF send

(* send goes on after its last sleep.                                      *)
LEMMA SendEndsKeeps ==
  ASSUME IInv, NEW s \in Senders, SendEnds(s)
  PROVE  IInv'
  BY EndKeeps DEF SendEnds, NetAfter
-----------------------------------------------------------------------------
(* A reference goes.                                                       *)

(* Nobody but those who leave it refers to a dead connection that is       *)
(* deleted: the loop does not reach it.                                    *)
LEMMA DeleteKeeps ==
  ASSUME IInv, NEW c \in Conns, dead_[c], delete(c), UNCHANGED pollVars,
         \A u \in Threads :
           \/ Rests(u) /\ on[u] # c
           \/ pc[u] = "decref" /\ pc'[u] = "idle" /\ on'[u] = None
  PROVE  /\ LoopFits' /\ PollFits' /\ \A t \in Threads : ThreadFits(t)'
         /\ aborted' = aborted /\ Open' = Open \ {c}
<1> USE DEF pollVars
<1>0. /\ fd_ \in [Conns -> Fds \cup {None}] /\ dead_ \in [Conns -> BOOLEAN]
      /\ net \in [Conns -> {"up", "closed", "shut"}] /\ inq \in [Conns -> 0..MaxIn]
      /\ wpdu_[c].buf \in Senders \cup {None}
  BY  DEF IInv, Typed, TypeOK
<1>1. /\ fd_'[c] = None /\ ~dead_'[c]
      /\ \A d \in Conns : d # c => /\ fd_'[d] = fd_[d] /\ dead_'[d] = dead_[d]
                                   /\ net'[d] = net[d] /\ inq'[d] = inq[d]
  BY <1>0, ZenonT(40) DEF delete
<1>2. Open' = Open \ {c} /\ c \in Open /\ c # None
  BY <1>1, ConnectionAssumption, SMT DEF Open, IInv, ConnFits, Conns
<1>3. Stay
  BY DEF Stay, Rests, Inside
<1>4. ~Removing(c, Before) /\ ~Removing(c, Waits) /\ ~Removing(c, Inside)
  BY DEF Removing, Before, Waits, Inside
<1>5. /\ fd_[c] \notin Watched /\ fd_[c] \notin loop.r /\ loop.cb # c
      /\ loop.at = "select" => fd_[c] \notin loop.w
      /\ \A f \in Fds : callbacks_[f] # c
  <2>1. DeadFits(c) /\ WatchFits /\ \A f \in Fds : CallbackFits(f)
    BY  DEF IInv, PollFits
  <2> QED BY <1>2, <1>4, <2>1, ZenonT(40) DEF DeadFits, WatchFits, CallbackFits
<1>6. aborted' = aborted
  <2>1. wpdu_[c].buf = None
    <3>1. ConnFits(c) /\ Senders \subseteq Threads
      BY DEF IInv, Threads
    <3> QED BY <1>0, <3>1, SMT DEF ConnFits, Writes, Inside
  <2> QED BY <2>1 DEF delete
<1>7. \A f : OpenFd(f) /\ f # fd_[c] => OpenFd(f)'
  BY <1>1, <1>2, SMT DEF OpenFd, Open
<1>8. LoopFits'
  <2>1. LoopFits
    BY DEF IInv
  <2>2. \A f : Readable(f) /\ f # fd_[c] => Readable(f)'
    BY <1>1, <1>2, SMT DEF Readable, Open
  <2>3. loop.cb # None => loop.cb \in Open' /\ loop.cb \in Conns
    BY <1>2, <1>5, <2>1 DEF LoopFits, Open
  <2>4. loop.at = "read_cb" =>
          fd_'[loop.cb] \notin loop.r /\ (inq'[loop.cb] > 0 \/ net'[loop.cb] # "up")
    BY <1>1, <1>5, <2>1, <2>3 DEF LoopFits
  <2>5. loop.at # "select" => \A f \in loop.r : Readable(f)'
    BY <1>5, <2>1, <2>2 DEF LoopFits
  <2>6. loop.at = "select" => \A f \in loop.r \cup loop.w : OpenFd(f)'
    BY <1>5, <1>7, <2>1 DEF LoopFits
  <2> QED BY <2>1, <2>3, <2>4, <2>5, <2>6 DEF LoopFits
<1>9. PollFits'
  <2>1. FdsDiffer'
    BY <1>1, <1>2, SMT DEF IInv, PollFits, FdsDiffer, Open
  <2>2. WatchFits'
    <3>1. \A f \in Watched' : OpenFd(f)'
      BY <1>5, <1>7 DEF IInv, PollFits, WatchFits, Watched
    <3>2. ASSUME NEW d \in Conns, dead_'[d], fd_'[d] \in Watched' PROVE Removing(d, Before)'
      <4>1. Removing(d, Before)
        BY <1>1, <3>2 DEF IInv, PollFits, WatchFits, Watched
      <4> QED BY <1>3, <4>1, StayRemoving DEF Before, Inside
    <3> QED BY <3>1, <3>2 DEF WatchFits
  <2>3. Ended'
    <3> PICK k : k = loop.cb
      OBVIOUS 
    <3>1. Removing(k, Waits) => Removing(k, Waits)'
      BY <1>3, StayRemoving DEF Waits, Inside
    <3> QED BY <1>6, <3>1 DEF IInv, PollFits, Ended, Removing
  <2>4. ASSUME NEW d \in Conns PROVE DeadFits(d)'
    <3>1. Removing(d, Waits) => Removing(d, Waits)'
      BY <1>3, StayRemoving DEF Waits, Inside
    <3> QED BY <1>1, <3>1 DEF IInv, PollFits, DeadFits
  <2>5. ASSUME NEW f \in Fds PROVE CallbackFits(f)'
    <3> PICK k : k = callbacks_[f]
      OBVIOUS
    <3>1. callbacks_'[f] = k /\ CallbackFits(f) /\ k # c
      BY <1>5 DEF IInv, PollFits
    <3>2. Removing(k, Inside) => Removing(k, Inside)'
      BY <1>3, StayRemoving
    <3>3. k # None => k \in Open' /\ fd_'[k] = f /\ (dead_'[k] => Removing(k, Inside)')
      BY <1>1, <1>2, <3>1, <3>2, ZenonT(40) DEF CallbackFits, Open
    <3> QED BY <3>1, <3>3 DEF CallbackFits, Removing
  <2> QED BY <2>1, <2>2, <2>3, <2>4, <2>5 DEF PollFits
<1>10. ASSUME NEW u \in Threads PROVE ThreadFits(u)'
  <2>1. CASE Rests(u) /\ on[u] # c
    <3>1. pc'[u] = pc[u] /\ on'[u] = on[u] /\ ThreadFits(u)
      BY <2>1 DEF Rests, IInv
    <3>2. on[u] # None => on[u] \in Conns /\ on[u] \in Open'
      BY <1>2, <2>1, <3>1 DEF ThreadFits, Open
    <3>3. pc[u] \in Inside => on[u] # None
      BY <3>1 DEF ThreadFits, Inside
    <3>4. pc[u] \in Inside => dead_'[on[u]] = dead_[on[u]] /\ fd_'[on[u]] = fd_[on[u]]
      BY <1>1, <2>1, <3>2, <3>3
    <3> QED BY <3>1, <3>2, <3>4, SMT DEF ThreadFits, Inside, Watched
  <2>2. CASE pc'[u] = "idle" /\ on'[u] = None
    BY <2>2 DEF ThreadFits, Inside
  <2> QED BY <2>1, <2>2
<1> QED BY <1>2, <1>6, <1>8, <1>9, <1>10

(* What a decref leaves has its types.                                     *)
LEMMA DecrefTyped ==
  ASSUME IInv, NEW c \in Conns, decref(c), refno_[c] \in Nat, refno_[c] >= 1,
         UNCHANGED <<pollVars, made, wpdu_, arrived, errno_, sends>>,
         aborted' = aborted, kept' \in [Conns -> BOOLEAN],
         pc' \in [Threads -> PCs], on' \in [Threads -> Conns \cup {None}]
  PROVE  /\ Typed' /\ refno_'[c] = refno_[c] - 1
         /\ \A d \in Conns : d # c => refno_'[d] = refno_[d]
<1>0. TypeOK
  BY DEF IInv, Typed
<1>1. /\ refno_' = [refno_ EXCEPT ![c] = @ - 1]
      /\ delete(c) \/ UNCHANGED <<fd_, dead_, rpdu_, net, inq, closed, aborted>>
  BY  DEF decref
<1>2. refno_' \in [Conns -> Nat]
  BY <1>0, <1>1, SMT DEF TypeOK
<1>3. /\ fd_' \in [Conns -> Fds \cup {None}] /\ dead_' \in [Conns -> BOOLEAN]
      /\ rpdu_' \in [Conns -> 0..2] /\ net' \in [Conns -> {"up", "closed", "shut"}]
  <2>1. CASE delete(c)
    BY <1>0, <2>1, SMT DEF TypeOK, delete
  <2>2. CASE UNCHANGED <<fd_, dead_, rpdu_, net, inq, closed, aborted>>
    BY <1>0, <2>2 DEF TypeOK
  <2> QED BY <1>1, <2>1, <2>2
<1>4. inq' \in [Conns -> 0..MaxIn] /\ closed' \subseteq Conns
  BY <1>0, <1>1, ConnectionAssumption, SMTT(60) DEF TypeOK, delete
<1>5. PollTypeOK'
  BY <1>0 DEF TypeOK, PollTypeOK, pollVars
<1>6. TypeOK'
  BY <1>0, <1>2, <1>3, <1>4, <1>5 DEF TypeOK
<1>7. \A d \in Conns : inq'[d] <= arrived'
  BY <1>0, <1>1, SMTT(20) DEF IInv, Typed, TypeOK, delete
<1>8. \A d \in Conns : d \in Open' => d \in Open
  BY <1>0, <1>1 DEF TypeOK, delete, Open
<1>9. refno_'[c] = refno_[c] - 1 /\ \A d \in Conns : d # c => refno_'[d] = refno_[d]
  BY <1>0, <1>1 DEF TypeOK
<1> QED BY <1>6, <1>7, <1>8, <1>9 DEF IInv, Typed

(* A sender drops its reference.                                           *)
LEMMA SenderDropsKeeps ==
  ASSUME IInv, NEW s \in Senders, SenderDrops(s)
  PROVE  IInv'
<1> USE DEF SenderDrops, GoTo
<1> PICK c : c = on[s]
  OBVIOUS
<1>0. s \in Threads /\ s # Owner /\ c \in Conns /\ c \in Open /\ c # None
  BY SenderHas
<1>1. /\ pc \in [Threads -> PCs] /\ on \in [Threads -> Conns \cup {None}]
      /\ kept \in [Conns -> BOOLEAN] /\ refno_ \in [Conns -> Nat]
  BY  DEF IInv, Typed, TypeOK
<1>2. /\ \A u \in Threads : u # s => Rests(u)
      /\ pc'[s] = "idle" /\ on'[s] = None
  BY <1>0, <1>1 DEF Rests
<1>3. /\ refno_'[c] = refno_[c] - 1
      /\ \A u \in Senders : u # s => (on'[u] = c <=> on[u] = c)
  BY <1>0, <1>1, <1>2 DEF decref, Threads, Rests
<1>4. /\ Counted(c)' /\ refno_[c] \in Nat /\ refno_[c] >= 1
      /\ refno_[c] = 1 => ~kept[c] /\ \A u \in Senders : u # s => on[u] # c
  <2>1. Counted(c)
    BY <1>0 DEF IInv
  <2> QED BY <1>0, <1>2, <1>3, <2>1, CountDown, ZenonT(40)
<1>5. pc' \in [Threads -> PCs] /\ on' \in [Threads -> Conns \cup {None}]
  BY <1>1 DEF PCs
<1>6. /\ LoopFits' /\ PollFits' /\ \A t \in Threads : ThreadFits(t)'
      /\ aborted' = aborted
      /\ \/ UNCHANGED <<fd_, dead_>>
         \/ /\ Open' = Open \ {c} /\ ~kept[c] /\ ~dead_'[c]
            /\ \A d \in Conns : d # c => dead_'[d] = dead_[d] /\ fd_'[d] = fd_[d]
  <2>1. CASE refno_[c] = 1 /\ dead_[c]
    <3>1. on[Owner] # c
      <4>1. Owner \in Threads /\ ThreadFits(Owner) /\ OwnerFits
        BY DEF IInv, Threads
      <4> QED BY <1>0, <1>4, <2>1, <4>1 DEF ThreadFits, OwnerFits
    <3>2. \A u \in Threads : u # s => Rests(u) /\ on[u] # c
      BY <1>2, <1>4, <2>1, <3>1 DEF Threads
    <3>3. delete(c) /\ UNCHANGED pollVars
      BY <2>1 DEF decref
    <3>4. /\ LoopFits' /\ PollFits' /\ \A t \in Threads : ThreadFits(t)'
          /\ aborted' = aborted /\ Open' = Open \ {c}
      BY <1>0, <1>2, <2>1, <3>2, <3>3, DeleteKeeps
    <3>5. ~dead_'[c] /\ \A d \in Conns : d # c => dead_'[d] = dead_[d] /\ fd_'[d] = fd_[d]
      BY <1>0, <3>3 DEF delete, IInv, Typed, TypeOK
    <3> QED BY <1>4, <2>1, <3>4, <3>5
  <2>2. CASE ~(refno_[c] = 1 /\ dead_[c])
    <3>1. UNCHANGED <<fd_, dead_, net, inq, aborted, pollVars>>
      BY <2>2 DEF decref
    <3>2. Moves(s)
      BY <1>2 DEF Moves, Inside
    <3>3. StillReadable /\ Dying
      BY <3>1 DEF StillReadable, Dying
    <3> QED BY <1>2, <3>1, <3>2, <3>3, QuietStep
  <2> QED BY <2>1, <2>2
<1>7. Typed' /\ \A d \in Conns : d # c => refno_'[d] = refno_[d]
  BY <1>0, <1>1, <1>4, <1>5, <1>6, DecrefTyped
<1>8. ASSUME NEW d \in Conns PROVE Counted(d)' /\ ConnFits(d)'
  <2>1. Counted(d)'
    <3>1. CASE d # c
      <4>1. \A u \in Senders : on'[u] = d <=> on[u] = d
        BY <1>0, <1>2, <3>1, ConnectionAssumption, ZenonT(40) DEF Threads, Rests, Conns
      <4> QED BY <1>7, <3>1, <4>1, CountSame DEF IInv
    <3> QED BY <1>4, <3>1
  <2>2. \A u \in Senders : pc[u] \in Writes => on'[u] = on[u] /\ pc'[u] = pc[u]
    BY <1>2 DEF Threads, Rests, Writes, Inside
  <2>3. CASE UNCHANGED <<fd_, dead_>>
    <3>1. ConnFits(d)'
      BY <2>2, <2>3, ConnFrame
    <3> QED BY <2>1, <3>1
  <2>4. CASE /\ Open' = Open \ {c} /\ ~kept[c] /\ ~dead_'[c]
             /\ \A e \in Conns : e # c => dead_'[e] = dead_[e] /\ fd_'[e] = fd_[e]
    <3>1. ConnFits(d) /\ wpdu_[d].buf \in Senders \cup {None}
      BY  DEF IInv, Typed, TypeOK
    <3>2. ConnFits(d)'
      BY <2>2, <2>4, <3>1, SMT DEF ConnFits
    <3> QED BY <2>1, <3>2
  <2> QED BY <1>6, <2>3, <2>4
<1>9. OwnerFits'
  BY <1>0, <1>2 DEF IInv, OwnerFits, Rests, Threads
<1> QED BY <1>6, <1>7, <1>8, <1>9 DEF IInv

(* The owner drops its own.                                                *)
LEMMA OwnerDropsKeeps ==
  ASSUME IInv, NEW c \in Conns, OwnerDrops(c)
  PROVE  IInv'
<1> USE DEF OwnerDrops
<1>1. /\ pc \in [Threads -> PCs] /\ on \in [Threads -> Conns \cup {None}]
      /\ kept \in [Conns -> BOOLEAN] /\ refno_ \in [Conns -> Nat]
  BY DEF IInv, Typed, TypeOK
<1>2. kept' \in [Conns -> BOOLEAN] /\ ~kept'[c] /\ \A d \in Conns : d # c => kept'[d] = kept[d]
  BY <1>1
<1>3. refno_'[c] = refno_[c] - 1
  BY <1>1 DEF decref
<1>4. /\ Counted(c)' /\ refno_[c] \in Nat /\ refno_[c] >= 1
      /\ refno_[c] = 1 => \A u \in Senders : on[u] # c
  <2>1. Counted(c)
    BY DEF IInv
  <2> QED BY <1>2, <1>3, <2>1, CountOwner
<1>5. \A u \in Threads : Rests(u)
  BY DEF Rests
<1>6. /\ LoopFits' /\ PollFits' /\ \A t \in Threads : ThreadFits(t)'
      /\ aborted' = aborted
      /\ \/ UNCHANGED <<fd_, dead_>>
         \/ /\ Open' = Open \ {c} /\ ~dead_'[c]
            /\ \A d \in Conns : d # c => dead_'[d] = dead_[d] /\ fd_'[d] = fd_[d]
  <2>1. CASE refno_[c] = 1
    <3>1. on[Owner] # c
      <4>1. Owner \in Threads /\ ThreadFits(Owner) /\ c # None
        BY ConnectionAssumption DEF IInv, Threads, Conns
      <4> QED BY <4>1 DEF ThreadFits
    <3>2. \A u \in Threads : Rests(u) /\ on[u] # c
      BY <1>4, <1>5, <2>1, <3>1 DEF Threads
    <3>3. delete(c) /\ UNCHANGED pollVars
      BY <2>1 DEF decref
    <3>4. /\ LoopFits' /\ PollFits' /\ \A t \in Threads : ThreadFits(t)'
          /\ aborted' = aborted /\ Open' = Open \ {c}
      BY <3>2, <3>3, DeleteKeeps
    <3>5. ~dead_'[c] /\ \A d \in Conns : d # c => dead_'[d] = dead_[d] /\ fd_'[d] = fd_[d]
      BY <3>3 DEF delete, IInv, Typed, TypeOK
    <3> QED BY <3>4, <3>5
  <2>2. CASE refno_[c] # 1
    <3>1. UNCHANGED <<fd_, dead_, net, inq, aborted, pollVars>>
      BY <2>2 DEF decref
    <3>2. StillReadable /\ Dying
      BY <3>1 DEF StillReadable, Dying
    <3> QED BY <1>5, <3>1, <3>2, QuietStep
  <2> QED BY <2>1, <2>2
<1>7. Typed' /\ \A d \in Conns : d # c => refno_'[d] = refno_[d]
  BY <1>1, <1>2, <1>4, <1>6, DecrefTyped
<1>8. ASSUME NEW d \in Conns PROVE Counted(d)' /\ ConnFits(d)'
  <2>1. Counted(d)'
    <3>1. CASE d # c
      BY <1>2, <1>7, <3>1, CountSame DEF IInv
    <3> QED BY <1>4, <3>1
  <2>2. ConnFits(d) /\ wpdu_[d].buf \in Senders \cup {None}
    BY DEF IInv, Typed, TypeOK
  <2>3. CASE UNCHANGED <<fd_, dead_>>
    <3>1. ConnFits(d)'
      BY <1>2, <2>2, <2>3 DEF ConnFits, Open
    <3> QED BY <2>1, <3>1
  <2>4. CASE /\ Open' = Open \ {c} /\ ~dead_'[c]
             /\ \A e \in Conns : e # c => dead_'[e] = dead_[e] /\ fd_'[e] = fd_[e]
    <3>1. ConnFits(d)'
      BY <1>2, <2>2, <2>4, ZenonT(40) DEF ConnFits
    <3> QED BY <2>1, <3>1
  <2> QED BY <1>6, <2>3, <2>4
<1>9. OwnerFits'
  BY  DEF IInv, OwnerFits
<1> QED BY <1>6, <1>7, <1>8, <1>9 DEF IInv
-----------------------------------------------------------------------------
(* The constructor: the descriptor is free, so nothing is registered.      *)
LEMMA ConnectionKeeps ==
  ASSUME IInv, NEW c \in Conns, NEW fd \in Fds, connection(c, fd)
  PROVE  IInv'
<1>0. /\ fd_ \in [Conns -> Fds \cup {None}] /\ callbacks_ \in [Fds -> Objects \cup {None}]
      /\ refno_ \in [Conns -> Nat] /\ kept \in [Conns -> BOOLEAN] /\ made \in Nat
  BY SMTT(20) DEF IInv, Typed, TypeOK, PollTypeOK
<1>1. c \notin Open /\ c # None /\ fd # None /\ ~dead_[c]
  <2>1. (c \in Open => c \in 1..made) /\ c = made + 1
    BY DEF IInv, Typed, connection
  <2>2. ConnFits(c)
    BY DEF IInv
  <2> QED BY <1>0, <2>1, <2>2, ConnectionAssumption, SMT DEF ConnFits, Conns
<1>2. \A d \in Open : fd_[d] # fd
  BY DEF connection, FreeFds
<1>3. callbacks_[fd] = None /\ aborted' = aborted
  <2>1. CallbackFits(fd)
    BY DEF IInv, PollFits
  <2> QED BY <1>2, <2>1 DEF CallbackFits, connection
<1>4. /\ fd_'[c] = fd /\ kept'[c] /\ refno_'[c] = 1
      /\ \A d \in Conns : d # c => /\ fd_'[d] = fd_[d] /\ kept'[d] = kept[d]
                                   /\ refno_'[d] = refno_[d]
      /\ Open' = Open \cup {c}
  BY <1>0, <1>1 DEF connection, Open
<1>5. /\ Watched' = Watched \cup {fd} /\ callbacks_'[fd] = c
      /\ \A f \in Fds : f # fd => callbacks_'[f] = callbacks_[f]
      /\ pending_change_' = pending_change_
  BY <1>0 DEF connection, add_callback, watch_fd, Watched, CB_RDONLY, CB_WRONLY
<1>6. UNCHANGED <<loop, dead_, wpdu_, rpdu_, net, inq, arrived, errno_, pc, on, sends, closed>>
  BY DEF connection
<1>7. Typed'
  <2>1. made' = made + 1 /\ made' \in Nat /\ 1..made' \subseteq Conns
    BY <1>0, SMT DEF IInv, Typed, connection
  <2>2. made' <= Cardinality(Conns)
    <3> PICK m : m = made'
      OBVIOUS
    <3>1. m \in Nat /\ 1 \in Int /\ m \in Int /\ m >= 1
      BY <1>0, <2>1, SMT
    <3>0. IsFiniteSet(1..m) /\ Cardinality(1..m) = IF 1 > m THEN 0 ELSE m - 1 + 1
      BY <3>1, FS_Interval
    <3>2. Cardinality(1..m) = m
      BY <3>0, <3>1, SMT
    <3>3. 1..m \subseteq Conns /\ IsFiniteSet(Conns)
      BY <2>1, ConnectionAssumption DEF Conns
    <3>4. Cardinality(1..m) <= Cardinality(Conns)
      BY <3>3, FS_Subset
    <3> QED BY <3>2, <3>4
  <2>3. made' \in 0..Cardinality(Conns)
    BY <2>1, <2>2, FS_CardinalityType, ConnectionAssumption, SMT DEF Conns
  <2>4. /\ fd_' \in [Conns -> Fds \cup {None}] /\ refno_' \in [Conns -> Nat]
        /\ kept' \in [Conns -> BOOLEAN]
    BY <1>0 DEF connection
  <2>5. PollTypeOK'
    <3>1. callbacks_' \in [Fds -> Objects \cup {None}]
      BY <1>0 DEF connection, add_callback, Conns
    <3>2. rfds_' \subseteq Fds /\ wfds_' \subseteq Fds /\ pipefd_' \in Nat
      BY SMT DEF IInv, Typed, TypeOK, PollTypeOK, connection, add_callback, watch_fd, CB_RDONLY,
             CB_WRONLY
    <3> QED BY <1>5, <1>6, <3>1, <3>2 DEF IInv, Typed, TypeOK, PollTypeOK
  <2>6. TypeOK'
    BY <1>3, <1>6, <2>3, <2>4, <2>5 DEF IInv, Typed, TypeOK
  <2>7. \A d \in Conns : inq'[d] <= arrived' /\ (d \in Open' => d \in 1..made')
    BY <1>0, <1>4, <1>6, <2>1, SMT DEF IInv, Typed, connection
  <2> QED BY <2>1, <2>6, <2>7 DEF Typed
<1>8. \A f : OpenFd(f) => OpenFd(f)'
  BY <1>1, <1>4, ZenonT(40) DEF OpenFd, Open
<1>9. LoopFits'
  <2>1. LoopFits
    BY DEF IInv
  <2>2. \A f : Readable(f) => Readable(f)'
    BY <1>1, <1>4, <1>6 DEF Readable, Open
  <2>3. loop.cb # None => loop.cb \in Open' /\ loop.cb \in Conns /\ fd_'[loop.cb] = fd_[loop.cb]
    BY <1>1, <1>4, <2>1 DEF LoopFits, Open
  <2> QED BY <1>6, <1>8, <2>1, <2>2, <2>3 DEF LoopFits
<1>10. \A d, P : Removing(d, P)' <=> Removing(d, P)
  BY <1>6 DEF Removing
<1>11. \A d \in Conns : dead_[d] => d \in Open /\ d # c /\ fd_'[d] = fd_[d] /\ fd_[d] # fd
  BY <1>1, <1>2, <1>4, ZenonT(40) DEF IInv, ConnFits
<1>12. PollFits'
  <2>1. FdsDiffer'
    BY <1>1, <1>2, <1>4, SMT DEF IInv, PollFits, FdsDiffer, Open
  <2>2. WatchFits'
    <3>1. \A f \in Watched' : OpenFd(f)'
      <4>1. OpenFd(fd)'
        BY <1>4 DEF OpenFd
      <4> QED BY <1>5, <1>8, <4>1 DEF IInv, PollFits, WatchFits
    <3>2. \A d \in Conns : dead_'[d] /\ fd_'[d] \in Watched' => Removing(d, Before)'
      BY <1>5, <1>6, <1>10, <1>11 DEF IInv, PollFits, WatchFits
    <3> QED BY <3>1, <3>2 DEF WatchFits
  <2>3. Ended'
    <3> PICK k : k = loop.cb
      OBVIOUS
    <3>1. Removing(k, Waits) => Removing(k, Waits)'
      BY <1>10
    <3> QED BY <1>3, <1>6, <3>1 DEF IInv, PollFits, Ended, Removing
  <2>4. ASSUME NEW d \in Conns PROVE DeadFits(d)'
    <3>1. DeadFits(d) /\ (Removing(d, Waits) => Removing(d, Waits)')
      BY <1>10 DEF IInv, PollFits
    <3> QED BY <1>6, <1>11, <3>1 DEF DeadFits
  <2>5. ASSUME NEW f \in Fds PROVE CallbackFits(f)'
    <3>1. CASE f = fd
      BY <1>1, <1>4, <1>5, <1>6, <3>1 DEF CallbackFits
    <3>2. CASE f # fd
      <4> PICK k : k = callbacks_[f]
        OBVIOUS
      <4>1. callbacks_'[f] = k /\ CallbackFits(f)
        BY <1>5, <3>2 DEF IInv, PollFits
      <4>2. Removing(k, Inside) => Removing(k, Inside)'
        BY <1>10
      <4>3. k # None => k \in Open' /\ fd_'[k] = f /\ (dead_'[k] => Removing(k, Inside)')
        BY <1>1, <1>4, <1>6, <4>1, <4>2, ZenonT(40) DEF CallbackFits, Open
      <4> QED BY <4>1, <4>3 DEF CallbackFits, Removing
    <3> QED BY <3>1, <3>2
  <2> QED BY <2>1, <2>2, <2>3, <2>4, <2>5, ZenonT(40) DEF PollFits
<1>13. ASSUME NEW u \in Threads PROVE ThreadFits(u)'
  <2>1. ThreadFits(u)
    BY DEF IInv
  <2>2. on[u] # None => on[u] \in Conns /\ on[u] \in Open' /\ fd_'[on[u]] = fd_[on[u]]
                        /\ fd_[on[u]] # fd
    BY <1>1, <1>2, <1>4, <2>1 DEF ThreadFits, Open
  <2>3. pc[u] \in Inside => on[u] # None
    BY <2>1 DEF ThreadFits, Inside
  <2> QED BY <1>5, <1>6, <2>1, <2>2, <2>3 DEF ThreadFits, Inside
<1>14. ASSUME NEW d \in Conns PROVE Counted(d)' /\ ConnFits(d)'
  <2>1. Counted(d)'
    <3>1. CASE d = c
      <4>1. SendersOf(c)' = {}
        BY <1>1, <1>6, ZenonT(40) DEF SendersOf, IInv, ThreadFits, Threads
      <4>2. Cardinality(SendersOf(c)') = 0
        BY <4>1, FS_EmptySet
      <4> QED BY <1>4, <3>1, <4>2, SMT DEF Counted
    <3>2. CASE d # c
      BY <1>4, <1>6, <3>2, CountSame DEF IInv
    <3> QED BY <3>1, <3>2
  <2>2. ConnFits(d)
    BY DEF IInv
  <2>3. ConnFits(d)'
    BY <1>1, <1>4, <1>6, <2>2 DEF ConnFits
  <2> QED BY <2>1, <2>3
<1>15. OwnerFits'
  <2>1. OwnerFits /\ ThreadFits(Owner)
    BY DEF IInv, Threads
  <2>2. pc[Owner] = "idle"
    BY DEF connection
  <2> QED BY <1>6, <2>2 DEF OwnerFits, Inside
<1> QED BY <1>7, <1>9, <1>12, <1>13, <1>14, <1>15 DEF IInv
-----------------------------------------------------------------------------
(* block_remove_fd.                                                        *)

(* Before the sleep: the descriptor is no longer watched.                  *)
LEMMA RemoveKeeps ==
  ASSUME IInv, NEW t \in Threads, Remove(t)
  PROVE  IInv'
<1> PICK c : c = on[t]
  OBVIOUS
<1>0. c \in Conns /\ c \in Open /\ dead_[c] /\ c # None /\ ThreadFits(t)
  BY ConnectionAssumption DEF IInv, ThreadFits, Remove, Inside, Open, Conns
<1>1. pc \in [Threads -> PCs] /\ on \in [Threads -> Conns \cup {None}]
  BY DEF IInv, Typed, TypeOK
<1>2. /\ \A u \in Threads : u # t => Rests(u)
      /\ pc[t] = "remove" /\ pc'[t] = "changewait" /\ on'[t] = c
  BY <1>1 DEF Remove, GoTo, Rests
<1>3. /\ Watched' = Watched \ {fd_[c]} /\ pending_change_'
      /\ UNCHANGED <<callbacks_, loop>>
  BY DEF Remove, RemoveFd, unwatch_fd, Watched, CB_RDWR, CB_RDONLY, CB_WRONLY
<1>4. /\ UNCHANGED <<fd_, made, dead_, refno_, wpdu_, rpdu_, kept, net, inq, arrived, errno_,
                     sends, closed, aborted>>
      /\ Open' = Open
  BY  DEF Remove, Open
<1>5. Typed'
  <2>1. pc' \in [Threads -> PCs] /\ on' \in [Threads -> Conns \cup {None}]
    BY <1>0, <1>1 DEF Remove, GoTo, PCs
  <2>2. /\ rfds_' \subseteq Fds /\ wfds_' \subseteq Fds
        /\ pipefd_' \in Nat /\ pending_change_' = TRUE
    BY SMT DEF IInv, Typed, TypeOK, PollTypeOK, Remove, RemoveFd, unwatch_fd, CB_RDWR, CB_RDONLY,
           CB_WRONLY
  <2>3. PollTypeOK'
    BY <1>3, <2>2 DEF IInv, Typed, TypeOK, PollTypeOK
  <2>4. TypeOK'
    BY <1>4, <2>1, <2>3 DEF IInv, Typed, TypeOK
  <2> QED BY <1>4, <2>4 DEF IInv, Typed
<1>6. LoopFits'
  BY <1>3, <1>4, LoopFrame
<1>7. /\ \A d : d # c /\ Removing(d, Before) => Removing(d, Before)'
      /\ \A d : Removing(d, Waits) => Removing(d, Waits)'
      /\ \A d : Removing(d, Inside) => Removing(d, Inside)'
  <2>1. \A u \in Threads : on'[u] = on[u] /\ (u # t => pc'[u] = pc[u])
    BY <1>2 DEF Rests
  <2> QED BY <1>2, <2>1 DEF Removing, Before, Waits, Inside
<1>8. PollFits'
  <2>1. FdsDiffer'
    BY <1>4 DEF IInv, PollFits, FdsDiffer
  <2>2. WatchFits'
    <3>1. \A f \in Watched' : OpenFd(f)'
      BY <1>3, <1>4 DEF IInv, PollFits, WatchFits, OpenFd
    <3>2. \A d \in Conns : dead_'[d] /\ fd_'[d] \in Watched' => Removing(d, Before)'
      BY <1>3, <1>4, <1>7 DEF IInv, PollFits, WatchFits
    <3> QED BY <3>1, <3>2 DEF WatchFits
  <2>3. Ended'
    <3> PICK k : k = loop.cb
      OBVIOUS
    <3>1. Removing(k, Waits) => Removing(k, Waits)'
      BY <1>7
    <3> QED BY <1>3, <1>4, <3>1 DEF IInv, PollFits, Ended, Removing
  <2>4. ASSUME NEW d \in Conns PROVE DeadFits(d)'
    <3>1. DeadFits(d) /\ (Removing(d, Waits) => Removing(d, Waits)')
      BY <1>7 DEF IInv, PollFits
    <3> QED BY <1>3, <1>4, <3>1 DEF DeadFits
  <2>5. ASSUME NEW f \in Fds PROVE CallbackFits(f)'
    <3> PICK k : k = callbacks_[f]
      OBVIOUS
    <3>1. callbacks_'[f] = k /\ CallbackFits(f)
      BY <1>3 DEF IInv, PollFits
    <3>2. Removing(k, Inside) => Removing(k, Inside)'
      BY <1>7
    <3>3. k # None => k \in Open' /\ fd_'[k] = f /\ (dead_'[k] => Removing(k, Inside)')
      BY <1>4, <3>1, <3>2 DEF CallbackFits
    <3> QED BY <3>1, <3>3 DEF CallbackFits, Removing
  <2> QED BY <2>1, <2>2, <2>3, <2>4, <2>5 DEF PollFits
<1>9. ASSUME NEW u \in Threads PROVE ThreadFits(u)'
  <2>1. CASE u = t
    BY <1>0, <1>2, <1>3, <1>4, <2>1 DEF ThreadFits, Inside
  <2>2. CASE u # t
    <3>1. pc'[u] = pc[u] /\ on'[u] = on[u] /\ ThreadFits(u)
      BY <1>2, <2>2 DEF Rests, IInv
    <3> QED BY <1>3, <1>4, <3>1 DEF ThreadFits
  <2> QED BY <2>1, <2>2
<1>10. ASSUME NEW d \in Conns PROVE Counted(d)' /\ ConnFits(d)'
  <2>1. \A u \in Senders : on'[u] = on[u] /\ (pc[u] \in Writes => pc'[u] \in Writes)
    BY <1>2 DEF Threads, Rests, Writes, Inside
  <2>2. Counted(d)'
    BY <1>4, <2>1, CountSame DEF IInv
  <2>3. ConnFits(d)'
    BY <1>4, <2>1, ConnFrame
  <2> QED BY <2>2, <2>3
<1>11. OwnerFits'
  <2>1. Owner \in Threads /\ OwnerFits
    BY DEF IInv, Threads
  <2> QED BY <1>2, <1>4, <2>1, SMT DEF OwnerFits, Rests, Inside
<1> QED BY <1>5, <1>6, <1>8, <1>9, <1>10, <1>11 DEF IInv

(* After it: the connection is no longer registered.                       *)
LEMMA RemovedKeeps ==
  ASSUME IInv, NEW t \in Threads, Removed(t)
  PROVE  IInv'
<1> PICK c : c = on[t]
  OBVIOUS
<1>0. c \in Conns /\ c \in Open /\ dead_[c] /\ c # None /\ ThreadFits(t)
  BY ConnectionAssumption DEF IInv, ThreadFits, Removed, Inside, Open, Conns
<1>1. /\ pc \in [Threads -> PCs] /\ on \in [Threads -> Conns \cup {None}]
      /\ callbacks_ \in [Fds -> Objects \cup {None}] /\ fd_ \in [Conns -> Fds \cup {None}]
  BY DEF IInv, Typed, TypeOK, PollTypeOK
<1>2. /\ \A u \in Threads : u # t => Rests(u)
      /\ pc[t] = "removed"
      /\ t = Owner => pc'[t] = "idle" /\ on'[t] = None
      /\ t # Owner => pc'[t] = "finish" /\ on'[t] = c
  BY <1>1, SMT DEF Removed, GoTo, Rests
<1>3. /\ fd_[c] \in Fds /\ callbacks_'[fd_[c]] = None
      /\ \A f \in Fds : f # fd_[c] => callbacks_'[f] = callbacks_[f]
      /\ callbacks_' \in [Fds -> Objects \cup {None}]
      /\ UNCHANGED <<rfds_, wfds_, pending_change_, pipefd_, loop>>
  BY <1>0, <1>1 DEF Removed, RemovedFd, Open
<1>4. /\ UNCHANGED <<fd_, made, dead_, refno_, wpdu_, rpdu_, kept, net, inq, arrived, errno_,
                     sends, closed, aborted>>
      /\ Open' = Open /\ Watched' = Watched
  BY <1>3 DEF Removed, Open, Watched
<1>5. Typed'
  <2>1. pc' \in [Threads -> PCs] /\ on' \in [Threads -> Conns \cup {None}]
    BY <1>0, <1>1, SMT DEF Removed, GoTo, PCs
  <2>2. PollTypeOK'
    BY <1>3 DEF IInv, Typed, TypeOK, PollTypeOK
  <2>3. TypeOK'
    BY <1>4, <2>1, <2>2 DEF IInv, Typed, TypeOK
  <2> QED BY <1>4, <2>3 DEF IInv, Typed
<1>6. LoopFits'
  BY <1>3, <1>4, LoopFrame
<1>7. /\ \A d : Removing(d, Before) => Removing(d, Before)'
      /\ \A d : Removing(d, Waits) => Removing(d, Waits)'
      /\ \A d : d # c /\ Removing(d, Inside) => Removing(d, Inside)'
  BY <1>2 DEF Removing, Before, Waits, Inside, Rests
<1>8. PollFits'
  <2>1. FdsDiffer'
    BY <1>4 DEF IInv, PollFits, FdsDiffer
  <2>2. WatchFits'
    <3>1. \A f \in Watched' : OpenFd(f)'
      BY <1>4 DEF IInv, PollFits, WatchFits, OpenFd
    <3>2. \A d \in Conns : dead_'[d] /\ fd_'[d] \in Watched' => Removing(d, Before)'
      BY <1>4, <1>7 DEF IInv, PollFits, WatchFits
    <3> QED BY <3>1, <3>2 DEF WatchFits
  <2>3. Ended'
    <3> PICK k : k = loop.cb
      OBVIOUS
    <3>1. Removing(k, Waits) => Removing(k, Waits)'
      BY <1>7
    <3> QED BY <1>3, <1>4, <3>1 DEF IInv, PollFits, Ended, Removing
  <2>4. ASSUME NEW d \in Conns PROVE DeadFits(d)'
    <3>1. DeadFits(d) /\ (Removing(d, Waits) => Removing(d, Waits)')
      BY <1>7 DEF IInv, PollFits
    <3> QED BY <1>3, <1>4, <3>1 DEF DeadFits
  <2>5. ASSUME NEW f \in Fds PROVE CallbackFits(f)'
    <3>1. CASE f = fd_[c]
      BY <1>3, <3>1 DEF CallbackFits
    <3>2. CASE f # fd_[c]
      <4> PICK k : k = callbacks_[f]
        OBVIOUS
      <4>1. callbacks_'[f] = k /\ CallbackFits(f)
        BY <1>3, <3>2 DEF IInv, PollFits
      <4>2. k # None => k # c
        BY <3>2, <4>1 DEF CallbackFits
      <4>3. k # c /\ Removing(k, Inside) => Removing(k, Inside)'
        BY <1>7
      <4>4. k # None => k \in Open' /\ fd_'[k] = f /\ (dead_'[k] => Removing(k, Inside)')
        BY <1>4, <4>1, <4>2, <4>3 DEF CallbackFits
      <4> QED BY <4>1, <4>4 DEF CallbackFits, Removing
    <3> QED BY <3>1, <3>2
  <2> QED BY <2>1, <2>2, <2>3, <2>4, <2>5 DEF PollFits
<1>9. ASSUME NEW u \in Threads PROVE ThreadFits(u)'
  <2>1. CASE u = t /\ t = Owner
    BY <1>2, <2>1 DEF ThreadFits, Inside
  <2>2. CASE u = t /\ t # Owner
    BY <1>0, <1>2, <1>4, <2>2 DEF ThreadFits, Inside
  <2>3. CASE u # t
    BY <1>2, <1>3, <1>4, <2>3, ThreadFrame DEF Rests
  <2> QED BY <2>1, <2>2, <2>3
<1>10. ASSUME NEW d \in Conns PROVE Counted(d)' /\ ConnFits(d)'
  <2>1. \A u \in Senders : on'[u] = on[u] /\ (pc[u] \in Writes => pc'[u] \in Writes)
    BY <1>2, ConnectionAssumption DEF Threads, Rests, Writes, Inside
  <2>2. Counted(d)'
    BY <1>4, <2>1, CountSame DEF IInv
  <2>3. ConnFits(d)'
    BY <1>4, <2>1, ConnFrame
  <2> QED BY <2>2, <2>3
<1>11. OwnerFits'
  <2>1. Owner \in Threads /\ OwnerFits
    BY DEF IInv, Threads
  <2> QED BY <1>2, <1>4, <2>1 DEF OwnerFits, Rests, Inside
<1> QED BY <1>5, <1>6, <1>8, <1>9, <1>10, <1>11 DEF IInv
-----------------------------------------------------------------------------
(* The poll loop.                                                          *)

(* Its head wakes all that sleep in block_remove_fd.                       *)
LEMMA HeadKeeps ==
  ASSUME IInv, Head
  PROVE  IInv'
<1>0. /\ loop.at = "top" /\ loop.r = {} /\ loop.w = {} /\ loop.cb = None
      /\ aborted = "no"
  BY DEF IInv, LoopFits, PollFits, Ended, Head, WaitLoopHead
<1>1. /\ pc \in [Threads -> PCs] /\ pending_change_ \in BOOLEAN
      /\ loop \in [at : Places, r : SUBSET Fds, w : SUBSET Fds, cb : Objects \cup {None}]
  BY DEF IInv, Typed, TypeOK, PollTypeOK
<1>2. /\ loop' = [at |-> "snapshot", r |-> {}, w |-> {}, cb |-> None]
      /\ UNCHANGED <<rfds_, wfds_, callbacks_, pipefd_>> /\ pending_change_' = FALSE
  BY <1>0, <1>1 DEF Head, WaitLoopHead
<1>3. UNCHANGED <<fd_, made, dead_, refno_, wpdu_, rpdu_, kept, net, inq, arrived, errno_, on,
                  sends, closed, aborted>>
  BY DEF Head
<1>4. \A u \in Threads : IF pc[u] = "changewait" THEN pc'[u] = "removed" ELSE pc'[u] = pc[u]
  BY DEF Head, IInv, ThreadFits
<1>5. Open' = Open /\ Watched' = Watched
  BY <1>2, <1>3 DEF Open, Watched
<1>6. Typed'
  <2>1. pc' \in [Threads -> PCs]
    BY <1>1 DEF Head, PCs
  <2>2. PollTypeOK'
    BY <1>2 DEF IInv, Typed, TypeOK, PollTypeOK, Places
  <2>3. TypeOK'
    BY <1>3, <2>1, <2>2 DEF IInv, Typed, TypeOK
  <2> QED BY <1>3, <1>5, <2>3 DEF IInv, Typed
<1>7. LoopFits'
  BY <1>2 DEF LoopFits
<1>8. /\ \A d : Removing(d, Before) => Removing(d, Before)'
      /\ \A d : Removing(d, Inside) => Removing(d, Inside)'
  BY <1>3, <1>4 DEF Removing, Before, Inside
<1>9. PollFits'
  <2>1. FdsDiffer'
    BY <1>3, <1>5 DEF IInv, PollFits, FdsDiffer
  <2>2. WatchFits'
    <3>1. \A f \in Watched' : OpenFd(f)'
      BY <1>3, <1>5 DEF IInv, PollFits, WatchFits, OpenFd
    <3>2. \A d \in Conns : dead_'[d] /\ fd_'[d] \in Watched' => Removing(d, Before)'
      BY <1>3, <1>5, <1>8 DEF IInv, PollFits, WatchFits
    <3> QED BY <3>1, <3>2 DEF WatchFits
  <2>3. Ended'
    BY <1>0, <1>3 DEF Ended
  <2>4. ASSUME NEW d \in Conns PROVE DeadFits(d)'
    <3>1. d # None
      BY ConnectionAssumption DEF Conns
    <3> QED BY <1>2, <3>1 DEF DeadFits
  <2>5. ASSUME NEW f \in Fds PROVE CallbackFits(f)'
    <3> PICK k : k = callbacks_[f]
      OBVIOUS
    <3>1. callbacks_'[f] = k /\ CallbackFits(f)
      BY <1>2 DEF IInv, PollFits
    <3>2. Removing(k, Inside) => Removing(k, Inside)'
      BY <1>8
    <3>3. k # None => k \in Open' /\ fd_'[k] = f /\ (dead_'[k] => Removing(k, Inside)')
      BY <1>3, <1>5, <3>1, <3>2 DEF CallbackFits
    <3> QED BY <3>1, <3>3 DEF CallbackFits, Removing
  <2> QED BY <2>1, <2>2, <2>3, <2>4, <2>5 DEF PollFits
<1>10. ASSUME NEW u \in Threads PROVE ThreadFits(u)'
  <2>1. ThreadFits(u)
    BY DEF IInv
  <2> QED BY <1>2, <1>3, <1>4, <1>5, <2>1 DEF ThreadFits, Inside
<1>11. ASSUME NEW d \in Conns PROVE Counted(d)' /\ ConnFits(d)'
  <2>1. \A u \in Senders : pc[u] \in Writes => pc'[u] \in Writes
    BY <1>4 DEF Threads, Writes, Inside
  <2>2. Counted(d)'
    BY <1>3, CountSame DEF IInv
  <2>3. ConnFits(d)'
    BY <1>3, <2>1, ConnFrame
  <2> QED BY <2>2, <2>3
<1>12. OwnerFits'
  BY <1>3, <1>4 DEF IInv, OwnerFits, Threads, Inside
<1> QED BY <1>6, <1>7, <1>9, <1>10, <1>11, <1>12 DEF IInv
-----------------------------------------------------------------------------
(* A step of the loop that changes its lists and its callback only.        *)
LEMMA LoopStep ==
  ASSUME IInv, aborted = "no",
         UNCHANGED <<connVars, rfds_, wfds_, callbacks_, pending_change_>>,
         pipefd_' \in Nat,
         loop' \in [at : Places, r : SUBSET Fds, w : SUBSET Fds, cb : Objects \cup {None}],
         LoopFits', \A c \in Conns : DeadFits(c)',
         \A u \in Threads : pc[u] = "removed" => fd_[on[u]] \notin loop'.r \cup loop'.w
  PROVE  IInv'
<1>1. UNCHANGED <<fd_, made, dead_, refno_, wpdu_, rpdu_, kept, net, inq, arrived, errno_, pc,
                  on, sends, closed, aborted>>
  BY DEF connVars
<1>2. Open' = Open /\ Watched' = Watched
  BY <1>1 DEF Open, Watched
<1>3. Typed'
  <2>1. PollTypeOK'
    BY DEF IInv, Typed, TypeOK, PollTypeOK
  <2>2. TypeOK'
    BY <1>1, <2>1 DEF IInv, Typed, TypeOK
  <2> QED BY <1>1, <1>2, <2>2 DEF IInv, Typed
<1>4. \A d, P : Removing(d, P)' <=> Removing(d, P)
  BY <1>1 DEF Removing
<1>5. PollFits'
  <2>1. FdsDiffer'
    BY <1>1, <1>2, ZenonT(40) DEF IInv, PollFits, FdsDiffer
  <2>2. WatchFits'
    <3>1. \A f \in Watched' : OpenFd(f)'
      BY <1>1, <1>2 DEF IInv, PollFits, WatchFits, OpenFd
    <3>2. \A d \in Conns : dead_'[d] /\ fd_'[d] \in Watched' => Removing(d, Before)'
      BY <1>1, <1>2, <1>4 DEF IInv, PollFits, WatchFits
    <3> QED BY <3>1, <3>2 DEF WatchFits
  <2>3. Ended'
    BY <1>1 DEF Ended
  <2>4. ASSUME NEW f \in Fds PROVE CallbackFits(f)'
    <3> PICK k : k = callbacks_[f]
      OBVIOUS 
    <3>1. callbacks_'[f] = k /\ CallbackFits(f)
      BY DEF IInv, PollFits
    <3>2. Removing(k, Inside) => Removing(k, Inside)'
      BY <1>4
    <3>3. k # None => k \in Open' /\ fd_'[k] = f /\ (dead_'[k] => Removing(k, Inside)')
      BY <1>1, <1>2, <3>1, <3>2 DEF CallbackFits
    <3> QED BY <3>1, <3>3 DEF CallbackFits, Removing
  <2> QED BY <2>1, <2>2, <2>3, <2>4 DEF PollFits
<1>6. ASSUME NEW u \in Threads PROVE ThreadFits(u)'
  <2>1. ThreadFits(u)
    BY  DEF IInv
  <2> QED BY <1>1, <1>2, <2>1 DEF ThreadFits, Inside
<1>7. ASSUME NEW d \in Conns PROVE Counted(d)' /\ ConnFits(d)'
  <2>1. Counted(d)'
    BY <1>1, CountSame DEF IInv
  <2>2. ConnFits(d)'
    BY <1>1, ConnFrame
  <2> QED BY <2>1, <2>2
<1>8. OwnerFits'
  BY <1>1 DEF IInv, OwnerFits
<1> QED BY <1>3, <1>5, <1>6, <1>7, <1>8 DEF IInv

(* The sets are copied.  A descriptor in them is open, and its connection  *)
(* is dead only if a thread is about to remove it.                         *)
LEMMA SnapshotKeeps ==
  ASSUME IInv, aborted = "no", WaitReadySnapshot, UNCHANGED connVars
  PROVE  IInv'
<1>1. /\ rfds_ \subseteq Fds /\ wfds_ \subseteq Fds /\ pipefd_ \in Nat
      /\ loop \in [at : Places, r : SUBSET Fds, w : SUBSET Fds, cb : Objects \cup {None}]
  BY DEF IInv, Typed, TypeOK, PollTypeOK
<1>2. loop.at = "snapshot" /\ loop.cb = None
  BY DEF IInv, LoopFits, WaitReadySnapshot
<1>3. /\ loop' = [at |-> "select", r |-> rfds_, w |-> wfds_, cb |-> None]
      /\ UNCHANGED <<rfds_, wfds_, callbacks_, pending_change_, pipefd_>>
  BY <1>1, <1>2 DEF WaitReadySnapshot
<1>4. UNCHANGED <<fd_, dead_, pc, on>> /\ Open' = Open
  BY DEF connVars, Open
<1>5. \A f \in rfds_ \cup wfds_ : OpenFd(f)
  BY  DEF IInv, PollFits, WatchFits, Watched
<1>6. LoopFits'
  BY <1>3, <1>4, <1>5 DEF LoopFits, OpenFd
<1>7. ASSUME NEW c \in Conns PROVE DeadFits(c)'
  <2>1. dead_[c] /\ fd_[c] \in rfds_ \cup wfds_ => Removing(c, Before)
    BY  DEF IInv, PollFits, WatchFits, Watched
  <2>2. Removing(c, Before) => Removing(c, Waits)'
    BY <1>4 DEF Removing, Before, Waits
  <2>3. c # None
    BY ConnectionAssumption DEF Conns
  <2> QED BY <1>3, <1>4, <2>1, <2>2, <2>3 DEF DeadFits
<1>8. \A u \in Threads : pc[u] = "removed" => fd_[on[u]] \notin loop'.r \cup loop'.w
  BY <1>3 DEF IInv, ThreadFits, Watched
<1> QED BY <1>1, <1>3, <1>6, <1>7, <1>8, LoopStep DEF Places

(* The places NextList leads to.                                           *)
LEMMA NextPlace ==
  ASSUME NEW r, NEW w
  PROVE  /\ NextList(r, w) \in {"read", "write", "top"}
         /\ NextList(r, w) \in {"write", "top"} => r = {}
         /\ NextList(r, w) = "top" => w = {}
  BY DEF NextList

(* A descriptor that was selected and is readable.                         *)
LEMMA SelectKeeps ==
  ASSUME IInv, aborted = "no", NEW W, Select(W)
  PROVE  IInv'
<1> DEFINE R == {fd \in loop.r : Readable(fd)}
<1>1. /\ pipefd_ \in Nat
      /\ loop \in [at : Places, r : SUBSET Fds, w : SUBSET Fds, cb : Objects \cup {None}]
  BY DEF IInv, Typed, TypeOK, PollTypeOK
<1>2. loop.at = "select" /\ loop.cb = None /\ W \subseteq loop.w
  BY DEF IInv, LoopFits, Select, WaitReadySelect
<1> PICK p : p = NextList(R, W)
  OBVIOUS 
<1>3. /\ loop' = [at |-> p, r |-> R, w |-> W, cb |-> None]
      /\ UNCHANGED <<rfds_, wfds_, callbacks_, pending_change_>>
  BY <1>1, <1>2 DEF Select, WaitReadySelect
<1>4. pipefd_' \in Nat
  BY <1>1, SMT DEF Select, WaitReadySelect
<1>5. UNCHANGED <<fd_, dead_, pc, on, inq, net>> /\ Open' = Open /\ UNCHANGED connVars
  BY DEF connVars, Open, Select
<1>6. /\ p \in {"read", "write", "top"}
      /\ (p \in {"write", "top"} => R = {}) /\ (p = "top" => W = {})
  BY NextPlace
<1>7. LoopFits'
  <2>1. \A f \in R : Readable(f)'
    BY <1>5 DEF Readable
  <2> QED BY <1>3, <1>6, <2>1 DEF LoopFits
<1>8. ASSUME NEW c \in Conns PROVE DeadFits(c)'
  <2>1. dead_[c] /\ fd_[c] \in R => Removing(c, Waits)
    BY  DEF IInv, PollFits, DeadFits
  <2>2. Removing(c, Waits) => Removing(c, Waits)'
    BY <1>5 DEF Removing
  <2>3. c # None
    BY ConnectionAssumption DEF Conns
  <2>4. loop'.r = R /\ loop'.at # "select" /\ loop'.cb = None
    BY <1>3, <1>6
  <2> QED BY <1>5, <2>1, <2>2, <2>3, <2>4 DEF DeadFits
<1>9. \A u \in Threads : pc[u] = "removed" => fd_[on[u]] \notin loop'.r \cup loop'.w
  BY <1>2, <1>3 DEF IInv, ThreadFits
<1>10. loop' \in [at : Places, r : SUBSET Fds, w : SUBSET Fds, cb : Objects \cup {None}]
  <2>1. R \subseteq Fds /\ W \subseteq Fds
    BY <1>1, <1>2
  <2> HIDE DEF R
  <2> QED BY <1>3, <1>6, <2>1 DEF Places
<1> QED BY <1>3, <1>4, <1>5, <1>7, <1>8, <1>9, <1>10, LoopStep

(* Whom the loop finds registered for a descriptor that is ready: an open  *)
(* connection, which if it is dead is still waited for.                    *)
LEMMA Registered ==
  ASSUME IInv, NEW fd \in Fds, fd \in loop.r \cup loop.w, callbacks_[fd] # None
  PROVE  /\ callbacks_[fd] \in Open /\ fd_[callbacks_[fd]] = fd
         /\ dead_[callbacks_[fd]] => Removing(callbacks_[fd], Waits)
<1> PICK k : k = callbacks_[fd]
  OBVIOUS
<1>1. k \in Open /\ fd_[k] = fd /\ (dead_[k] => Removing(k, Inside))
  BY DEF IInv, PollFits, CallbackFits
<1>2. \A u \in Threads : on[u] = k => pc[u] # "removed"
  BY <1>1, SMT DEF IInv, ThreadFits
<1> QED BY <1>1, <1>2 DEF Removing, Waits, Inside

(* The next descriptor to read from.                                       *)
LEMMA PickReadableKeeps ==
  ASSUME IInv, aborted = "no", NEW fd \in Fds, PickReadable(fd), UNCHANGED connVars
  PROVE  IInv'
<1> PICK k : k = callbacks_[fd]
  OBVIOUS
<1> PICK r : r = loop.r \ {fd}
  OBVIOUS 
<1> PICK w : w = loop.w
  OBVIOUS
<1> PICK p : p = IF k # None THEN "read_cb" ELSE NextList(r, w)
  OBVIOUS 
<1>1. /\ pipefd_ \in Nat /\ k \in Objects \cup {None}
      /\ loop \in [at : Places, r : SUBSET Fds, w : SUBSET Fds, cb : Objects \cup {None}]
  BY DEF IInv, Typed, TypeOK, PollTypeOK
<1>2. loop.at = "read" /\ fd \in loop.r /\ \A f \in loop.r : Readable(f)
  BY DEF IInv, LoopFits, PickReadable
<1>3. /\ loop' = [at |-> p, r |-> r, w |-> w, cb |-> k]
      /\ UNCHANGED <<rfds_, wfds_, callbacks_, pending_change_, pipefd_>>
  BY <1>1, <1>2 DEF PickReadable
<1>4. UNCHANGED <<fd_, dead_, pc, on, inq, net>> /\ Open' = Open
  BY  DEF connVars, Open
<1>5. /\ k # None => p = "read_cb"
      /\ k = None => /\ p \in {"read", "write", "top"}
                     /\ (p \in {"write", "top"} => r = {}) /\ (p = "top" => w = {})
  BY NextPlace
<1>6. k # None => k \in Open /\ fd_[k] = fd /\ (dead_[k] => Removing(k, Waits))
  BY <1>2, Registered
<1>7. LoopFits'
  <2>1. \A f \in r : Readable(f)'
    BY <1>2, <1>4 DEF Readable
  <2>2. k # None => inq[k] > 0 \/ net[k] # "up"
    <3> SUFFICES ASSUME k # None PROVE inq[k] > 0 \/ net[k] # "up"
      OBVIOUS
    <3>1. PICK c \in Open : fd_[c] = fd /\ (inq[c] > 0 \/ net[c] # "up")
      BY <1>2 DEF Readable
    <3>2. c = k
      BY <1>6, <3>1 DEF IInv, PollFits, FdsDiffer
    <3> QED BY <3>1, <3>2
  <2>3. fd \notin r
    OBVIOUS
  <2> QED BY <1>3, <1>4, <1>5, <1>6, <2>1, <2>2, <2>3 DEF LoopFits
<1>8. ASSUME NEW c \in Conns PROVE DeadFits(c)'
  <2>1. dead_[c] /\ fd_[c] \in r => Removing(c, Waits)
    BY  DEF IInv, PollFits, DeadFits
  <2>2. Removing(c, Waits) => Removing(c, Waits)'
    BY <1>4 DEF Removing
  <2>3. c # None
    BY ConnectionAssumption DEF Conns
  <2>4. loop'.r = r /\ loop'.at # "select" /\ loop'.cb = k
    BY <1>3, <1>5
  <2> QED BY <1>4, <1>6, <2>1, <2>2, <2>3, <2>4 DEF DeadFits
<1>9. \A u \in Threads : pc[u] = "removed" => fd_[on[u]] \notin loop'.r \cup loop'.w
  BY <1>3 DEF IInv, ThreadFits
<1>10. loop' \in [at : Places, r : SUBSET Fds, w : SUBSET Fds, cb : Objects \cup {None}]
  <2>1. r \subseteq Fds /\ w \subseteq Fds
    BY <1>1
  <2> QED BY <1>1, <1>3, <1>5, <2>1 DEF Places
<1> QED BY <1>1, <1>3, <1>7, <1>8, <1>9, <1>10, LoopStep

(* The next descriptor to write to.                                        *)
LEMMA PickWritableKeeps ==
  ASSUME IInv, aborted = "no", NEW fd \in Fds, PickWritable(fd), UNCHANGED connVars
  PROVE  IInv'
<1> PICK k : k = callbacks_[fd]
  OBVIOUS
<1> PICK w : w = loop.w \ {fd}
  OBVIOUS 
<1> PICK p : p = IF k # None THEN "write_cb" ELSE NextList({}, w)
  OBVIOUS
<1>1. /\ pipefd_ \in Nat /\ k \in Objects \cup {None}
      /\ loop \in [at : Places, r : SUBSET Fds, w : SUBSET Fds, cb : Objects \cup {None}]
  BY DEF IInv, Typed, TypeOK, PollTypeOK
<1>2. loop.at = "write" /\ fd \in loop.w /\ loop.r = {}
  BY DEF IInv, LoopFits, PickWritable
<1>3. /\ loop' = [at |-> p, r |-> {}, w |-> w, cb |-> k]
      /\ UNCHANGED <<rfds_, wfds_, callbacks_, pending_change_, pipefd_>>
  BY <1>1, <1>2 DEF PickWritable
<1>4. UNCHANGED <<fd_, dead_, pc, on>> /\ Open' = Open
  BY  DEF connVars, Open
<1>5. /\ k # None => p = "write_cb"
      /\ k = None => p \in {"write", "top"} /\ (p = "top" => w = {})
  BY NextPlace DEF NextList
<1>6. k # None => k \in Open /\ fd_[k] = fd /\ (dead_[k] => Removing(k, Waits))
  BY <1>2, Registered
<1>7. LoopFits'
  BY <1>3, <1>4, <1>5, <1>6 DEF LoopFits
<1>8. ASSUME NEW c \in Conns PROVE DeadFits(c)'
  <2>1. Removing(c, Waits) => Removing(c, Waits)'
    BY <1>4 DEF Removing
  <2>2. c # None
    BY ConnectionAssumption DEF Conns
  <2>3. loop'.r = {} /\ loop'.at # "select" /\ loop'.cb = k
    BY <1>3, <1>5
  <2> QED BY <1>4, <1>6, <2>1, <2>2, <2>3 DEF DeadFits
<1>9. \A u \in Threads : pc[u] = "removed" => fd_[on[u]] \notin loop'.r \cup loop'.w
  BY <1>3 DEF IInv, ThreadFits
<1>10. loop' \in [at : Places, r : SUBSET Fds, w : SUBSET Fds, cb : Objects \cup {None}]
  <2>1. w \subseteq Fds
    BY <1>1
  <2> QED BY <1>1, <1>3, <1>5, <2>1 DEF Places
<1> QED BY <1>1, <1>3, <1>7, <1>8, <1>9, <1>10, LoopStep
-----------------------------------------------------------------------------
(* The callbacks.                                                          *)

(* A callback returns.  It takes descriptors and callbacks away, wakes     *)
(* senders, and if its connection dies nothing leads to that any more.     *)
LEMMA CallbackStep ==
  ASSUME IInv, aborted = "no", aborted' = "no", loop.cb # None, CallbackReturns,
         UNCHANGED <<fd_, on, refno_, kept, net, pending_change_>>,
         Watched' \subseteq Watched,
         \A f \in Fds : callbacks_'[f] \in {callbacks_[f], None},
         \A u \in Threads : pc'[u] = pc[u] \/ (pc[u] = "complete" /\ pc'[u] = "completed"),
         \A d \in Conns : dead_[d] => dead_'[d],
         \A d \in Conns : dead_'[d] /\ ~dead_[d] =>
            d \in Open /\ fd_[d] \notin Watched' \cup loop.r /\ callbacks_'[fd_[d]] = None,
         \A d \in Conns : wpdu_'[d].buf = wpdu_[d].buf,
         \A d \in Conns : inq'[d] = inq[d] \/ fd_[d] \notin loop.r
  PROVE  /\ LoopFits' /\ PollFits' /\ OwnerFits'
         /\ \A t \in Threads : ThreadFits(t)'
         /\ \A c \in Conns : Counted(c)' /\ ConnFits(c)'
<1> PICK r : r = loop.r
  OBVIOUS 
<1> PICK w : w = loop.w
  OBVIOUS
<1> PICK p : p = NextList(r, w)
  OBVIOUS
<1>0. loop \in [at : Places, r : SUBSET Fds, w : SUBSET Fds, cb : Objects \cup {None}]
  BY DEF IInv, Typed, TypeOK, PollTypeOK
<1>1. loop' = [at |-> p, r |-> r, w |-> w, cb |-> None]
  BY <1>0 DEF CallbackReturns
<1>2. /\ p \in {"read", "write", "top"}
      /\ (p \in {"write", "top"} => r = {}) /\ (p = "top" => w = {})
  BY NextPlace, SMT
<1>3. Open' = Open
  BY DEF Open
<1>4. LoopFits'
  <2>1. \A f \in r : Readable(f)
    BY DEF IInv, LoopFits
  <2>2. ASSUME NEW f \in r PROVE Readable(f)'
    <3>1. PICK d \in Open : fd_[d] = f /\ (inq[d] > 0 \/ net[d] # "up")
      BY <2>1, <2>2 DEF Readable
    <3>2. d \in Conns /\ inq'[d] = inq[d]
      BY <2>2, <3>1 DEF Open
    <3> QED BY <1>3, <3>1, <3>2 DEF Readable
  <2> QED BY <1>1, <1>2, <2>2 DEF LoopFits
<1>5. \A d, P : P \subseteq Inside /\ Removing(d, P) => Removing(d, P)'
  <2>1. Stay
    BY DEF Stay, Inside
  <2> QED BY <2>1, StayRemoving
<1>6. PollFits'
  <2>1. FdsDiffer'
    BY <1>3, SMT DEF IInv, PollFits, FdsDiffer
  <2>2. WatchFits'
    <3>1. \A f \in Watched' : OpenFd(f)'
      BY <1>3 DEF IInv, PollFits, WatchFits, OpenFd
    <3>2. \A d \in Conns : dead_'[d] /\ fd_'[d] \in Watched' => Removing(d, Before)'
      <4>1. \A d \in Conns : dead_'[d] /\ fd_[d] \in Watched' => dead_[d] /\ fd_[d] \in Watched
        OBVIOUS
      <4>2. \A d \in Conns : dead_[d] /\ fd_[d] \in Watched => Removing(d, Before)
        BY DEF IInv, PollFits, WatchFits
      <4>3. Before \subseteq Inside
        BY DEF Before, Inside
      <4> QED BY <1>5, <4>1, <4>2, <4>3
    <3> QED BY <3>1, <3>2 DEF WatchFits
  <2>3. Ended'
    BY DEF Ended
  <2>4. ASSUME NEW d \in Conns PROVE DeadFits(d)'
    <3>1. dead_'[d] /\ fd_[d] \in r => dead_[d]
      OBVIOUS
    <3>2. dead_[d] /\ fd_[d] \in r => Removing(d, Waits)
      BY DEF IInv, PollFits, DeadFits
    <3>3. Removing(d, Waits) => Removing(d, Waits)'
      BY <1>5 DEF Waits, Inside
    <3>4. d # None
      BY ConnectionAssumption DEF Conns
    <3>5. loop'.at # "select" /\ loop'.r = r /\ loop'.cb = None
      BY <1>1, <1>2
    <3> QED BY <3>1, <3>2, <3>3, <3>4, <3>5 DEF DeadFits
  <2>5. ASSUME NEW f \in Fds PROVE CallbackFits(f)'
    <3> PICK k : k = callbacks_'[f]
      OBVIOUS
    <3> SUFFICES ASSUME k # None PROVE CallbackFits(f)'
      BY DEF CallbackFits
    <3>1. callbacks_[f] = k /\ CallbackFits(f)
      BY DEF IInv, PollFits
    <3>2. k \in Conns /\ k \in Open /\ fd_[k] = f
      BY <3>1 DEF CallbackFits, Open
    <3>3. dead_'[k] => dead_[k]
      BY <3>2, SMT
    <3>4. Removing(k, Inside) => Removing(k, Inside)'
      BY <1>5
    <3>5. k \in Open' /\ fd_'[k] = f /\ (dead_'[k] => Removing(k, Inside)')
      BY <1>3, <3>1, <3>2, <3>3, <3>4, SMTT(20) DEF CallbackFits
    <3> QED BY <3>5 DEF CallbackFits, Removing
  <2> QED BY <2>1, <2>2, <2>3, <2>4, <2>5, ZenonT(40) DEF PollFits
<1>7. ASSUME NEW u \in Threads PROVE ThreadFits(u)'
  <2>1. ThreadFits(u)
    BY DEF IInv
  <2>2. pc[u] \in Inside => on[u] \in Conns
    BY <2>1 DEF ThreadFits, Inside, Open
  <2>3. loop'.r = r /\ loop'.w = w
    BY <1>1
  <2>4. CASE pc'[u] = pc[u]
    BY <1>3, <2>1, <2>2, <2>3, <2>4, SMTT(20) DEF ThreadFits
  <2>5. CASE pc[u] = "complete" /\ pc'[u] = "completed"
    BY <1>3, <2>1, <2>5 DEF ThreadFits, Inside
  <2> QED BY <2>4, <2>5
<1>8. ASSUME NEW d \in Conns PROVE Counted(d)' /\ ConnFits(d)'
  <2>1. Counted(d)'
    BY CountSame DEF IInv
  <2>2. ConnFits(d) /\ wpdu_[d].buf \in Senders \cup {None}
    BY DEF IInv, Typed, TypeOK
  <2>3. \A s \in Senders : pc[s] \in Writes => pc'[s] \in Writes
    BY DEF Threads, Writes, Inside
  <2>4. ConnFits(d)'
    BY <1>3, <2>2, <2>3 DEF ConnFits
  <2> QED BY <2>1, <2>4
<1>9. OwnerFits'
  BY DEF IInv, OwnerFits, Threads, Inside
<1> QED BY <1>4, <1>6, <1>7, <1>8, <1>9

(* What a callback changes has its type.                                   *)
LEMMA CallbackTyped ==
  ASSUME IInv, UNCHANGED <<fd_, made, refno_, kept, net, arrived, on, sends, closed, aborted>>,
         PollTypeOK', dead_' \in [Conns -> BOOLEAN], wpdu_' \in [Conns -> PduType],
         rpdu_' \in [Conns -> 0..2], errno_' \in BOOLEAN, pc' \in [Threads -> PCs],
         inq' \in [Conns -> 0..MaxIn], \A c \in Conns : inq'[c] <= inq[c]
  PROVE  Typed'
<1>1. TypeOK'
  BY DEF IInv, Typed, TypeOK, PduType
<1>2. Open' = Open
  BY DEF Open
<1>3. \A c \in Conns : inq'[c] <= arrived
  BY SMT DEF IInv, Typed, TypeOK
<1> QED BY <1>1, <1>2, <1>3 DEF IInv, Typed

(* What del_callback does to the sets of the poll manager.                 *)
LEMMA DelCallback ==
  ASSUME IInv, NEW fd \in Fds, NEW flag \in {CB_WRONLY, CB_RDWR}, del_callback(fd, flag)
  PROVE  /\ Watched' \subseteq Watched /\ UNCHANGED pending_change_
         /\ flag = CB_RDWR => fd \notin Watched' /\ callbacks_'[fd] = None
         /\ \A f \in Fds : callbacks_'[f] \in {callbacks_[f], None}
         /\ rfds_' \subseteq Fds /\ wfds_' \subseteq Fds /\ pipefd_' \in Nat
         /\ callbacks_' \in [Fds -> Objects \cup {None}]
<1>1. /\ rfds_ \subseteq Fds /\ wfds_ \subseteq Fds /\ pipefd_ \in Nat
      /\ callbacks_ \in [Fds -> Objects \cup {None}]
  BY DEF IInv, Typed, TypeOK, PollTypeOK
<1>2. /\ rfds_' \subseteq rfds_ /\ wfds_' \subseteq wfds_ /\ pipefd_' \in Nat
      /\ flag = CB_RDWR => fd \notin rfds_' /\ fd \notin wfds_'
  BY <1>1, SMT DEF del_callback, unwatch_fd, CB_RDWR, CB_WRONLY, CB_RDONLY
<1>3. callbacks_' = IF fd \in rfds_' \cup wfds_' THEN callbacks_
                    ELSE [callbacks_ EXCEPT ![fd] = None]
  BY DEF del_callback
<1>4. UNCHANGED pending_change_
  BY DEF del_callback
<1>5. \A f \in Fds : callbacks_'[f] \in {callbacks_[f], None}
  BY <1>1, <1>3
<1>6. callbacks_' \in [Fds -> Objects \cup {None}]
  BY <1>1, <1>3
<1>7. flag = CB_RDWR => callbacks_'[fd] = None
  BY <1>1, <1>2, <1>3
<1> QED BY <1>1, <1>2, <1>4, <1>5, <1>6, <1>7 DEF Watched

(* The loop goes on after a callback.                                      *)
LEMMA ReturnTyped ==
  ASSUME IInv, CallbackReturns, UNCHANGED pending_change_,
         rfds_' \subseteq Fds, wfds_' \subseteq Fds, pipefd_' \in Nat,
         callbacks_' \in [Fds -> Objects \cup {None}]
  PROVE  PollTypeOK'
<1> PICK p : p = NextList(loop.r, loop.w)
  OBVIOUS
<1>1. p \in Places
  BY NextPlace, SMT DEF Places
<1>2. /\ pending_change_ \in BOOLEAN
      /\ loop \in [at : Places, r : SUBSET Fds, w : SUBSET Fds, cb : Objects \cup {None}]
  BY DEF IInv, Typed, TypeOK, PollTypeOK
<1>3. loop' \in [at : Places, r : SUBSET Fds, w : SUBSET Fds, cb : Objects \cup {None}]
  BY <1>1, <1>2 DEF CallbackReturns
<1> QED BY <1>2, <1>3 DEF PollTypeOK

(* The waiting sender is told.                                             *)
LEMMA SignalTyped ==
  ASSUME IInv, NEW c, SignalComplete(c) \/ UNCHANGED pc
  PROVE  /\ pc' \in [Threads -> PCs]
         /\ \A u \in Threads : pc'[u] = pc[u] \/ (pc[u] = "complete" /\ pc'[u] = "completed")
<1>1. pc \in [Threads -> PCs]
  BY DEF IInv, Typed, TypeOK
<1> QED BY <1>1 DEF SignalComplete, PCs
-----------------------------------------------------------------------------
(* A callback has an open connection, with a descriptor.                   *)
LEMMA Called ==
  ASSUME IInv, NEW c \in Conns, NEW at, InCallback(at, c)
  PROVE  /\ loop.at = at /\ loop.cb = c /\ c # None /\ c \in Open /\ fd_[c] \in Fds
<1>1. loop.at = at /\ loop.cb = c /\ c # None
  BY ConnectionAssumption DEF InCallback, Conns
<1>2. c \in Open
  BY <1>1 DEF IInv, LoopFits
<1>3. fd_ \in [Conns -> Fds \cup {None}]
  BY DEF IInv, Typed, TypeOK
<1> QED BY <1>1, <1>2, <1>3 DEF Open

(* What is there before a callback.                                        *)
LEMMA TypesNow ==
  ASSUME IInv
  PROVE  /\ dead_ \in [Conns -> BOOLEAN] /\ wpdu_ \in [Conns -> PduType]
         /\ rpdu_ \in [Conns -> 0..2] /\ errno_ \in BOOLEAN /\ inq \in [Conns -> 0..MaxIn]
         /\ net \in [Conns -> {"up", "closed", "shut"}] /\ pc \in [Threads -> PCs]
         /\ rfds_ \subseteq Fds /\ wfds_ \subseteq Fds /\ pipefd_ \in Nat
         /\ callbacks_ \in [Fds -> Objects \cup {None}]
  BY DEF IInv, Typed, TypeOK, PollTypeOK, PduType

(* write_cb meets a dead connection.  Then a thread that killed it waits   *)
(* for the loop to come round.                                             *)
LEMMA WriteAborts ==
  ASSUME IInv, NEW c \in Conns, InCallback("write_cb", c), dead_[c], Abort("write_cb"),
         UNCHANGED <<pollVars, fd_, made, dead_, refno_, wpdu_, rpdu_, kept, net, inq, arrived,
                     errno_, pc, on, sends, closed>>
  PROVE  IInv'
<1>1. loop.cb = c /\ c # None /\ aborted' = "write_cb"
  BY Called DEF Abort
<1>2. UNCHANGED <<rfds_, wfds_, callbacks_, pending_change_, pipefd_, loop>>
  BY DEF pollVars
<1>3. Open' = Open /\ Watched' = Watched
  BY <1>2 DEF Open, Watched
<1>4. Typed'
  <2>1. PollTypeOK'
    BY <1>2 DEF IInv, Typed, TypeOK, PollTypeOK
  <2>2. TypeOK'
    BY <1>1, <2>1 DEF IInv, Typed, TypeOK
  <2> QED BY <1>3, <2>2 DEF IInv, Typed
<1>5. LoopFits'
  BY <1>2, LoopFrame
<1>6. PollFits'
  <2>1. Removing(c, Waits)
    BY <1>1 DEF IInv, PollFits, DeadFits
  <2>2. Ended'
    BY <1>1, <1>2, <2>1 DEF Ended, Removing
  <2>3. FdsDiffer' /\ WatchFits'
    BY <1>2, <1>3 DEF IInv, PollFits, FdsDiffer, WatchFits, OpenFd, Removing
  <2>4. \A d \in Conns : DeadFits(d)'
    BY <1>2 DEF IInv, PollFits, DeadFits, Removing
  <2>5. \A f \in Fds : CallbackFits(f)'
    BY <1>2, <1>3 DEF IInv, PollFits, CallbackFits, Removing
  <2> QED BY <2>2, <2>3, <2>4, <2>5 DEF PollFits
<1>7. \A u \in Threads : ThreadFits(u)'
  BY <1>2, ThreadFrame
<1>8. \A d \in Conns : Counted(d)' /\ ConnFits(d)'
  BY CountSame, ConnFrame DEF IInv
<1>9. OwnerFits'
  BY DEF IInv, OwnerFits
<1> QED BY <1>4, <1>5, <1>6, <1>7, <1>8, <1>9 DEF IInv

(* write_cb has nothing to write.                                          *)
LEMMA WriteIdles ==
  ASSUME IInv, aborted = "no", NEW c \in Conns, InCallback("write_cb", c),
         del_callback(fd_[c], CB_WRONLY), CallbackReturns,
         UNCHANGED <<fd_, made, dead_, refno_, wpdu_, rpdu_, kept, net, inq, arrived, errno_,
                     pc, on, sends, closed, aborted>>
  PROVE  IInv'
<1>1. loop.cb # None /\ fd_[c] \in Fds
  BY Called
<1>2. /\ Watched' \subseteq Watched /\ UNCHANGED pending_change_
      /\ \A f \in Fds : callbacks_'[f] \in {callbacks_[f], None}
      /\ rfds_' \subseteq Fds /\ wfds_' \subseteq Fds /\ pipefd_' \in Nat
      /\ callbacks_' \in [Fds -> Objects \cup {None}]
  BY <1>1, DelCallback
<1>3. Typed'
  <2>1. PollTypeOK'
    BY <1>2, ReturnTyped
  <2>2. \A d \in Conns : inq'[d] <= inq[d]
    BY ConnectionAssumption, TypesNow, SMTT(20)
  <2> QED BY <2>1, <2>2, TypesNow, CallbackTyped
<1>4. /\ LoopFits' /\ PollFits' /\ OwnerFits'
      /\ \A t \in Threads : ThreadFits(t)'
      /\ \A d \in Conns : Counted(d)' /\ ConnFits(d)'
  BY <1>1, <1>2, CallbackStep
<1> QED BY <1>3, <1>4 DEF IInv

(* write_cb writes on, or finds the connection dead and unregisters it.    *)
LEMMA WriteGoes ==
  ASSUME IInv, aborted = "no", NEW c \in Conns, InCallback("write_cb", c), ~dead_[c],
         NEW n \in writepdu(net[c], wpdu_[c].solong),
         wpdu_' = [wpdu_ EXCEPT ![c] = PduAfter(@.buf, n)],
         errno_' = IF n = -1 THEN FALSE ELSE errno_ \/ (n = wpdu_[c].solong /\ n < PduSize),
         IF n = -1 THEN del_callback(fd_[c], CB_RDWR) /\ Die(c)
         ELSE UNCHANGED <<rfds_, wfds_, callbacks_, pending_change_, pipefd_, dead_>>,
         IF n \in {-1, PduSize} THEN SignalComplete(c) ELSE UNCHANGED pc,
         CallbackReturns,
         UNCHANGED <<fd_, made, refno_, rpdu_, kept, net, inq, arrived, on, sends, closed,
                     aborted>>
  PROVE  IInv'
<1>1. loop.cb # None /\ fd_[c] \in Fds /\ loop.r = {} /\ c \in Open
  BY Called DEF IInv, LoopFits
<1>2. /\ Watched' \subseteq Watched /\ UNCHANGED pending_change_
      /\ \A f \in Fds : callbacks_'[f] \in {callbacks_[f], None}
      /\ rfds_' \subseteq Fds /\ wfds_' \subseteq Fds /\ pipefd_' \in Nat
      /\ callbacks_' \in [Fds -> Objects \cup {None}]
      /\ n = -1 => fd_[c] \notin Watched' /\ callbacks_'[fd_[c]] = None
  <2>1. CASE n = -1
    BY <1>1, <2>1, DelCallback
  <2>2. CASE n # -1
    BY <2>2, TypesNow DEF Watched
  <2> QED BY <2>1, <2>2
<1>3. /\ dead_' \in [Conns -> BOOLEAN]
      /\ \A d \in Conns : dead_[d] => dead_'[d]
      /\ \A d \in Conns : dead_'[d] /\ ~dead_[d] => d = c /\ n = -1
  BY TypesNow DEF Die
<1>4. /\ wpdu_' \in [Conns -> PduType]
      /\ \A d \in Conns : wpdu_'[d].buf = wpdu_[d].buf
  <2>1. /\ wpdu_ \in [Conns -> PduType] /\ wpdu_[c].buf \in Senders \cup {None}
        /\ wpdu_[c].solong \in -1..PduSize
    BY TypesNow DEF PduType
  <2>2. n \in -1..PduSize
    BY <2>1, WriteTyped
  <2>3. PduAfter(wpdu_[c].buf, n) \in PduType
    BY <2>1, <2>2, PduTyped
  <2>4. PduAfter(wpdu_[c].buf, n).buf = wpdu_[c].buf
    BY DEF PduAfter
  <2>5. wpdu_' = [wpdu_ EXCEPT ![c] = PduAfter(wpdu_[c].buf, n)]
    OBVIOUS
  <2> QED BY <2>1, <2>3, <2>4, <2>5
<1>5. errno_' \in BOOLEAN
  BY TypesNow
<1>6. /\ pc' \in [Threads -> PCs]
      /\ \A u \in Threads : pc'[u] = pc[u] \/ (pc[u] = "complete" /\ pc'[u] = "completed")
  BY SignalTyped
<1>7. Typed'
  <2>1. PollTypeOK'
    BY <1>2, ReturnTyped
  <2>2. \A d \in Conns : inq'[d] <= inq[d]
    BY ConnectionAssumption, TypesNow, SMTT(20)
  <2> QED BY <1>3, <1>4, <1>5, <1>6, <2>1, <2>2, TypesNow, CallbackTyped
<1>8. \A d \in Conns : dead_'[d] /\ ~dead_[d] =>
        d \in Open /\ fd_[d] \notin Watched' \cup loop.r /\ callbacks_'[fd_[d]] = None
  BY <1>1, <1>2, <1>3
<1>9. /\ LoopFits' /\ PollFits' /\ OwnerFits'
      /\ \A t \in Threads : ThreadFits(t)'
      /\ \A d \in Conns : Counted(d)' /\ ConnFits(d)'
  BY <1>1, <1>2, <1>3, <1>4, <1>6, <1>8, CallbackStep
<1> QED BY <1>7, <1>9 DEF IInv

(* write_cb.                                                               *)
LEMMA WriteCbKeeps ==
  ASSUME IInv, aborted = "no", NEW c \in Conns, write_cb(c)
  PROVE  IInv'
<1>0. /\ InCallback("write_cb", c)
      /\ UNCHANGED <<fd_, made, refno_, rpdu_, kept, net, inq, arrived, on, sends, closed>>
  BY DEF write_cb
<1>1. CASE /\ dead_[c] /\ Abort("write_cb")
           /\ UNCHANGED <<pollVars, dead_, wpdu_, errno_, pc>>
  BY <1>0, <1>1, WriteAborts
<1>2. CASE /\ ~dead_[c] /\ wpdu_[c].sz = 0 /\ del_callback(fd_[c], CB_WRONLY)
           /\ CallbackReturns /\ UNCHANGED <<dead_, wpdu_, errno_, pc, aborted>>
  BY <1>0, <1>2, WriteIdles
<1>3. CASE /\ ~dead_[c] /\ wpdu_[c].sz # 0
           /\ \E n \in writepdu(net[c], wpdu_[c].solong) :
                /\ wpdu_' = [wpdu_ EXCEPT ![c] = PduAfter(@.buf, n)]
                /\ errno_' = IF n = -1 THEN FALSE
                             ELSE errno_ \/ (n = wpdu_[c].solong /\ n < PduSize)
                /\ IF n = -1
                   THEN del_callback(fd_[c], CB_RDWR) /\ Die(c)
                   ELSE UNCHANGED <<rfds_, wfds_, callbacks_, pending_change_, pipefd_, dead_>>
                /\ IF n \in {-1, PduSize} THEN SignalComplete(c) ELSE UNCHANGED pc
           /\ CallbackReturns /\ UNCHANGED aborted
  BY <1>0, <1>3, WriteGoes
<1> QED BY <1>1, <1>2, <1>3 DEF write_cb
-----------------------------------------------------------------------------
(* What read_cb gets of a PDU.                                             *)
ReadTaken(c) ==
  IF rpdu_[c] = 2 THEN {Read(2, inq[c], errno_, TRUE)}
  ELSE readpdu(net[c], rpdu_[c], inq[c], errno_)

(* It has its type, and it takes units, never adds one.                    *)
LEMMA ReadTyped ==
  ASSUME IInv, NEW c \in Conns, NEW x \in ReadTaken(c)
  PROVE  /\ x.rpdu \in 0..2 /\ x.inq \in 0..MaxIn /\ x.inq <= inq[c]
         /\ x.errno \in BOOLEAN
<1> PICK q : q = inq[c]
  OBVIOUS
<1> PICK e : e = errno_
  OBVIOUS
<1>0. q \in 0..MaxIn /\ e \in BOOLEAN /\ MaxIn \in Nat /\ inq[c] = q /\ errno_ = e
  BY TypesNow, ConnectionAssumption
<1>1. ASSUME NEW m \in 0..q, x \in ReadRest(net[c], m, e)
      PROVE  /\ x.rpdu \in 0..2 /\ x.inq \in 0..m /\ x.errno \in BOOLEAN
  <2>1. CASE m > 0
    <3>1. x = Read(2, m - 1, e, TRUE)
      BY <1>1, <2>1 DEF ReadRest
    <3> QED BY <1>0, <2>1, <3>1, SMTT(20) DEF Read
  <2>2. CASE ~(m > 0)
    <3>1. \/ x = Read(1, 0, TRUE, TRUE) \/ x = Read(0, 0, FALSE, FALSE)
          \/ x = Read(1, 0, e, TRUE) \/ x = Read(0, 0, e, FALSE)
      BY <1>1, <2>2 DEF ReadRest
    <3>2. 0 \in 0..m
      BY <1>0, SMTT(20)
    <3>3. CASE x = Read(1, 0, TRUE, TRUE)
      BY <3>2, <3>3, SMTT(20) DEF Read
    <3>4. CASE x = Read(0, 0, FALSE, FALSE)
      BY <3>2, <3>4, SMTT(20) DEF Read
    <3>5. CASE x = Read(1, 0, e, TRUE)
      BY <1>0, <3>2, <3>5, SMTT(20) DEF Read
    <3>6. CASE x = Read(0, 0, e, FALSE)
      BY <1>0, <3>2, <3>6, SMTT(20) DEF Read
    <3> QED BY <3>1, <3>3, <3>4, <3>5, <3>6
  <2> QED BY <2>1, <2>2
<1>2. CASE rpdu_[c] = 2
  BY <1>0, <1>2, SMTT(20) DEF ReadTaken, Read
<1>3. CASE rpdu_[c] = 1
  <2>1. x \in ReadRest(net[c], q, e)
    BY <1>0, <1>3, SMTT(20) DEF ReadTaken, readpdu
  <2> QED BY <1>0, <1>1, <2>1, SMTT(20)
<1>4. CASE rpdu_[c] \notin {1, 2} /\ q = 0
  <2>1. x = Read(0, 0, e, FALSE) \/ x = Read(0, 0, FALSE, FALSE)
    BY <1>0, <1>4 DEF ReadTaken, readpdu
  <2>2. CASE x = Read(0, 0, e, FALSE)
    BY <1>0, <1>4, <2>2, SMTT(20) DEF Read
  <2>3. CASE x = Read(0, 0, FALSE, FALSE)
    BY <1>0, <1>4, <2>3, SMTT(20) DEF Read
  <2> QED BY <2>1, <2>2, <2>3
<1>5. CASE rpdu_[c] \notin {1, 2} /\ q # 0
  <2>1. x \in ReadRest(net[c], q - 1, e) \/ x = Read(0, q - 1, e, FALSE)
    BY <1>0, <1>5 DEF ReadTaken, readpdu
  <2>2. q - 1 \in 0..q
    BY <1>0, <1>5, SMTT(20)
  <2>3. CASE x \in ReadRest(net[c], q - 1, e)
    BY <1>0, <1>1, <2>2, <2>3, SMTT(20)
  <2>4. CASE x = Read(0, q - 1, e, FALSE)
    BY <1>0, <2>2, <2>4, SMTT(20) DEF Read
  <2> QED BY <2>1, <2>3, <2>4
<1> QED BY <1>2, <1>3, <1>4, <1>5

(* read_cb returns at once for a dead connection.                          *)
LEMMA ReadSkips ==
  ASSUME IInv, aborted = "no", NEW c \in Conns, InCallback("read_cb", c), CallbackReturns,
         UNCHANGED <<rfds_, wfds_, callbacks_, pending_change_, pipefd_, fd_, made, dead_,
                     refno_, wpdu_, rpdu_, kept, net, inq, arrived, errno_, pc, on, sends,
                     closed, aborted>>
  PROVE  IInv'
<1>1. loop.cb # None /\ Watched' = Watched
  BY Called DEF Watched
<1>2. Typed'
  <2>1. PollTypeOK'
    BY TypesNow, ReturnTyped
  <2>2. \A d \in Conns : inq'[d] <= inq[d]
    BY ConnectionAssumption, TypesNow, SMTT(20)
  <2> QED BY <2>1, <2>2, TypesNow, CallbackTyped
<1>3. /\ LoopFits' /\ PollFits' /\ OwnerFits'
      /\ \A t \in Threads : ThreadFits(t)'
      /\ \A d \in Conns : Counted(d)' /\ ConnFits(d)'
  BY <1>1, CallbackStep
<1> QED BY <1>2, <1>3 DEF IInv

(* read_cb reads on, or finds the connection dead and unregisters it.      *)
LEMMA ReadGoes ==
  ASSUME IInv, aborted = "no", NEW c \in Conns, InCallback("read_cb", c), ~dead_[c],
         NEW x \in ReadTaken(c),
         inq' = [inq EXCEPT ![c] = x.inq], errno_' = x.errno,
         IF x.ok
         THEN UNCHANGED <<rfds_, wfds_, callbacks_, pending_change_, pipefd_, dead_, pc>>
         ELSE ReadFails(c),
         NEW got_pdu \in BOOLEAN,
         rpdu_' = [rpdu_ EXCEPT ![c] = IF x.rpdu = 2 /\ got_pdu THEN 0 ELSE x.rpdu],
         CallbackReturns,
         UNCHANGED <<fd_, made, refno_, wpdu_, kept, net, arrived, on, sends, closed, aborted>>
  PROVE  IInv'
<1>1. loop.cb # None /\ fd_[c] \in Fds /\ fd_[c] \notin loop.r /\ c \in Open
  BY Called DEF IInv, LoopFits
<1>2. /\ Watched' \subseteq Watched /\ UNCHANGED pending_change_
      /\ \A f \in Fds : callbacks_'[f] \in {callbacks_[f], None}
      /\ rfds_' \subseteq Fds /\ wfds_' \subseteq Fds /\ pipefd_' \in Nat
      /\ callbacks_' \in [Fds -> Objects \cup {None}]
      /\ ~x.ok => fd_[c] \notin Watched' /\ callbacks_'[fd_[c]] = None
  <2>1. CASE ~x.ok
    BY <1>1, <2>1, DelCallback DEF ReadFails
  <2>2. CASE x.ok
    BY <2>2, TypesNow DEF Watched
  <2> QED BY <2>1, <2>2
<1>3. /\ dead_' \in [Conns -> BOOLEAN]
      /\ \A d \in Conns : dead_[d] => dead_'[d]
      /\ \A d \in Conns : dead_'[d] /\ ~dead_[d] => d = c /\ ~x.ok
  BY TypesNow DEF Die, ReadFails
<1>4. /\ inq' \in [Conns -> 0..MaxIn] /\ errno_' \in BOOLEAN /\ rpdu_' \in [Conns -> 0..2]
      /\ \A d \in Conns : inq'[d] <= inq[d] /\ (d # c => inq'[d] = inq[d])
  <2>1. x.rpdu \in 0..2 /\ x.inq \in 0..MaxIn /\ x.inq <= inq[c] /\ x.errno \in BOOLEAN
    BY ReadTyped
  <2>2. inq' \in [Conns -> 0..MaxIn] /\ errno_' \in BOOLEAN /\ rpdu_' \in [Conns -> 0..2]
    BY <2>1, TypesNow, SMTT(20)
  <2>3. \A d \in Conns : inq'[d] <= inq[d] /\ (d # c => inq'[d] = inq[d])
    BY <2>1, TypesNow, ConnectionAssumption, SMTT(20)
  <2> QED BY <2>2, <2>3
<1>5. /\ pc' \in [Threads -> PCs]
      /\ \A u \in Threads : pc'[u] = pc[u] \/ (pc[u] = "complete" /\ pc'[u] = "completed")
  BY SignalTyped DEF ReadFails
<1>6. Typed'
  <2>1. PollTypeOK'
    BY <1>2, ReturnTyped
  <2> QED BY <1>3, <1>4, <1>5, <2>1, TypesNow, CallbackTyped
<1>7. \A d \in Conns : dead_'[d] /\ ~dead_[d] =>
        d \in Open /\ fd_[d] \notin Watched' \cup loop.r /\ callbacks_'[fd_[d]] = None
  BY <1>1, <1>2, <1>3
<1>8. \A d \in Conns : inq'[d] = inq[d] \/ fd_[d] \notin loop.r
  BY <1>1, <1>4
<1>9. /\ LoopFits' /\ PollFits' /\ OwnerFits'
      /\ \A t \in Threads : ThreadFits(t)'
      /\ \A d \in Conns : Counted(d)' /\ ConnFits(d)'
  BY <1>1, <1>2, <1>3, <1>5, <1>7, <1>8, CallbackStep
<1> QED BY <1>6, <1>9 DEF IInv

(* read_cb.  That there is something to read, which readpdu asserts, is    *)
(* known since the descriptor was selected.                                *)
LEMMA ReadCbKeeps ==
  ASSUME IInv, aborted = "no", NEW c \in Conns, read_cb(c)
  PROVE  IInv'
<1>0. /\ InCallback("read_cb", c)
      /\ UNCHANGED <<fd_, made, refno_, wpdu_, kept, net, arrived, on, sends, closed>>
  BY DEF read_cb
<1>1. inq[c] > 0 \/ net[c] # "up"
  BY <1>0, Called DEF IInv, LoopFits
<1>2. inq[c] # 0 \/ net[c] # "up"
  BY <1>1, SMTT(20)
<1>3. CASE /\ dead_[c] /\ CallbackReturns
           /\ UNCHANGED <<rfds_, wfds_, callbacks_, pending_change_, pipefd_, dead_, rpdu_,
                          inq, errno_, pc, aborted>>
  BY <1>0, <1>3, ReadSkips
<1>4. CASE /\ ~dead_[c]
           /\ \E x \in ReadTaken(c) :
                /\ inq' = [inq EXCEPT ![c] = x.inq]
                /\ errno_' = x.errno
                /\ IF x.ok
                   THEN UNCHANGED <<rfds_, wfds_, callbacks_, pending_change_, pipefd_, dead_,
                                    pc>>
                   ELSE ReadFails(c)
                /\ \E got_pdu \in BOOLEAN :
                     rpdu_' = [rpdu_ EXCEPT ![c] = IF x.rpdu = 2 /\ got_pdu THEN 0 ELSE x.rpdu]
           /\ CallbackReturns /\ UNCHANGED aborted
  BY <1>0, <1>4, ReadGoes
<1> QED BY <1>2, <1>3, <1>4 DEF read_cb, ReadTaken
-----------------------------------------------------------------------------
(* All steps, and the theorems.                                            *)

(* The poll thread.                                                        *)
LEMMA PollThreadKeeps ==
  ASSUME IInv, aborted = "no", PollThread
  PROVE  IInv'
<1>1. CASE Head
  BY <1>1, HeadKeeps
<1>2. CASE WaitReadySnapshot /\ UNCHANGED connVars
  BY <1>2, SnapshotKeeps
<1>3. CASE \E W \in SUBSET loop.w : Select(W)
  BY <1>3, SelectKeeps
<1>4. CASE \E fd \in Fds : (PickReadable(fd) \/ PickWritable(fd)) /\ UNCHANGED connVars
  BY <1>4, PickReadableKeeps, PickWritableKeeps
<1>5. CASE \E c \in Conns : write_cb(c) \/ read_cb(c)
  BY <1>5, WriteCbKeeps, ReadCbKeeps
<1> QED BY <1>1, <1>2, <1>3, <1>4, <1>5 DEF PollThread

(* Nothing changes.                                                        *)
LEMMA StutterKeeps ==
  ASSUME IInv, UNCHANGED vars
  PROVE  IInv'
<1>1. UNCHANGED <<pollVars, fd_, made, dead_, refno_, wpdu_, rpdu_, kept, net, inq, arrived,
                  errno_, pc, on, sends, closed, aborted>>
  BY DEF vars, connVars
<1>2. Typed'
  <2>1. /\ dead_ \in [Conns -> BOOLEAN] /\ refno_ \in [Conns -> Nat]
        /\ kept \in [Conns -> BOOLEAN]
        /\ net \in [Conns -> {"up", "closed", "shut"}] /\ wpdu_ \in [Conns -> PduType]
        /\ pc \in [Threads -> PCs] /\ on \in [Threads -> Conns \cup {None}]
    BY DEF IInv, Typed, TypeOK, PduType
  <2> QED BY <1>1, <2>1, TypedFrame
<1>3. LoopFits' /\ PollFits' /\ \A t \in Threads : ThreadFits(t)'
  <2>1. StillReadable /\ Dying /\ \A u \in Threads : Rests(u)
    BY <1>1 DEF StillReadable, Dying, Rests
  <2> QED BY <1>1, <2>1, QuietStep
<1>4. \A d \in Conns : Counted(d)' /\ ConnFits(d)'
  BY <1>1, CountSame, ConnFrame DEF IInv
<1>5. OwnerFits'
  BY <1>1 DEF IInv, OwnerFits
<1> QED BY <1>2, <1>3, <1>4, <1>5 DEF IInv

(* Every step keeps the invariant.                                         *)
LEMMA Inductive == IInv /\ [Next]_vars => IInv'
<1> SUFFICES ASSUME IInv, [Next]_vars PROVE IInv'
  OBVIOUS
<1>1. CASE aborted = "no" /\ PollThread
  BY <1>1, PollThreadKeeps
<1>2. ASSUME NEW t \in Threads, ThreadStep(t) PROVE IInv'
  <2>1. CASE Remove(t)
    BY <2>1, RemoveKeeps
  <2>2. CASE Removed(t)
    BY <2>2, RemovedKeeps
  <2>3. CASE t # Owner /\ (send(t) \/ SendEnds(t) \/ SenderDrops(t))
    <3>1. t \in Senders
      BY <2>3 DEF Threads
    <3> QED BY <2>3, <3>1, SendKeeps, SendEndsKeeps, SenderDropsKeeps
  <2> QED BY <1>2, <2>1, <2>2, <2>3 DEF ThreadStep
<1>3. CASE \E s \in Senders, c \in Conns : CallSend(s, c)
  BY <1>3, CallSendKeeps
<1>4. CASE OwnerStep
  BY <1>4, ConnectionKeeps, OwnerDropsKeeps, CloseKeeps DEF OwnerStep
<1>5. CASE \E c \in Conns : Arrive(c) \/ PeerCloses(c)
  BY <1>5, ArriveKeeps, PeerClosesKeeps
<1>6. CASE UNCHANGED vars
  BY <1>6, StutterKeeps
<1> QED BY <1>1, <1>2, <1>3, <1>4, <1>5, <1>6 DEF Next

(* What block_remove_fd is for, as an invariant: while the poll loop can   *)
(* reach a dead connection, a thread in block_remove_fd has a reference.   *)
THEOREM Invariant == Spec => []IInv
  BY Initially, Inductive, PTL DEF Spec

(* All variables keep their types, and no count or bound is exceeded: the  *)
(* reference counts never go below zero.                                   *)
THEOREM TypeCorrect == Spec => []TypeOK
<1>1. IInv => TypeOK
  BY DEF IInv, Typed
<1> QED BY <1>1, Invariant, PTL

(* A deleted connection is neither registered nor about to be called, and  *)
(* select is never given a closed descriptor (~connection,                 *)
(* PollMgr::block_remove_fd).                                              *)
THEOREM DeletedQuiet == Spec => []DeletedIsQuiet
<1>1. IInv => DeletedIsQuiet
  <2> SUFFICES ASSUME IInv PROVE DeletedIsQuiet
    OBVIOUS
  <2>1. ASSUME NEW fd \in FreeFds PROVE callbacks_[fd] = None /\ fd \notin rfds_ \cup wfds_
    <3>1. fd \in Fds /\ \A c \in Open : fd_[c] # fd
      BY DEF FreeFds
    <3>2. callbacks_[fd] = None
      BY <3>1 DEF IInv, PollFits, CallbackFits
    <3>3. fd \notin rfds_ \cup wfds_
      BY <3>1 DEF IInv, PollFits, WatchFits, Watched, OpenFd
    <3> QED BY <3>2, <3>3
  <2>2. loop.cb # None => loop.cb \in Open
    BY DEF IInv, LoopFits
  <2>3. loop.at = "select" => loop.r \cup loop.w \subseteq {fd_[c] : c \in Open}
    BY DEF IInv, LoopFits, OpenFd
  <2> QED BY <2>1, <2>2, <2>3 DEF DeletedIsQuiet
<1> QED BY <1>1, Invariant, PTL

(* No assertion of add_callback, readpdu or ~connection fails, and that of *)
(* write_cb only while the thread that killed the connection is in         *)
(* block_remove_fd.                                                        *)
THEOREM Assertions == Spec => []AssertionsHold
<1>1. IInv => AssertionsHold
  BY DEF IInv, PollFits, Ended, Removing, Waits, AssertionsHold
<1> QED BY <1>1, Invariant, PTL
=============================================================================
