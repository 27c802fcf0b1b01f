----------------------------- MODULE YfsClient -----------------------------
(***************************************************************************)
(* The file system operations of yfs_client.cc, called by the FUSE         *)
(* handlers of fuse.cc, on several clients that share the lock and extent  *)
(* servers.  Each client has one FUSE thread (fuse_session_loop) and       *)
(* serves one request at a time.                                           *)
(*                                                                         *)
(* The locks are held or free, as LockToken has them, and the extents are  *)
(* the single store of ExtentStore.  A call that takes one lock is one     *)
(* step, taken when the lock is free; a call that takes a second lock      *)
(* waits for it with the first one held.                                   *)
(*                                                                         *)
(* A directory's extent is a string of words separated by blanks: inum,    *)
(* name, inum, name, ...  Here it is the sequence of the words.  A name is *)
(* a sequence of words too, one if it has no blank, and the word of an     *)
(* inum is the inum.  Of a file's extent only whether it is empty matters; *)
(* its bytes are YfsFile's.                                                *)
(***************************************************************************)
EXTENDS Naturals, Sequences

CONSTANTS Clients,
          Dirs, Files,   \* inums, by the bit that isfile tests
          Root,          \* inum 1, which mkfs and the kernel know
          Names,
          Ops,           \* the requests the kernel makes
          MaxRequests,   \* bound: requests of each client
          Data,          \* what write puts in a file
          None, NoEntry

ASSUME YfsAssumption ==
  /\ Root \in Dirs /\ Dirs \cap Files = {}
  /\ MaxRequests \in Nat
  /\ None \notin Clients
  /\ NoEntry # Data /\ NoEntry \notin Seq(Dirs \cup Files \cup {n[1] : n \in Names})

(* Names without blanks that are not the number of an inum.                *)
PlainNames == \A n \in Names : n = <<n[1]>> /\ n[1] \notin Dirs \cup Files

VARIABLES owner,     \* the client that holds each inum's lock
          store,     \* the extents
          req,       \* each client's request in progress
          replies,   \* the replies made to it
          known,     \* the inums the client's kernel has been told of
          inum_set,  \* those generate_inum gave out
          requests   \* how many requests there were

vars == <<owner, store, req, replies, known, inum_set, requests>>

Inums == Dirs \cup Files
TwoLocks == {"create", "mkdir", "lookup", "unlink"}
OneLock == {"getattr", "setattr", "read", "write", "readdir"}

Request == [op : TwoLocks \cup OneLock, st : {"call", "second", "resize", "attr"},
            ino : Inums, name : Names \cup {None}, new : Inums \cup {None}]

(* Every variable has its type.                                            *)
TypeOK ==
  /\ owner \in [Inums -> Clients \cup {None}]
  /\ DOMAIN store = Inums
  /\ \A i \in Files : store[i] \in {NoEntry, <<>>, Data}
  /\ \A d \in Dirs : store[d] # NoEntry =>
       \A p \in 1..Len(store[d]) : store[d][p] \in Inums \/ <<store[d][p]>> \in Names
  /\ req \in [Clients -> Request \cup {None}]
  /\ replies \in [Clients -> 0..2]
  /\ known \in [Clients -> SUBSET Inums]
  /\ inum_set \in [Clients -> SUBSET Inums]
  /\ requests \in [Clients -> 0..MaxRequests]

Init ==
  /\ owner = [i \in Inums |-> None]
  /\ store = [i \in Inums |-> IF i = Root THEN <<>> ELSE NoEntry]
  /\ req = [c \in Clients |-> None]
  /\ replies = [c \in Clients |-> 0]
  /\ known = [c \in Clients |-> {Root}]
  /\ inum_set = [c \in Clients |-> {}]
  /\ requests = [c \in Clients |-> 0]

-----------------------------------------------------------------------------
(* Directories.                                                            *)

(* The places of the names in a directory's words, and of one name.        *)
NamePlaces(words) == {i \in 2..Len(words) : i % 2 = 0}
Places(words, name) == {i \in NamePlaces(words) : <<words[i]>> = name}

isExist(d, name) == store[d] # NoEntry /\ Places(store[d], name) # {}

(* The inum of the first entry with the name; n2i makes 0, a directory, of *)
(* a word that is no number.                                               *)
FirstPlace(words, name) ==
  CHOOSE i \in Places(words, name) : \A j \in Places(words, name) : i <= j
InumOf(words, name) == words[FirstPlace(words, name) - 1]
isdir(i) == i \notin Files

(* unlink finds the name, and it is not a directory's.                     *)
CanUnlink(d, name) == isExist(d, name) /\ ~isdir(InumOf(store[d], name))

AddEntry(words, name, i) == words \o <<i>> \o name

(* create and mkdir: if the name is not there, the new extent is put and   *)
(* the entry added, the latter if the directory has an extent.             *)
Enters(d, name) == ~isExist(d, name) /\ store[d] # NoEntry
Entered(d, name, i) ==
  IF isExist(d, name) THEN store
  ELSE [store EXCEPT ![i] = <<>>,
                     ![d] = IF @ = NoEntry THEN @ ELSE AddEntry(@, name, i)]

(* unlink's new entries: all words but the inum's and the name's.  kept[i] *)
(* is what the loop has kept after i words.  The slip before it drops the  *)
(* name alone.                                                             *)
RemoveNameOnly(words, name) == SelectSeq(words, LAMBDA x : <<x>> # name)

Dropped(words, name, x) == x = InumOf(words, name) \/ <<x>> = name

Kept(words, name) ==
  LET kept[i \in 0..Len(words)] ==
        IF i = 0 THEN <<>>
        ELSE IF Dropped(words, name, words[i]) THEN kept[i - 1]
        ELSE Append(kept[i - 1], words[i])
  IN  kept

RemoveEntry(words, name) == Kept(words, name)[Len(words)]

-----------------------------------------------------------------------------
(* The request of c goes on at st, with inum i; or it is over, with n more *)
(* replies.                                                                *)
GoesOn(c, st, i) == req' = [req EXCEPT ![c].st = st, ![c].new = i]
Over(c, n) ==
  /\ req' = [req EXCEPT ![c] = None]
  /\ replies' = [replies EXCEPT ![c] = @ + n]
Learns(c, S) == known' = [known EXCEPT ![c] = @ \cup S]

Start(c, op, ino, name, new) ==
  /\ req[c] = None /\ requests[c] < MaxRequests
  /\ ino \in known[c]
  /\ op \in TwoLocks => ino \in Dirs
  /\ op \in {"setattr", "read", "write"} => ino \in Files
  /\ req' = [req EXCEPT ![c] = [op |-> op, st |-> "call", ino |-> ino,
                                name |-> name, new |-> new]]
  /\ replies' = [replies EXCEPT ![c] = 0]
  /\ requests' = [requests EXCEPT ![c] = @ + 1]
  /\ UNCHANGED <<owner, store, known>>

(* generate_inum: a random inum of the right kind that this client has not *)
(* given out, and, as random numbers go, nobody else has.                  *)
generate_inum(c, kind, new) ==
  /\ new \in kind \ ({Root} \cup UNION {inum_set[d] : d \in Clients})
  /\ inum_set' = [inum_set EXCEPT ![c] = @ \cup {new}]

RequestArrives(c) ==
  \E op \in Ops, ino \in Inums :
    \/ /\ op \in {"create", "mkdir"}
       /\ \E name \in Names, new \in Inums :
            /\ generate_inum(c, IF op = "create" THEN Files ELSE Dirs, new)
            /\ Start(c, op, ino, name, new)
    \/ /\ op \in {"lookup", "unlink"}
       /\ \E name \in Names : Start(c, op, ino, name, None)
       /\ UNCHANGED inum_set
    \/ /\ op \in OneLock
       /\ Start(c, op, ino, None, None)
       /\ UNCHANGED inum_set

-----------------------------------------------------------------------------
Free(i) == owner[i] = None
Does(c, op, st) == req[c] # None /\ req[c].op = op /\ req[c].st = st

(* fuseserver_create and mknod, yfs_client::create: the parent's lock, the *)
(* new inum's, and with both the entry.                                    *)
CreateParent(c) ==
  LET r == req[c] IN
  /\ Does(c, "create", "call") /\ Free(r.ino)
  /\ owner' = [owner EXCEPT ![r.ino] = c]
  /\ GoesOn(c, "second", r.new)
  /\ UNCHANGED <<store, replies, known, inum_set, requests>>

CreateEntryUnput(c) ==   \* a slip: the new extent is not put
  LET r == req[c] IN
  /\ Does(c, "create", "second") /\ Free(r.new)
  /\ store' = [Entered(r.ino, r.name, r.new) EXCEPT ![r.new] = store[r.new]]
  /\ Learns(c, IF Enters(r.ino, r.name) THEN {r.new} ELSE {})
  /\ owner' = [owner EXCEPT ![r.ino] = None]
  /\ Over(c, 1)
  /\ UNCHANGED <<inum_set, requests>>

CreateEntry(c) ==
  LET r == req[c] IN
  /\ Does(c, "create", "second") /\ Free(r.new)
  /\ store' = Entered(r.ino, r.name, r.new)
  /\ Learns(c, IF Enters(r.ino, r.name) THEN {r.new} ELSE {})
  /\ owner' = [owner EXCEPT ![r.ino] = None]
  /\ Over(c, 1)
  /\ UNCHANGED <<inum_set, requests>>

(* fuseserver_mkdir, mymkdir: the same, but after an error reply the       *)
(* handler goes on to reply the new directory's attributes.                *)
MkdirParent(c) ==
  LET r == req[c] IN
  /\ Does(c, "mkdir", "call") /\ Free(r.ino)
  /\ owner' = [owner EXCEPT ![r.ino] = c]
  /\ GoesOn(c, "second", r.new)
  /\ UNCHANGED <<store, replies, known, inum_set, requests>>

MkdirEntry(c) ==
  LET r == req[c] IN
  /\ Does(c, "mkdir", "second") /\ Free(r.new)
  /\ store' = Entered(r.ino, r.name, r.new)
  /\ replies' = [replies EXCEPT ![c] = IF Enters(r.ino, r.name) THEN 0 ELSE 1]
  /\ owner' = [owner EXCEPT ![r.ino] = None]
  /\ GoesOn(c, "attr", r.new)
  /\ UNCHANGED <<known, inum_set, requests>>

(* fuseserver_lookup, yfs_client::lookup: the attributes of the entry are  *)
(* read with both locks held, then read again.                             *)
LookupName(c) ==
  LET r == req[c] IN
  /\ Does(c, "lookup", "call") /\ Free(r.ino)
  /\ \/ /\ ~isExist(r.ino, r.name)
        /\ Over(c, IF store[r.ino] = NoEntry THEN 2 ELSE 1)
        /\ UNCHANGED owner
     \/ /\ isExist(r.ino, r.name)
        /\ GoesOn(c, "second", InumOf(store[r.ino], r.name))
        /\ owner' = [owner EXCEPT ![r.ino] = c]
        /\ UNCHANGED replies
  /\ UNCHANGED <<store, known, inum_set, requests>>

LookupAttrParent(c) ==   \* a slip: it takes the parent's lock once more
  LET r == req[c] IN
  /\ Does(c, "lookup", "second") /\ Free(r.new) /\ Free(r.ino)
  /\ replies' = [replies EXCEPT ![c] = IF store[r.new] = NoEntry THEN 1 ELSE 0]
  /\ GoesOn(c, "attr", r.new)
  /\ UNCHANGED <<owner, store, known, inum_set, requests>>

LookupAttr(c) ==
  LET r == req[c] IN
  /\ Does(c, "lookup", "second") /\ Free(r.new)
  /\ replies' = [replies EXCEPT ![c] = IF store[r.new] = NoEntry THEN 1 ELSE 0]
  /\ owner' = [owner EXCEPT ![r.ino] = None]
  /\ GoesOn(c, "attr", r.new)
  /\ UNCHANGED <<store, known, inum_set, requests>>

(* The getattr with which mkdir and lookup end; its result is not looked   *)
(* at.  The slip before it replies the error and then the entry.           *)
LastAttrTwice(c) ==
  LET r == req[c] IN
  /\ r # None /\ r.st = "attr" /\ Free(r.new)
  /\ Over(c, IF store[r.new] = NoEntry THEN 2 ELSE 1)
  /\ Learns(c, IF replies[c] = 0 THEN {r.new} ELSE {})
  /\ UNCHANGED <<owner, store, inum_set, requests>>

LastAttr(c) ==
  LET r == req[c] IN
  /\ r # None /\ r.st = "attr" /\ Free(r.new)
  /\ Over(c, 1)
  /\ Learns(c, IF replies[c] = 0 THEN {r.new} ELSE {})
  /\ UNCHANGED <<owner, store, inum_set, requests>>

(* fuseserver_unlink, yfs_client::unlink: the entry goes with the parent's *)
(* lock held; then the file's lock is taken, its extent emptied, and the   *)
(* parent's lock released, but not the file's.                             *)
UnlinkEntry(c) ==
  LET r == req[c] IN
  /\ Does(c, "unlink", "call") /\ Free(r.ino)
  /\ \/ /\ ~CanUnlink(r.ino, r.name)
        /\ Over(c, 2)
        /\ UNCHANGED <<owner, store>>
     \/ /\ CanUnlink(r.ino, r.name)
        /\ store' = [store EXCEPT ![r.ino] = RemoveEntry(@, r.name)]
        /\ owner' = [owner EXCEPT ![r.ino] = c]
        /\ GoesOn(c, "second", InumOf(store[r.ino], r.name))
        /\ UNCHANGED replies
  /\ UNCHANGED <<known, inum_set, requests>>

UnlinkExtent(c) ==
  LET r == req[c] IN
  /\ Does(c, "unlink", "second") /\ Free(r.new)
  /\ store' = [store EXCEPT ![r.new] = <<>>]
  /\ owner' = [owner EXCEPT ![r.ino] = None, ![r.new] = c]
  /\ Over(c, 1)
  /\ UNCHANGED <<known, inum_set, requests>>

-----------------------------------------------------------------------------
(* The handlers that take one lock at a time.                              *)

(* fuseserver_getattr; fuseserver_readdir, which tells the kernel of the   *)
(* directory's inums.                                                      *)
GetAttr(c) ==
  LET r == req[c] IN
  /\ Does(c, "getattr", "call") /\ Free(r.ino)
  /\ Over(c, 1)
  /\ UNCHANGED <<owner, store, known, inum_set, requests>>

ReadDir(c) ==
  LET r == req[c] IN
  /\ Does(c, "readdir", "call")
  /\ isdir(r.ino) => Free(r.ino)
  /\ Learns(c, IF ~isdir(r.ino) \/ store[r.ino] = NoEntry THEN {}
                ELSE {store[r.ino][i - 1] : i \in NamePlaces(store[r.ino])} \cap Inums)
  /\ Over(c, 1)
  /\ UNCHANGED <<owner, store, inum_set, requests>>

(* fuseserver_read and write: after an error reply they reply once more.   *)
ReadWrite(c) ==
  LET r == req[c] IN
  /\ Does(c, "read", "call") \/ Does(c, "write", "call")
  /\ Free(r.ino)
  /\ store' = [store EXCEPT ![r.ino] = IF @ # NoEntry /\ r.op = "write" THEN Data ELSE @]
  /\ Over(c, IF store[r.ino] = NoEntry THEN 2 ELSE 1)
  /\ UNCHANGED <<owner, known, inum_set, requests>>

(* fuseserver_setattr: getattr, then updatesize under the lock again; here *)
(* to size 0.                                                              *)
SetAttrGet(c) ==
  LET r == req[c] IN
  /\ Does(c, "setattr", "call") /\ Free(r.ino)
  /\ GoesOn(c, "resize", None)
  /\ UNCHANGED <<owner, store, replies, known, inum_set, requests>>

SetAttrResize(c) ==
  LET r == req[c] IN
  /\ Does(c, "setattr", "resize") /\ Free(r.ino)
  /\ store' = [store EXCEPT ![r.ino] = IF @ # NoEntry THEN <<>> ELSE @]
  /\ Over(c, IF store[r.ino] = NoEntry THEN 2 ELSE 1)
  /\ UNCHANGED <<owner, known, inum_set, requests>>

Serve(c) ==
  \/ CreateParent(c) \/ CreateEntry(c) \/ MkdirParent(c) \/ MkdirEntry(c)
  \/ LookupName(c) \/ LookupAttr(c) \/ LastAttr(c)
  \/ UnlinkEntry(c) \/ UnlinkExtent(c)
  \/ GetAttr(c) \/ ReadDir(c) \/ ReadWrite(c) \/ SetAttrGet(c) \/ SetAttrResize(c)

Next == \E c \in Clients : RequestArrives(c) \/ Serve(c)

(* A client gets a lock that stays free.  With finitely many requests no   *)
(* client can keep taking a lock that another one waits for.               *)
Fairness == \A c \in Clients : WF_vars(Serve(c))

Spec == Init /\ [][Next]_vars /\ Fairness

-----------------------------------------------------------------------------
(* Every entry of a directory has its extent: create and mkdir put the new *)
(* extent before they add the entry, and no operation takes it away.       *)
EntriesExist ==
  \A d \in Dirs : store[d] # NoEntry =>
    \A p \in NamePlaces(store[d]) : store[store[d][p - 1]] # NoEntry

(* The words of the directories, read as maps from names to inums.         *)
MapOf(words) ==
  [n \in {<<words[p]>> : p \in NamePlaces(words)} |-> InumOf(words, n)]

Abstract == INSTANCE Namespace WITH
  dirs <- [d \in {x \in Dirs : store[x] # NoEntry} |-> MapOf(store[d])]

(* The words in the directories cannot be told from maps: concurrent       *)
(* creates, mkdirs and unlinks of several clients enter a name once and    *)
(* remove one entry each.                                                  *)
ImplementsNamespace == Abstract!Spec

(* Some directory has an entry for inum i.                                 *)
Listed(i) ==
  \E d \in Dirs : /\ store[d] # NoEntry
                 /\ \E p \in NamePlaces(store[d]) : store[d][p - 1] = i

(* Nothing but a lock that unlink kept stops the clients, though several   *)
(* handlers take a second lock with one held: a request is answered, or    *)
(* some request waits for the lock of a file that was unlinked.            *)
WaitsForKept(c) ==
  /\ req[c] # None
  /\ LET i == IF req[c].st \in {"call", "resize"} THEN req[c].ino ELSE req[c].new
     IN  owner[i] # None /\ i \in Files /\ ~Listed(i)
AnsweredUnlessKept ==
  \A c \in Clients :
    req[c] # None ~> req[c] = None \/ \E d \in Clients : WaitsForKept(d)
=============================================================================
