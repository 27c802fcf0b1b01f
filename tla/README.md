# TLA+ specifications of the YFS file system

YFS is a distributed file system of the 6.824 / CSE kind: FUSE clients that
keep directories and files as extents on an extent server, with a lock server
that decides which client may use an extent and caches on both levels. This
directory holds a TLA+ model of its parts, the TLC configurations that check
them on small instances, and TLAPS proofs of the most important invariants.
Line references are to the files under `src/`.

## The system

```
 kernel ── fuse.cc ── yfs_client.cc ──┬── lock_client_cache.cc ══ lock_server_cache.cc
                                      └── extent_client.cc     ══ extent_server.cc
                     ══ : rpc/rpc.cc over connections, handlers run by rpc/thr_pool.cc
```

* `fuse.cc` turns each kernel request into calls of `yfs_client.cc`. One FUSE
  thread per client (`fuse_session_loop`, fuse.cc:595).
* `yfs_client.cc` takes the lock of each inum it uses, reads and writes whole
  extents, and releases the locks.
* `lock_client_cache.cc` keeps a lock after its release, so the next acquire is
  local. A lock goes back to the server when the server revoked it while it was
  in use, or when the `give_back()` thread finds it free. Before it goes, the
  extent is flushed (`lock_release_action::dorelease`).
* `lock_server_cache.cc` remembers who has each lock and who waits for it, and
  calls clients back: `revoke` to the owner, `retry` to the first waiter.
* `extent_client.cc` is a write-back cache that relies on the locks.
* `rpc/rpc.cc` promises at-most-once execution over connections that die.
* `rpc/connection.cc` and `rpc/pollmgr.cc` carry the messages: senders write to
  counted connections, and one poll thread per process calls their read and
  write callbacks. `rpc/marshall.h` and part of `rpc/rpc.cc` lay out the bytes.
* `rpc/thr_pool.cc` and `rpc/fifo.h` run the handlers.
* `handle.cc` keeps the server's connections to its clients, for the callbacks.
* `lock_server.cc` and `lock_client.cc` are the earlier lock service, without
  caches; `lock_client_cache` still inherits from the latter.

`PROJECT.json` lists every component with its state of modelling, the map from
definitions to source lines, the hazards, the findings and the theorems.

## Modules

| module | code | what it is |
|---|---|---|
| `LockToken` | – | abstract: each lock is one token, with the moves it may make |
| `LockCalls` | calls of the lock protocol | requests, handlers, callbacks, timeouts; shared by the next two |
| `LockServerCache` | lock_server_cache.cc | the server's handlers |
| `LockClientCache` | lock_client_cache.cc | acquire, release, give_back, the callback handlers |
| `LockCache` | both | the composition, its properties, the mapping to `LockToken` |
| `LockCacheProofs` | | TLAPS proofs about `LockCache`: safety, the refinement of `LockToken`, the first part of `Calm` |
| `LockCalmProofs` | | TLAPS proofs about `LockCache` as long as calls are answered |
| `RpcCall` | rpc/rpc.cc | calls, duplicate detection, windows, cancel, restart |
| `RpcCallProofs` | | TLAPS proofs about `RpcCall` |
| `PollMgr` | rpc/pollmgr.cc | callback table, descriptor sets, the poll loop |
| `Connection` | rpc/connection.cc, over `PollMgr` | senders, callbacks, closing and deletion of connections |
| `ConnectionProofs` | | TLAPS proofs about `Connection` and `PollMgr` |
| `ServerConns` | rpc/connection.cc `tcpsconn`, rpc/rpc.cc `rpcs` | who holds which connection of a server, and its destructor |
| `ServerConnsProofs` | | TLAPS proofs about `ServerConns` |
| `HandleMgr` | handle.cc | handles, binding and their deletion, under the lock server's callbacks |
| `ThrPool` | rpc/thr_pool.cc, rpc/fifo.h | pool, queue, destructor |
| `LockServer` | lock_server.cc, lock_client.cc | the blocking lock server |
| `LockServerProofs` | | TLAPS proofs about `LockServer` and `HandleMgr` |
| `ExtentStore` | – | abstract: one store of extents |
| `ExtentCache` | extent_client.cc, extent_server.cc | caches over `LockToken`; implements `ExtentStore` |
| `Namespace` | – | abstract: directories as maps from names to inums |
| `YfsClient` | yfs_client.cc, fuse.cc | requests, locks and directories of several clients; implements `Namespace` |
| `YfsClientProofs` | | TLAPS proofs about `YfsClient` |
| `YfsFile` | yfs_client.cc read, write, updatesize | the bytes of a file |
| `Marshall` | rpc/marshall.h, rpc/rpc.cc | buffers, words, strings and headers as operators |
| `ExtentWire` | rpc/rpc.h, extent_protocol.h | put, get and getattr on the wire, for the contents of `YfsFile` |
| `ExtentProofs` | | TLAPS proofs about `ExtentCache`, `YfsFile`, `Marshall` and `ExtentWire` |
| `MC*` | | constants, symmetry sets and constraints for TLC |

The layers meet in abstract specifications. `LockCache` is proved to implement
`LockToken`, as long as no `give_back()` was overtaken. `ExtentCache` uses
`LockToken` for its locks and is proved to implement `ExtentStore`. `YfsClient`
uses a lock as held or free and the extents as one store, which is what these two
promise, and is proved to implement `Namespace`.

Some modules share a proof module, so definitions that both would have carry a
prefix in one of them: `Server` in `LockServer`, `File` in `YfsFile`.

Definitions whose comment calls them a mutant or a slip are deliberate
alterations of the definition that follows them. They are never part of `Next`;
each shows that a property can fail.

### How state and steps correspond to the code

A critical section with no blocking call inside is one step. Where the code
keeps a mutex over a remote call (`acquire()` in the client, `release()` in the
server), the mutex is a variable. Where it reads shared state outside the mutex
(`give_back()`, lock_client_cache.cc:26; the owner, lock_server_cache.cc:99),
the read is a step of its own. The error paths that unlock a mutex they do not
hold set it to unlocked, as a default pthread mutex does.

*Lock calls.* A call that timed out at its caller keeps its slot with `live`
FALSE until its handler ends, so a late acquire or release still takes effect;
an abandoned callback is counted in `late` and runs at any later time.
`overtaken` is a history variable: some `give_back()` set a lock to NONE that
was no longer FREE.

*RPC.* The network is the set of requests and replies under way, with a count of
the copies of each request; a lost message is one that is never received. A
request is retransmitted while its caller waits. `Restart` gives the server a
new nonce. The server's `reply_window` is the set of its entries: the list is
kept sorted, so what is deleted from its front is what the bound covers, and every
other loop looks an xid up. `Lossy` turns on the code's own test, which re-sends
an old request (rpc.cc:188-250).

*Connections.* `send`, `closeconn` and the callbacks run under the connection's
mutex, so a step of `Connection` goes from one sleep or `block_remove_fd` to the
next. The poll loop reads `callbacks_` without a lock: to pick a callback and to
run it are two steps. A PDU (one message with its size in front) is `PduSize`
units to write and two to read. Writes take all, some or nothing; errno is a
variable, since `readpdu` looks at what an earlier call left in it. A closed
descriptor is given to the next connection. VERIFY is modelled by `aborted`,
which ends the process.

*Server connections.* `ServerConns` keeps the counts of `Connection` and the
places that hold a reference: the listener's map, `process_accept`, the jobs of
the pool, the workers in `dispatch`, `conns_` and the poll thread. Duplicate
detection is any of its outcomes (it is in `RpcCall`), and a socket that takes no
more may keep a sender asleep.

*Handles.* A method under `handle_mutex` is a step; `safebind` holds `cl_mutex`
(`owner`) from its test to the end of the bind, which may fail at any time. The
two callers differ: `acquire` tests the pointer, `release` does not. `instance`
counts restarts of a client under the same name.

*Messages.* A buffer is the sequence of bytes allocated, unwritten ones marked.
Words are 32-bit integers with sign; an unsigned one is the integer with the same
bits. An unsigned long long is a pair of words.

*Extents.* A request, its handler and its reply are one step each. Contents are
values with a size.

*Directories.* An extent is the sequence of its blank-separated words.

*Files.* Sequences of bytes, where 0 is what ends a C string.

## Runs

All passing runs together take every action. Bounds are named in the modules.

| run | configuration | shows |
|---|---|---|
| lock_cache | 2 clients, 3 threads, 2 locks, 1 timeout | exclusion; no lock lost; release by the owner; no sleeper forgotten, no waiting list stranded; implements `LockToken` |
| rpc_calls | 2 threads, 3 calls, a retransmission, a restart, lossy | a live call runs once and gets its own result, the window is exact, `cancel()` returns |
| lock_server | 3 threads, 2 locks, pool of 3, 1 spurious wakeup | exclusion unless a thread woke by chance; a released lock reaches a waiter |
| thr_pool | 2 workers, 3 adders, queue of 2, 5 jobs, blocking or refusing | accepted jobs run, the destructor returns |
| extent_cache | 2 clients, 3 threads, 1 extent | caches look like one store |
| yfs_requests | 2 clients, 2 directories, 2 files, 2 names, 2 requests each | directories behave as maps, entries have extents, only a lock kept by `unlink` stops a request |
| yfs_file | 2 letters and 0, sizes up to 3, buffers of 30 bytes, contents up to 90 bytes | writes of text are right; put carries every content unchanged |
| connection | 2 connections on 1 descriptor, 2 senders, 2 sends, 2 units received | nothing deleted is called, one assertion excepted all hold, senders return, a lost peer is noticed, a refused PDU is offered again |
| server_conns | 3 connections of 2 clients, 2 workers, queue of 1, 2 PDUs | counts are exact, replies find the newest connection, dead ones are collected, the destructor returns |
| handles | 3 handlers, 2 clients, 1 of them restarts or fails | nothing deleted is used, only a failed bind gives NULL, a failed one is forgotten |

Each property of a passing run has a mutant in `PROJECT.json` that breaks it.
Properties that are proved for every instance and say nothing more on a small
one (`TypeOK`, `TokenUnique` and `FlushUnderLock` of the lock protocol,
`WaitersHaveAnOwner` and `CountIsExact` of the lock server, `FileTypeOK`, `Resizes`
and `ReadsBytes` of a file, `GetReturns`, `GetattrReturns` and `BufferHolds` of
the messages) are in no run: the proofs below stand for them.

The other two runs end in a counterexample: each checks a statement of a comment or
test that the code does not keep (next section).

Why the bounds are enough for the cases of interest: two clients are what a
revoke and a retry need, and a second thread in one of them is what a broadcast
needs; one timeout lets a late request or a late callback race its repetition.
Three calls let the window have a gap and close it. Five jobs fill a queue of two
with both workers busy and an adder asleep. Two requests of a client let it
create and unlink a file that the other client is using. Files of up to three
bytes have all the boundaries that `write` distinguishes. A buffer of 30 bytes
has to grow for a put with any content, and one of 90 bytes makes it grow by
more than twice; the code's 1024 bytes are a value of the constant. Two
connections that follow each other on one descriptor are what a stale callback
needs, and two senders what the turn of `send_wait_` needs. Three connections of
a server let a descriptor be used again while `conns_` still refers to an older
connection. Three handlers are one that binds, one that waits for it and one that
comes when the bind has failed.

Action constraints keep the instances small. `NotOvertaken` leaves out the states
after an overtaken `give_back()`: the flag is never reset and the properties of
that run say nothing once it is set. `SmallEnough` (`MCLockCache`) allows two
locks in use as long as nothing timed out and one of A's two threads is resting,
and one lock otherwise; after a timeout some thread is resting. `RestartIsQuiet`
(`MCRpcCall`) allows two calls when the server restarts. `SecondReceives`
(`MCConnection`) starts no send on the second connection. `LastIsQuiet` and
`AnonymousOnce` (`MCServerConns`) let the third connection only be there and a
client with nonce 0 connect once. `OneRestless` (`MCHandleMgr`) lets one client
fail and restart. They are restrictions, not reductions: what happens only outside
them is not checked on these instances. The invariants of these runs are proved
for all instances below.

`FirstCalls` (`MCRpcCall`) and `FirstTakes` (`MCServerConns`) are reductions: when
both of two interchangeable threads are idle, the first is the one that starts.
A behaviour in which the second starts is one of these with the two exchanged
from that state on. The calls and PDUs are finitely many, so that fairness is not
touched, and the properties do not name a thread.

Symmetry is used only in runs without liveness properties. Deadlock checking is
off where the system may stop: bounds of calls and requests run out, and callers
that take several locks in different orders may wait for each other.

### Fairness

* `RpcCall`: a thread whose call is done goes on, and so does `cancel()` when the
  last call has ended. No deadline or delivery is assumed.
* `ThrPool`: threads that are not asleep get the mutex, and jobs return. Nobody
  is assumed to add jobs, to destroy the pool or to wake up by chance.
* `LockServer`: dispatched requests run and woken threads get the mutex. A holder
  need not release.
* `Connection`: the poll thread and the threads that are not asleep run on. Strong
  fairness stands for the peer and the pool: a descriptor that stays watched for
  writing is not passed over for ever, a write that is tried again and again goes
  on, since the peer reads or is gone, and a PDU that is offered again and again
  is taken, since the pool's threads take jobs. Nobody has to send or close.
* `ServerConns`: threads run on and handlers return. A sleeping sender is assumed
  to wake up only when its connection was found dead; no peer has to read.
* `HandleMgr`: threads go on, and binds and calls return, which their timeouts
  guarantee.
* `YfsClient`: weak fairness of serving each client, over finitely many requests,
  which stands for a lock service in which a lock that stays free is obtained.

### Findings

| run | what the code does |
|---|---|
| lock_overtaken | `give_back()` returns a lock that a thread has just taken; two threads hold it |
| rpc_twice_run | the server's bound moves down and a duplicate is executed again |

`PROJECT.json` quotes the line each of them disagrees with. Other behaviour of
the code is modelled as it is, and the properties carry the condition:

* the server's `release()` waits for a retry with `serverlock_mutex` held
  (lock_server_cache.cc:138) while that client's `acquire()` waits for the server
  with `lockmap_mutex` held: both wait until a call times out. `LockCache` reaches
  this state; `handle.h:45` advises against holding a mutex there;
* `unlink` takes the file's lock and never releases it (yfs_client.cc:476), and
  the next request for the inum waits for ever: `AnsweredUnlessKept` says
  that this is the only reason to wait for ever;
* `write_cb` asserts that the connection is not dead (connection.cc:174), but
  `send()` and `closeconn()` set `dead_` before they remove the descriptor, which
  may still be watched for writing after an earlier slow send: `AssertionsHold`
  says that nothing else aborts and when this does;
* `closeconn()` wakes no sleeping sender (connection.cc:66), so `~rpcs` may wait
  for a worker that nobody wakes: `SendReturns`, `DestructorReturns`;
* `readpdu` takes the end of the stream in the middle of a PDU for a pause if
  errno is EAGAIN from an earlier call (connection.cc:286): `GonePeerNoticed`;
* a refused PDU is offered again only when something else makes the descriptor
  readable (connection.cc:213): `RefusedIsOffered`;
* `dispatch()` loses a reference for every request to an old instance
  (rpc.cc:530): `leaked` in `RefsExact`;
* the reply to a client without at-most-once logic whose connection died goes
  through a null pointer (rpc.cc:618): `DeadIsCollected` and `DestructorReturns`
  excuse this crash and no other. No program here makes such a client;
* `release()` does not test what `safebind()` returns (lock_server_cache.cc:138):
  `OnlyFailedBindCrashes`;
* an rpcc once bound is kept when its client restarts (handle.cc:20), so that all
  later calls fail: `HandleMgr` keeps it, and no property asks for more;
* an acquire that times out and is granted afterwards leaves the lock with a
  client that does not know of it (lock_client_cache.cc:118): `LockNotLost` is
  about behaviours in which nothing has timed out;
* a call that timed out is acknowledged like one that was replied to
  (rpc.cc:293), and so is a call whose reply has come but whose thread has not
  returned yet (rpc.cc:362): a copy of either may run again. `LiveCallRunsOnce` is
  about calls without a result;
* a spurious wakeup grants a lock that is in use (lock_server.cc:45):
  `ExclusionUnlessSpurious`;
* the pool has 6 threads (rpc.cc:429; a comment at lock_tester.cc:17 says 10), and
  as many blocked acquires keep a release from being dispatched:
  `ReleaseHandsOver` is about no more threads than the pool has;
* handlers reply again after an error (fuse.cc:490), which `replies` counts;
* `unlink` empties the file's extent and keeps it (yfs_client.cc:478), and filters
  words instead of removing an entry (yfs_client.cc:465), which differs when a
  name is the number of an inum; the names of the run are not;
* `write` cuts data at a 0 byte and ignores the offset in an empty file
  (yfs_client.cc:339, 353): `WritesText`.

## Proofs

Every theorem is for every value of the constants that the named assumptions
allow, in particular for any number of clients, threads, locks, calls and
timeouts, where the runs have two or three.

**Lock protocol, always** (`LockCacheProofs`; assumption `LockCallsAssumption`):

* `TypeCorrect`, `ExclusionHolds`, `FlushIsSafe`, `TokenIsUnique`: the invariants
  `TypeOK`, `MutualExclusionUnlessOvertaken`, `FlushUnderLock`, `TokenUnique`;
* `OnlyOwnerReleases`: the action property `ReleasedByOwner`;
* `Refines`: the refinement `ImplementsLockToken`.

None of the invariants is inductive. The inductive invariant `IInv` adds where a
token can be (held, cached, being flushed, in an OK reply, in a release request),
that the server's owner is the client of that place, what a thread's pc says
about its lock and its call, and which calls are live. As long as nothing was
overtaken, each step moves a token from one place to another. The refinement
says which: `Seen` relates the places of a lock to the value the mapping gives
it, `Moves` lists what `LockToken` allows, and each action has a lemma that its
step is one of these moves or leaves every place alone. A token may be lost
there: a grant or a release whose caller gave up.

**Lock protocol, as long as every call is answered** (the definitions and
`acquire()` in `LockCacheProofs`, the rest in `LockCalmProofs`; same
assumption): `NoLockIsLost`, `NoSleeperIsForgotten` and
`ListIsServed`, the invariants `LockNotLost`, `SleeperIsRemembered` and
`WaitersHaveAPredecessor`. They rest on `Calm` (theorem `CalmHolds`), which holds
together with `IInv` and says how the client's table, the server's list and the
calls under way agree while nothing has timed out: a lock is LOCKED or RELEASING
exactly if a thread of the client holds it; ACQUIRING means that the client is in
the queue (on the list, or off it with the retry under way), and a client in the
queue has a thread that sleeps for the lock or is about to; no client is in the
queue twice; a lock handed out is somewhere; and a queue is either behind a
client that has the lock or somebody is about to ask. Each lemma is one action;
`Frame` and `Local` say that an action for one client and lock leaves the other
pairs as they are.

**Extent caches** (`ExtentProofs`; `ExtentCacheAssumption`): `TypeCorrect`,
`NothingStale` and `Refines`, that is `TypeOK`, `NothingStaleKept` and
`ImplementsExtentStore`. The inductive invariant says that a thread in a call
holds the lock and that the reply under way is what the server has; that a clean
copy equals the server's and a dirty one has its own size; that only the client
that has the lock caches anything; and that at most one client has an extent
dirty. The abstract content is the dirty copy if there is one and the server's
otherwise: `put` is then the only step that changes it, the last step of a flush
changes nothing, and what `get` and `getattr` return is the abstract content.

**RPC** (`RpcCallProofs`; `RpcAssumption`): `TypeCorrect`, `RunsOnce`,
`ResultRight` and `Exactness`, the invariants `TypeOK`, `LiveCallRunsOnce`,
`ResultIsRight` and `WindowIsExact`. The inductive invariant is about one xid at
a time: a call without a result is not in the client's window, the acknowledgement
in any request and the server's bound are at most the window's front, so the
server cannot have forgotten the call; once run it is remembered until a restart,
and then its nonce is refused. That `update_xid_rep()` keeps the window exact and
sorted is `UpdateIs`, on `InsertIs` (the sorted insertion) and `CompressIs` (the
loop that drops the front). The number of turns of that loop is the recursive
function `PopTo`; its value is found as the least number that ends the loop
(`Least`, from the well-foundedness of the naturals), which takes the place of an
induction.

**Files and messages** (`ExtentProofs`). For any letters and any bound on the
size: `FileTyped`, `FileWritten`, `FileResized` and `FileRead`, the invariant
`FileTypeOK` and the action properties `WritesText`, `Resizes` and `ReadsBytes` of
`YfsFile`. The type invariant is inductive; the rest is one lemma for each
operation (`WrittenIs`, `ResizedIs`, `ReadOutIs`) on lemmas about `substr`,
padding and concatenation. For any size of the first buffer that holds a header,
any extent ids, headers and contents: `PutsArrive`, `GetsReturn`,
`GetattrsReturn` and `BuffersHold`. The argument: a message is well formed
(`IsMessage`: the write head is inside a buffer of the size it is said to have);
packing extends it by exactly the bytes packed and keeps the others, in each way
the buffer can grow; the header changes nothing from byte 24 on; and reading a
word, a long or a string where it was packed returns it. That the four bytes of
a word give it back is `WordBytes`. Assumptions: `YfsFileAssumption`,
`MarshallAssumption`, `WireAssumption`.

**Lock server without caches** (`LockServerProofs`; `LockServerAssumption`), for
any finite set of threads, any locks and pool: `Exclusion`, `NoLostWakeup` and
`ExactCount`. The inductive invariant says that the count of a lock is the number
of its owners and waiters, that without spurious wakeups there is at most one
owner, and that a lock with waiters has an owner.

**Handles** (`LockServerProofs`), for any finite set of handlers, any names and
number of restarts: `TypeCorrect`, `NothingDeletedIsUsed` and
`NullOnlyAfterFailure`, the invariants `TypeOK`, `HeldIsMapped` and
`OnlyFailedBindCrashes`. The inductive invariant adds that the count of an hinfo
is the number of handles that point at it (so the handle that deletes it is the
last one), that the map's hinfo has the map's name and is to be deleted only
after a failed bind, and that a thread that binds has `cl_mutex` of an hinfo
without an rpcc. Assumption: `HandleMgrAssumption`, which also has enough
addresses for `new` never to fail.

**File system client** (`YfsClientProofs`; `YfsAssumption`), for any clients,
inums, names and number of requests: `TypeCorrect`, `EntriesHold` and `Refines`,
that is `TypeOK`, `EntriesExist` and `ImplementsNamespace`. Each has the
hypothesis `PlainNames`: a name is one word and not the number of an inum. It
is what the code needs: a name with a blank shifts the words that follow it, and
a name that is a number is dropped by `unlink`'s filter together with the inum it
is the number of, so without it the properties are false. `TypeOK` and
`EntriesExist` are not inductive. The invariant adds the form of a directory
(inums and names in turn, no name twice: `WordsFit`), that no inum has two
entries, that an inum with an extent was given out once and to one client
(`InumsFit`), and what each kind of request may rely on when it has waited for
its second lock: an inum that `create` or `mkdir` is about to enter is still
unused, the file that `unlink` is about to empty still has its extent
(`ReqFits`). That no other client changes the directory in between is the lock's
doing. A step of a request does one of three things to the store (`WritesAt`,
`EntersAt`, `RemovesAt`), and the refinement shows that on the maps these are no
change, one name more and one name less. What `unlink`'s loop leaves
(`LeftBy`) is found from a least counterexample to the value of `Kept`, since the
loop is a recursive function: it drops exactly two words.

**Connections of a server** (`ServerConnsProofs`; `ServerConnsAssumption`), for
any finite sets of clients and workers and any bounds: `TypeCorrect`,
`CountsExact` and `NewestKept`, the invariants `TypeOK`, `RefsExact` and
`LatestIsNewest`. `RefsExact` counts a set of places of six kinds; in the
inductive invariant it is a sum of six cardinalities (`Refs`), of which a step
changes one or two, and the lemma that the sum is the cardinality of the set is
proved once. The invariant also says that a connection in the listener's map is
there under its own descriptor and that no two open connections have the same
(so an accept replaces nothing in the map), that a worker that is not idle has a
connection, that the accept loop looks only at what is in the map, and that the
time in `newest` is that of the connection in `conns_`.

**Connections and the poll loop** (`ConnectionProofs`; `ConnectionAssumption`), for
any finite sets of connections and senders, any descriptors, sizes of a PDU and
bounds: `TypeCorrect`, `DeletedQuiet` and `Assertions`, the invariants `TypeOK`,
`DeletedIsQuiet` and `AssertionsHold`. The poll loop works on lists it copied
without a lock, so that a connection may be deleted only when the loop has come
round. The inductive invariant says why that is so. A connection that is
registered is open, under its own descriptor, and no two open connections have
the same. It is dead only while a thread is in `block_remove_fd` for it: before
the descriptor is unwatched if it is still watched, and before the thread is woken
if the loop still has it in a list or is about to call it (`DeadFits`,
`CallbackFits`, `WatchFits`). Such a thread has a reference of its own, since the
count of a connection is the number of senders inside it plus the owner's
(`Counted`). What the loop is about to read is still readable, because only the
loop reads (`LoopFits`). There is one lemma for each action and, for the callbacks,
one for each way they end.

The proof modules whose steps are mostly about sets and functions say `USE ZenonT(40)`
once; the steps that need arithmetic or the types of records name `SMT`.

**Only model-checked**: the safety of `ThrPool`, for which no proof has been
written; and all liveness, which the prover does not support.

## Not modelled

* The marshalling operators for bool, char, short, vectors and maps, which no
  call of the file system uses. Logging, time, start-up programs, tests.
* Never called or constructed: `lock_server_cache::wake_up`,
  `extent_server::remove`, `EPollAIO`, `PollMgr::has_callback`,
  `handle_mgr::delete_handle`, `rpcs::set_reachable`.
* In `RpcCall`: bind, the life of the reply buffers, colliding nonces, and that
  `head` still refers to the list's deleted node when it is assigned and read
  (rpc.cc:710): it is taken to read what was assigned. Times of
  the attributes. Races on the memory of `std::map`. Requests to set attributes
  other than the size, which get an error reply. Two clients that generate the
  same inum (fuse.cc:41).
* Modelled but stated by no property: that jobs start in the order they were
  accepted and that `~ThrPool` returns only after them; that `closeconn()`
  returns. (That a handle's count is exact and that one thread binds an hinfo at
  a time is part of the inductive invariant of `LockServerProofs`.)
* In `Connection`: a `select` that is interrupted, PDUs larger than MAX_PDU (which
  end the connection like a short read), more descriptors than MAX_POLL_FDS.

## Plan

1. `YfsClient` over `ExtentCache` and `LockCache` with failing calls; liveness of
   the lock protocol under fair `give_back()`.
2. `RpcCall` over `Connection`: retransmission when a connection is found dead,
   and the life of the reply buffers.
3. Proofs: safety of `ThrPool`.
