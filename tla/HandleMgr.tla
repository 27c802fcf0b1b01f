----------------------------- MODULE HandleMgr -----------------------------
(***************************************************************************)
(* The handles through which the lock server calls its clients (handle.cc, *)
(* handle.h): the manager's map from a client's name to a counted hinfo,   *)
(* the bind under the hinfo's own mutex, and the two users of it, acquire  *)
(* and release of lock_server_cache.cc.  A method that holds handle_mutex  *)
(* is one step; safebind keeps cl_mutex over a whole bind.  Clients are    *)
(* away and come back meanwhile, as new instances of the same name.        *)
(***************************************************************************)
EXTENDS Naturals, FiniteSets

CONSTANTS Threads,      \* threads of the server's pool that run handlers
          Names,        \* the clients' names, host:port
          Infos,        \* addresses of hinfos; one is reused once nobody has it
          MaxInstance,  \* bound: how often a client restarts
          NULL

ASSUME HandleMgrAssumption ==
  /\ NULL \notin Infos \cup Threads \cup (1..MaxInstance)
  /\ MaxInstance \in Nat \ {0} /\ IsFiniteSet(Threads)
  /\ Cardinality(Infos) >= Cardinality(Threads) + Cardinality(Names)

VARIABLES hmap,      \* name -> hinfo
          info,      \* hinfo -> its fields, and whether it is allocated
          thread,    \* thread -> where it is, and its locals
          instance,  \* name -> the client's instance
          failed,    \* the names to which a bind has failed
          crashed    \* a call went through a NULL pointer

vars == <<hmap, info, thread, instance, failed, crashed>>

Freed == [live |-> FALSE, m |-> NULL, cl |-> NULL, refcnt |-> 0, del |-> FALSE, owner |-> NULL]
Idle == [at |-> "idle", job |-> "none", m |-> NULL, h |-> NULL, cl |-> NULL]
Instances == 1..MaxInstance

(* Every variable has its type.                                            *)
TypeOK ==
  /\ hmap \in [Names -> Infos \cup {NULL}]
  /\ info \in [Infos -> [live : BOOLEAN, m : Names \cup {NULL}, cl : Instances \cup {NULL},
                         refcnt : 0..Cardinality(Threads), del : BOOLEAN,
                         owner : Threads \cup {NULL}]]
  /\ thread \in [Threads -> [at : {"idle", "safebind", "bind", "call"},
                             job : {"none", "revoke", "retry"}, m : Names \cup {NULL},
                             h : Infos \cup {NULL}, cl : Instances \cup {NULL}]]
  /\ instance \in [Names -> Instances]
  /\ failed \subseteq Names /\ crashed \in BOOLEAN

Init ==
  /\ hmap = [m \in Names |-> NULL]
  /\ info = [i \in Infos |-> Freed]
  /\ thread = [t \in Threads |-> Idle]
  /\ instance = [m \in Names |-> 1]
  /\ failed = {} /\ crashed = FALSE

-----------------------------------------------------------------------------
Unused == {i \in Infos : ~info[i].live /\ \A t \in Threads : thread[t].h # i}

(* handle_mgr::get_handle, whose three outcomes are these.  There always   *)
(* is an unused hinfo: new does not fail.                                  *)
NewInfo(m, h) ==
  /\ Unused # {} /\ h = CHOOSE i \in Unused : TRUE
  /\ hmap' = [hmap EXCEPT ![m] = h]
  /\ info' = [info EXCEPT ![h] = [Freed EXCEPT !.live = TRUE, !.m = m, !.refcnt = 1]]

OldInfo(m, h) ==
  /\ h = hmap[m]
  /\ info' = [info EXCEPT ![h].refcnt = @ + 1]
  /\ UNCHANGED hmap

NoInfo(h) == h = NULL /\ UNCHANGED <<hmap, info>>

(* Slips: an hinfo handed out although it is to be deleted, or replaced    *)
(* although it is still held.                                              *)
get_handleAny(m, h) == IF hmap[m] = NULL THEN NewInfo(m, h) ELSE OldInfo(m, h)
get_handleReplaced(m, h) ==
  IF hmap[m] = NULL \/ info[hmap[m]].del THEN NewInfo(m, h) ELSE OldInfo(m, h)

get_handle(m, h) ==
  IF hmap[m] = NULL THEN NewInfo(m, h)
  ELSE IF info[hmap[m]].del THEN NoInfo(h)
  ELSE OldInfo(m, h)

(* acquire and release name a client and construct a handle: acquire to    *)
(* revoke, with no mutex held, release to let it retry, with               *)
(* serverlock_mutex held until it returns.                                 *)
handle(t, job, m) ==
  /\ thread[t].at = "idle" /\ ~crashed
  /\ job = "retry" => \A u \in Threads : thread[u].job # "retry"
  /\ \E h \in Infos \cup {NULL} :
       /\ get_handle(m, h)
       /\ thread' = [thread EXCEPT ![t] = [at |-> "safebind", job |-> job, m |-> m, h |-> h,
                                           cl |-> NULL]]
  /\ UNCHANGED <<instance, failed, crashed>>

-----------------------------------------------------------------------------
(* handle::safebind returns cl to its caller.                              *)
Returned(t, cl) == [thread EXCEPT ![t].at = "call", ![t].cl = cl]

(* safebind without a bind: no hinfo, one to be deleted, or one bound.     *)
(* The slip before it does not wait for cl_mutex.                          *)
safebindKnownTry(t) ==
  LET h == thread[t].h IN
  /\ thread[t].at = "safebind" /\ ~crashed
  /\ h # NULL => info[h].owner # NULL \/ info[h].del \/ info[h].cl # NULL
  /\ thread' = Returned(t, IF h = NULL \/ info[h].del THEN NULL ELSE info[h].cl)
  /\ UNCHANGED <<hmap, info, instance, failed, crashed>>

safebindKnown(t) ==
  LET h == thread[t].h IN
  /\ thread[t].at = "safebind" /\ ~crashed
  /\ h # NULL => info[h].owner = NULL /\ (info[h].del \/ info[h].cl # NULL)
  /\ thread' = Returned(t, IF h = NULL \/ info[h].del THEN NULL ELSE info[h].cl)
  /\ UNCHANGED <<hmap, info, instance, failed, crashed>>

(* The first safebind, which keeps cl_mutex and calls bind.                *)
safebind(t) ==
  LET h == thread[t].h IN
  /\ thread[t].at = "safebind" /\ ~crashed
  /\ h # NULL /\ info[h].owner = NULL /\ ~info[h].del /\ info[h].cl = NULL
  /\ info' = [info EXCEPT ![h].owner = t]
  /\ thread' = [thread EXCEPT ![t].at = "bind"]
  /\ UNCHANGED <<hmap, instance, failed, crashed>>

(* bind returns: the client that is there has answered, or none has before *)
(* the timeout, the rpcc is deleted and the hinfo is to be.                *)
BindFailed(h, i) == [i EXCEPT ![h].owner = NULL, ![h].del = TRUE]

bind(t) ==
  LET h == thread[t].h
      m == thread[t].m IN
  /\ thread[t].at = "bind" /\ ~crashed
  /\ \/ /\ info' = [info EXCEPT ![h].owner = NULL, ![h].cl = instance[m]]
        /\ thread' = Returned(t, instance[m])
        /\ UNCHANGED failed
     \/ /\ info' = BindFailed(h, info)
        /\ thread' = Returned(t, NULL)
        /\ failed' = failed \cup {m}
  /\ UNCHANGED <<hmap, instance, crashed>>

(* handle_mgr::delete_handle_wo, reached from done_handle with no          *)
(* reference left, and handle_mgr::done_handle.  The slip before that      *)
(* counts a reference twice.                                               *)
delete_handle_wo(h, i) ==
  /\ hmap' = [hmap EXCEPT ![i[h].m] = NULL]
  /\ info' = [i EXCEPT ![h] = Freed]

done_handleTwice(h) == info' = [info EXCEPT ![h].refcnt = @ - 2] /\ UNCHANGED hmap

done_handle(h) ==
  LET i == [info EXCEPT ![h].refcnt = @ - 1] IN
  IF i[h].refcnt = 0 /\ i[h].del THEN delete_handle_wo(h, i)
  ELSE info' = i /\ UNCHANGED hmap

(* The call through the pointer, whatever it returns, and the end of the   *)
(* handle's scope; acquire tests the pointer, release does not.            *)
Call(t) ==
  /\ thread[t].at = "call" /\ ~crashed
  /\ IF thread[t].cl = NULL /\ thread[t].job = "retry"
     THEN crashed' = TRUE /\ UNCHANGED <<hmap, info, thread>>
     ELSE /\ IF thread[t].h = NULL THEN UNCHANGED <<hmap, info>> ELSE done_handle(thread[t].h)
          /\ thread' = [thread EXCEPT ![t] = Idle]
          /\ UNCHANGED crashed
  /\ UNCHANGED <<instance, failed>>

-----------------------------------------------------------------------------
(* A client ends and starts again under the same name.                     *)
Restart(m) ==
  /\ instance[m] < MaxInstance
  /\ instance' = [instance EXCEPT ![m] = @ + 1]
  /\ UNCHANGED <<hmap, info, thread, failed, crashed>>

Step(t) == safebindKnown(t) \/ safebind(t) \/ bind(t) \/ Call(t)

Next ==
  \/ \E t \in Threads, m \in Names : handle(t, "revoke", m) \/ handle(t, "retry", m)
  \/ \E t \in Threads : Step(t)
  \/ \E m \in Names : Restart(m)

(* Threads go on, binds and calls return.                                  *)
Fairness == \A t \in Threads : WF_vars(Step(t))

Spec == Init /\ [][Next]_vars /\ Fairness

-----------------------------------------------------------------------------
(* Nobody uses an hinfo or an rpcc that has been deleted: what a handle    *)
(* points at is the map's, under its name, and the rpcc a thread is to     *)
(* call is the one kept there (handle.h:18).                               *)
HeldIsMapped ==
  \A t \in Threads :
    /\ thread[t].h # NULL => hmap[thread[t].m] = thread[t].h /\ info[thread[t].h].live
    /\ thread[t].cl # NULL => info[thread[t].h].cl = thread[t].cl

(* release calls through a NULL pointer (lock_server_cache.cc:138) only if *)
(* a bind to that client failed: a call to one that was always there is    *)
(* safe.                                                                   *)
OnlyFailedBindCrashes ==
  \A t \in Threads : thread[t].at = "call" /\ thread[t].cl = NULL => thread[t].m \in failed

(* The hinfo of a failed bind goes away, however many handlers name its    *)
(* client meanwhile, so that a later one binds anew (handle.cc:64).        *)
FailedIsForgotten ==
  \A i \in Infos : info[i].live /\ info[i].del ~> ~(info[i].live /\ info[i].del) \/ crashed
=============================================================================
