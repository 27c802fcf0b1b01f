------------------------------ MODULE RpcCall ------------------------------
(***************************************************************************)
(* Calls of the RPC library (rpc/rpc.cc) from one client object rpcc to one*)
(* server object rpcs: transmission, retransmission when the connection    *)
(* dies, timeouts, cancellation, and the server's window of replies that is*)
(* to give at-most-once execution.                                         *)
(*                                                                         *)
(* Requests and replies travel over connections that may die and lose them;*)
(* a lost one is one that nobody ever receives.  The server's pool of      *)
(* threads takes requests up in any order.  A request is its xid: all its  *)
(* copies carry the same header.  A reply is its xid and its kind.  The    *)
(* rpcc has been bound.                                                    *)
(***************************************************************************)
EXTENDS Integers, Sequences, FiniteSets

CONSTANTS Callers,      \* threads that use the rpcc
          MaxXid,       \* bound: how many calls are made
          MaxResend,    \* bound: how many retransmissions
          MaxRestart,   \* bound: how often the server starts anew
          Lossy         \* whether RPC_LOSSY is set

ASSUME RpcAssumption ==
  /\ MaxXid \in Nat /\ MaxResend \in Nat /\ MaxRestart \in Nat
  /\ Lossy \in BOOLEAN

VARIABLES xid,               \* rpcc: the next xid to use
          xid_rep_window,    \* rpcc: finished xids, lowest first
          calls,             \* rpcc: every call made so far, by xid
          cur,               \* the call each thread is in, 0 for none
          destroy_wait,      \* rpcc: cancel() waits for the calls to end
          cancel,            \* where the thread that cancels is
          dup_req,           \* rpcc: request kept for the loss test, or 0
          xid_rep_done,      \* rpcc: highest xid_rep of a finished call
          resends,           \* retransmissions so far
          requests,          \* copies of each request under way
          replies,           \* replies under way
          reply_window,      \* rpcs: remembered requests
          window_bound,      \* rpcs: xids up to here are forgotten
          running,           \* rpcs: executions going on for each xid
          restarts,          \* how often the server has been started anew
          execs,             \* history: executions begun for each xid
          finished           \* history: xids given to update_xid_rep()

clientVars == <<xid, xid_rep_window, calls, cur, destroy_wait, cancel, dup_req,
                xid_rep_done, resends, finished>>
serverVars == <<reply_window, window_bound, running, restarts, execs>>
vars == <<clientVars, requests, replies, serverVars>>

Xids == 1..MaxXid
Kinds == {"ok", "atmostonce_failure", "oldsrv_failure"}
Results == Kinds \cup {"none", "timeout_failure", "cancel_failure"}

(* unused: not made yet; pending: in calls_, not done; done: in calls_,    *)
(* done; over: call1() has returned.                                       *)
CallRec == [st : {"unused", "pending", "done", "over"}, ret : Results,
            xid_rep : 0..MaxXid]
InCalls == {x \in Xids : calls[x].st \in {"pending", "done"}}

(* Every variable keeps its type.                                          *)
TypeOK ==
  /\ xid \in 1..(MaxXid + 1)
  /\ xid_rep_window \in Seq(0..MaxXid) /\ xid_rep_window # <<>>
  /\ calls \in [Xids -> CallRec]
  /\ cur \in [Callers -> 0..MaxXid]
  /\ destroy_wait \in BOOLEAN
  /\ cancel \in {"not called", "waiting", "returned"}
  /\ dup_req \in 0..MaxXid
  /\ xid_rep_done \in -1..MaxXid
  /\ resends \in 0..MaxResend
  /\ requests \in [Xids -> Nat]
  /\ replies \in [Xids \X Kinds -> Nat]
  /\ reply_window \subseteq [xid : Xids, cb_present : BOOLEAN]
  /\ window_bound \in 0..MaxXid
  /\ running \in [Xids -> Nat]
  /\ restarts \in 0..MaxRestart
  /\ execs \in [Xids -> Nat]
  /\ finished \subseteq Xids

Init ==
  /\ xid = 1
  /\ xid_rep_window = <<0>>
  /\ calls = [x \in Xids |-> [st |-> "unused", ret |-> "none", xid_rep |-> 0]]
  /\ cur = [t \in Callers |-> 0]
  /\ destroy_wait = FALSE
  /\ cancel = "not called"
  /\ dup_req = 0
  /\ xid_rep_done = -1
  /\ resends = 0
  /\ requests = [x \in Xids |-> 0]
  /\ replies = [m \in Xids \X Kinds |-> 0]
  /\ reply_window = {}
  /\ window_bound = 0
  /\ running = [x \in Xids |-> 0]
  /\ restarts = 0
  /\ execs = [x \in Xids |-> 0]
  /\ finished = {}
-----------------------------------------------------------------------------
(* Mutant of Insert: the xid is put last.                                  *)
InsertLast(w, x) == Append(w, x)

(* update_xid_rep(): a finished xid above the front of window w is put in  *)
(* its place, even when it is there already, and then the front moves up   *)
(* over consecutive xids.                                                  *)
Insert(w, x) ==
  LET above == {i \in 1..Len(w) : w[i] > x}
      i == IF above = {} THEN Len(w) + 1
           ELSE CHOOSE j \in above : \A k \in above : j <= k
  IN SubSeq(w, 1, i - 1) \o <<x>> \o SubSeq(w, i, Len(w))

(* Mutant of Compress: the front moves up over any xid.                    *)
CompressAll(w) == SelectSeq(w, LAMBDA x : x > w[Len(w)])

(* How many elements are popped once the loop has seen w[i]: q before, and *)
(* then as long as w[i] is the successor of the front.                     *)
PopTo(w, q, i) ==
  CHOOSE d \in q..(i - 1) : /\ w[d + 1] + 1 # w[i]
                            /\ \A e \in (q + 1)..d : w[e] + 1 = w[i]

Popped(w) ==
  LET popped[i \in 1..Len(w)] == IF i = 1 THEN 0 ELSE PopTo(w, popped[i - 1], i)
  IN popped

Compress(w) == SubSeq(w, Popped(w)[Len(w)] + 1, Len(w))

update_xid_rep(w, x) == IF x <= Head(w) THEN w ELSE Compress(Insert(w, x))

Finish(x) ==
  /\ xid_rep_window' = update_xid_rep(xid_rep_window, x)
  /\ finished' = finished \cup {x}
-----------------------------------------------------------------------------
(* call1() up to its first wait.  With RPC_LOSSY a request kept from an    *)
(* earlier call, whose reply the server should have forgotten, is sent     *)
(* again before the new one.                                               *)
Call(t) ==
  LET resend == dup_req # 0 /\ xid_rep_done > dup_req
  IN /\ cur[t] = 0
     /\ ~destroy_wait
     /\ xid <= MaxXid
     /\ xid' = xid + 1
     /\ calls' = [calls EXCEPT ![xid] = [st |-> "pending", ret |-> "none",
                                         xid_rep |-> Head(xid_rep_window)]]
     /\ cur' = [cur EXCEPT ![t] = xid]
     /\ requests' = [x \in Xids |->
                       IF x = xid \/ (resend /\ x = dup_req)
                       THEN requests[x] + 1 ELSE requests[x]]
     /\ dup_req' = IF resend THEN 0 ELSE dup_req
     /\ UNCHANGED <<xid_rep_window, destroy_wait, cancel, xid_rep_done,
                    resends, finished, replies, serverVars>>

(* The wait in call1() ends, the connection is dead and the request is sent*)
(* again on a new one.                                                     *)
Retransmit(t) ==
  /\ cur[t] # 0
  /\ calls[cur[t]].st = "pending"
  /\ resends < MaxResend
  /\ resends' = resends + 1
  /\ requests' = [requests EXCEPT ![cur[t]] = @ + 1]
  /\ UNCHANGED <<xid, xid_rep_window, calls, cur, destroy_wait, cancel, dup_req,
                 xid_rep_done, finished, replies, serverVars>>

(* The end of call1() of thread t with result r.                           *)
Over(t, r) ==
  LET x == cur[t]
      done == calls[x].st = "done"
  IN /\ calls' = [calls EXCEPT ![x].st = "over", ![x].ret = r]
     /\ cur' = [cur EXCEPT ![t] = 0]
     /\ Finish(x)
     /\ dup_req' = IF done /\ Lossy /\ dup_req = 0 THEN x ELSE dup_req
     /\ xid_rep_done' = IF done /\ Lossy /\ calls[x].xid_rep > xid_rep_done
                        THEN calls[x].xid_rep ELSE xid_rep_done
     /\ UNCHANGED <<xid, destroy_wait, cancel, resends, requests, replies,
                    serverVars>>

Return(t) ==
  /\ cur[t] # 0
  /\ calls[cur[t]].st = "done"
  /\ Over(t, calls[cur[t]].ret)

Timeout(t) ==
  /\ cur[t] # 0
  /\ calls[cur[t]].st = "pending"
  /\ Over(t, "timeout_failure")

(* got_pdu(): the xid of any reply is finished; the first reply to a call  *)
(* that is not done is its result.                                         *)
got_pdu(x, kind) ==
  /\ replies[<<x, kind>>] > 0
  /\ replies' = [replies EXCEPT ![<<x, kind>>] = @ - 1]
  /\ Finish(x)
  /\ calls' = IF calls[x].st = "pending"
              THEN [calls EXCEPT ![x].st = "done", ![x].ret = kind]
              ELSE calls
  /\ UNCHANGED <<xid, cur, destroy_wait, cancel, dup_req, xid_rep_done, resends,
                 requests, serverVars>>

(* Mutant of Cancel: the callers are not woken.                            *)
CancelUnsignalled ==
  /\ cancel = "not called"
  /\ destroy_wait' = (InCalls # {})
  /\ cancel' = IF InCalls = {} THEN "returned" ELSE "waiting"
  /\ UNCHANGED <<xid, xid_rep_window, calls, cur, dup_req, xid_rep_done, resends,
                 finished, requests, replies, serverVars>>

(* cancel(): every call in calls_ fails, done or not; then wait until they *)
(* have all ended.                                                         *)
Cancel ==
  /\ cancel = "not called"
  /\ calls' = [x \in Xids |-> IF x \in InCalls
                              THEN [calls[x] EXCEPT !.st = "done",
                                                    !.ret = "cancel_failure"]
                              ELSE calls[x]]
  /\ destroy_wait' = (InCalls # {})
  /\ cancel' = IF InCalls = {} THEN "returned" ELSE "waiting"
  /\ UNCHANGED <<xid, xid_rep_window, cur, dup_req, xid_rep_done, resends,
                 finished, requests, replies, serverVars>>

CancelReturns ==
  /\ cancel = "waiting"
  /\ InCalls = {}
  /\ cancel' = "returned"
  /\ UNCHANGED <<xid, xid_rep_window, calls, cur, destroy_wait, dup_req,
                 xid_rep_done, resends, finished, requests, replies, serverVars>>
-----------------------------------------------------------------------------
Remembered(x) == {r \in reply_window : r.xid = x}

(* checkduplicate_and_update(): what the server knows of xid x.            *)
StatusOf(x) ==
  IF reply_window = {} THEN "NEW"
  ELSE IF x <= window_bound THEN "FORGOTTEN"
  ELSE IF Remembered(x) = {} THEN "NEW"
  ELSE IF \E r \in Remembered(x) : r.cb_present THEN "DONE"
  ELSE "INPROGRESS"

(* Mutant of Remember: deletes one too many.                               *)
RememberLess(x) ==
  {r \in reply_window \cup {[xid |-> x, cb_present |-> FALSE]} :
     r.xid > calls[x].xid_rep + 1}

(* A new request is remembered; what is remembered up to its xid_rep is    *)
(* deleted.  The list is in the order of the xids, which is what lets the  *)
(* code delete from its front; no two of its elements have the same xid.   *)
Remember(x) ==
  {r \in reply_window \cup {[xid |-> x, cb_present |-> FALSE]} :
     r.xid > calls[x].xid_rep}

Receive(x) ==
  /\ requests[x] > 0
  /\ requests' = [requests EXCEPT ![x] = @ - 1]

Send(x, kind) == replies' = [replies EXCEPT ![<<x, kind>>] = @ + 1]

(* dispatch(), in the cases that end at once: a request for an earlier     *)
(* server instance, one in progress, one whose reply is still there, and   *)
(* one that is forgotten.                                                  *)
DispatchOld(x) ==
  /\ Receive(x)
  /\ \/ /\ restarts > 0
        /\ Send(x, "oldsrv_failure")
     \/ /\ restarts = 0
        /\ \/ StatusOf(x) = "INPROGRESS" /\ UNCHANGED replies
           \/ StatusOf(x) = "DONE" /\ Send(x, "ok")
           \/ StatusOf(x) = "FORGOTTEN" /\ Send(x, "atmostonce_failure")
  /\ UNCHANGED <<clientVars, serverVars>>

(* Mutant of DispatchNew: the bound is the request itself.                 *)
DispatchNewTooHigh(x) ==
  /\ Receive(x)
  /\ restarts = 0
  /\ StatusOf(x) = "NEW"
  /\ reply_window' = Remember(x)
  /\ window_bound' = x
  /\ running' = [running EXCEPT ![x] = @ + 1]
  /\ execs' = [execs EXCEPT ![x] = @ + 1]
  /\ UNCHANGED <<clientVars, replies, restarts>>

(* dispatch() of a new request, up to the call of the handler.             *)
DispatchNew(x) ==
  /\ Receive(x)
  /\ restarts = 0
  /\ StatusOf(x) = "NEW"
  /\ reply_window' = Remember(x)
  /\ window_bound' = calls[x].xid_rep
  /\ running' = [running EXCEPT ![x] = @ + 1]
  /\ execs' = [execs EXCEPT ![x] = @ + 1]
  /\ UNCHANGED <<clientVars, replies, restarts>>

(* The handler returns; add_reply() keeps the reply if the request is still*)
(* remembered, and the reply is sent.                                      *)
HandlerReturns(x) ==
  /\ running[x] > 0
  /\ running' = [running EXCEPT ![x] = @ - 1]
  /\ reply_window' = {IF r.xid = x THEN [xid |-> x, cb_present |-> TRUE] ELSE r :
                         r \in reply_window}
  /\ Send(x, "ok")
  /\ UNCHANGED <<clientVars, requests, window_bound, restarts, execs>>

(* The server is started anew, with another nonce.                         *)
Restart ==
  /\ restarts < MaxRestart
  /\ restarts' = restarts + 1
  /\ reply_window' = {}
  /\ window_bound' = 0
  /\ running' = [x \in Xids |-> 0]
  /\ UNCHANGED <<clientVars, requests, replies, execs>>

Next ==
  \/ \E t \in Callers : Call(t) \/ Retransmit(t) \/ Return(t) \/ Timeout(t)
  \/ \E x \in Xids, kind \in Kinds : got_pdu(x, kind)
  \/ Cancel \/ CancelReturns
  \/ \E x \in Xids : DispatchOld(x) \/ DispatchNew(x) \/ HandlerReturns(x)
  \/ Restart

(* A thread whose call is done has been signalled and goes on; so does     *)
(* cancel() when the last call has ended.  No deadline need ever come.     *)
Fairness ==
  /\ \A t \in Callers : WF_vars(Return(t))
  /\ WF_vars(CancelReturns)

Spec == Init /\ [][Next]_vars /\ Fairness
-----------------------------------------------------------------------------
(* rpc.cc:4-5: no request is executed twice, whatever is retransmitted,    *)
(* late or lost.                                                           *)
AtMostOnce == \A x \in Xids : execs[x] <= 1

(* Until its caller has a result, a request is executed at most once: the  *)
(* server cannot have been told to forget it.                              *)
LiveCallRunsOnce == \A x \in Xids : calls[x].st = "pending" => execs[x] <= 1

(* A caller never gets atmostonce_failure (dispatch(), case FORGOTTEN), and*)
(* a reply ok means the server ran the request.                            *)
ResultIsRight ==
  \A x \in Xids : /\ calls[x].ret # "atmostonce_failure"
                  /\ calls[x].ret = "ok" => execs[x] >= 1

(* rpc.cc:290-292, "I don't think there's any harm in maybe doing it       *)
(* twice": whatever the order, the front of the window is the last xid     *)
(* with no unfinished one below, and the window forgets no finished xid.   *)
WindowIsExact ==
  LET front == Head(xid_rep_window)
  IN /\ \A x \in 1..front : x \in finished
     /\ front + 1 \notin finished
     /\ finished = (1..front) \cup {xid_rep_window[i] : i \in 2..Len(xid_rep_window)}

(* cancel() returns, and without waiting for any deadline.                 *)
CancelEnds == cancel = "waiting" ~> cancel = "returned"
=============================================================================
