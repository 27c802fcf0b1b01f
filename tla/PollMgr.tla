------------------------------ MODULE PollMgr ------------------------------
(***************************************************************************)
(* The poll manager (rpc/pollmgr.cc): one thread that selects on the       *)
(* descriptors other threads have registered, and calls read_cb or         *)
(* write_cb of the object registered for each one that is ready.           *)
(*                                                                         *)
(* add_callback, del_callback and block_remove_fd run under m_, and their  *)
(* effect on the descriptor sets under the mutex of SelectAIO; a thread in *)
(* block_remove_fd sleeps in between.  The loop reads callbacks_ without a *)
(* lock, so picking a callback and running it are two steps.               *)
(***************************************************************************)
EXTENDS Naturals

CONSTANTS Fds,      \* descriptors
          Objects,  \* objects with callbacks
          None

VARIABLES rfds_, wfds_,     \* descriptors watched for reading, for writing
          callbacks_,       \* the object registered for each descriptor
          pending_change_,  \* a block_remove_fd waits for the loop to come round
          pipefd_,          \* bytes in the pipe that wakes select up
          loop              \* the poll thread: at is its place in wait_loop, r
                            \* and w its lists (the sets it selects on, then
                            \* those that are ready), cb the object it calls

pollVars == <<rfds_, wfds_, callbacks_, pending_change_, pipefd_, loop>>

Places == {"top", "snapshot", "select", "read", "read_cb", "write", "write_cb"}

PollTypeOK ==
  /\ rfds_ \subseteq Fds /\ wfds_ \subseteq Fds
  /\ callbacks_ \in [Fds -> Objects \cup {None}]
  /\ pending_change_ \in BOOLEAN
  /\ pipefd_ \in Nat
  /\ loop \in [at : Places, r : SUBSET Fds, w : SUBSET Fds, cb : Objects \cup {None}]

PollInit ==
  /\ rfds_ = {} /\ wfds_ = {}
  /\ callbacks_ = [fd \in Fds |-> None]
  /\ pending_change_ = FALSE
  /\ pipefd_ = 0
  /\ loop = [at |-> "top", r |-> {}, w |-> {}, cb |-> None]

-----------------------------------------------------------------------------
(* The operations other threads and the callbacks call.                    *)

CB_RDONLY == "CB_RDONLY"
CB_WRONLY == "CB_WRONLY"
CB_RDWR == "CB_RDWR"

watch_fd(fd, flag) ==
  /\ rfds_' = IF flag = CB_WRONLY THEN rfds_ ELSE rfds_ \cup {fd}
  /\ wfds_' = IF flag = CB_RDONLY THEN wfds_ ELSE wfds_ \cup {fd}
  /\ pipefd_' = pipefd_ + 1

unwatch_fd(fd, flag) ==
  /\ rfds_' = IF flag = CB_WRONLY THEN rfds_ ELSE rfds_ \ {fd}
  /\ wfds_' = IF flag = CB_RDONLY THEN wfds_ ELSE wfds_ \ {fd}
  /\ pipefd_' = IF flag = CB_RDWR THEN pipefd_ + 1 ELSE pipefd_

add_callback(fd, flag, ch) ==
  /\ watch_fd(fd, flag)
  /\ callbacks_' = [callbacks_ EXCEPT ![fd] = ch]
  /\ UNCHANGED pending_change_

del_callback(fd, flag) ==
  /\ unwatch_fd(fd, flag)
  /\ callbacks_' = IF fd \in rfds_' \cup wfds_' THEN callbacks_
                   ELSE [callbacks_ EXCEPT ![fd] = None]
  /\ UNCHANGED pending_change_

(* block_remove_fd up to its wait for changedone_c_, and after it.         *)
RemoveFd(fd) ==
  /\ unwatch_fd(fd, CB_RDWR)
  /\ pending_change_' = TRUE
  /\ UNCHANGED <<callbacks_, loop>>

RemovedFd(fd) ==
  /\ callbacks_' = [callbacks_ EXCEPT ![fd] = None]
  /\ UNCHANGED <<rfds_, wfds_, pending_change_, pipefd_, loop>>

-----------------------------------------------------------------------------
(* wait_loop.  Its head wakes every thread that sleeps in block_remove_fd, *)
(* which the modules that extend this one do in the same step.             *)
WaitLoopHead ==
  /\ loop.at = "top"
  /\ pending_change_' = FALSE
  /\ loop' = [loop EXCEPT !.at = "snapshot"]
  /\ UNCHANGED <<rfds_, wfds_, callbacks_, pipefd_>>

(* Where the loop goes on with r and w left: the readable descriptors come *)
(* first, then the writable ones.                                          *)
NextList(r, w) == IF r # {} THEN "read" ELSE IF w # {} THEN "write" ELSE "top"

(* wait_ready: the descriptor sets are copied, then select is called with  *)
(* the copies.  R and W are the descriptors that are ready.                *)
WaitReadySnapshot ==
  /\ loop.at = "snapshot"
  /\ loop' = [loop EXCEPT !.at = "select", !.r = rfds_, !.w = wfds_]
  /\ UNCHANGED <<rfds_, wfds_, callbacks_, pending_change_, pipefd_>>

WaitReadySelect(R, W) ==
  /\ loop.at = "select"
  /\ R \subseteq loop.r /\ W \subseteq loop.w
  /\ R \cup W # {} \/ pipefd_ > 0
  /\ pipefd_' = IF pipefd_ > 0 THEN pipefd_ - 1 ELSE 0
  /\ loop' = [loop EXCEPT !.at = NextList(R, W), !.r = R, !.w = W]
  /\ UNCHANGED <<rfds_, wfds_, callbacks_, pending_change_>>

(* The next descriptor of a list: its object's callback is called, if it   *)
(* still has one.                                                          *)
PickReadable(fd) ==
  /\ loop.at = "read" /\ fd \in loop.r
  /\ loop' = [loop EXCEPT !.r = @ \ {fd}, !.cb = callbacks_[fd],
                          !.at = IF callbacks_[fd] # None THEN "read_cb"
                                 ELSE NextList(loop.r \ {fd}, loop.w)]
  /\ UNCHANGED <<rfds_, wfds_, callbacks_, pending_change_, pipefd_>>

PickWritable(fd) ==
  /\ loop.at = "write" /\ fd \in loop.w
  /\ loop' = [loop EXCEPT !.w = @ \ {fd}, !.cb = callbacks_[fd],
                          !.at = IF callbacks_[fd] # None THEN "write_cb"
                                 ELSE NextList(loop.r, loop.w \ {fd})]
  /\ UNCHANGED <<rfds_, wfds_, callbacks_, pending_change_, pipefd_>>

(* The callback of object ch, and its return to the list.                  *)
InCallback(place, ch) == loop.at = place /\ loop.cb = ch

CallbackReturns == loop' = [loop EXCEPT !.cb = None, !.at = NextList(loop.r, loop.w)]
=============================================================================
