------------------------------ MODULE ThrPool ------------------------------
(***************************************************************************)
(* The thread pool that runs the RPC handlers (rpc/thr_pool.cc) and its    *)
(* bounded queue (rpc/fifo.h).  enq and deq run under the queue's mutex    *)
(* except while they sleep on has_space_c_ or non_empty_c_, so a step is   *)
(* what happens between two such sleeps; a signal wakes one sleeper, any   *)
(* one, which looks at the queue again when it has the mutex.              *)
(***************************************************************************)
EXTENDS Naturals, Sequences, FiniteSets

CONSTANTS Workers,     \* the threads of th_
          Adders,      \* threads that call addJob
          MaxQueue,    \* max_ of the queue (100 per worker in the code)
          MaxJobs      \* bound: jobs offered in all

ASSUME ThrPoolAssumption ==
  /\ IsFiniteSet(Workers) /\ Workers # {}
  /\ MaxQueue \in Nat \ {0}
  /\ MaxJobs \in Nat

VARIABLES q_,        \* the queue, of jobs and poison pills
          blockadd_, \* whether addJob waits for room
          worker,    \* where each worker is in do_worker
          running,   \* the job it runs
          adder,     \* where each adder is in addJob
          adding,    \* the job it adds
          offered,   \* jobs for which addJob was called
          accepted,  \* jobs put in the queue, in order
          ran,       \* jobs that returned
          pills,     \* poison pills put in the queue
          dtor       \* how far ~ThrPool has come

vars == <<q_, blockadd_, worker, running, adder, adding, offered, accepted,
          ran, pills, dtor>>

Jobs == 1..MaxJobs
Pill == 0       \* the job whose function is NULL
NoJob == 0

(* Every variable has its type and the queue keeps to its bound.           *)
TypeOK ==
  /\ q_ \in Seq(Jobs \cup {Pill}) /\ Len(q_) <= MaxQueue
  /\ blockadd_ \in BOOLEAN
  /\ worker \in [Workers -> {"deq", "asleep", "run", "exit"}]
  /\ running \in [Workers -> Jobs \cup {NoJob}]
  /\ adder \in [Adders -> {"idle", "asleep", "woken"}]
  /\ adding \in [Adders -> Jobs \cup {NoJob}]
  /\ offered \in 0..MaxJobs
  /\ accepted \in Seq(Jobs)
  /\ ran \in SUBSET Jobs
  /\ pills \in 0..Cardinality(Workers)
  /\ dtor \in {"no", "pills", "asleep", "woken", "join", "done"}

Init ==
  /\ q_ = <<>>
  /\ blockadd_ \in BOOLEAN
  /\ worker = [w \in Workers |-> "deq"]
  /\ running = [w \in Workers |-> NoJob]
  /\ adder = [a \in Adders |-> "idle"]
  /\ adding = [a \in Adders |-> NoJob]
  /\ offered = 0 /\ accepted = <<>> /\ ran = {}
  /\ pills = 0 /\ dtor = "no"

-----------------------------------------------------------------------------
(* The queue.                                                              *)

Asleep(f) == {x \in DOMAIN f : f[x] = "asleep"}

(* pthread_cond_signal(&non_empty_c_): a worker asleep in deq, if any.     *)
SignalNonEmpty ==
  IF Asleep(worker) = {} THEN UNCHANGED worker
  ELSE \E w \in Asleep(worker) : worker' = [worker EXCEPT ![w] = "deq"]

(* pthread_cond_signal(&has_space_c_): an adder asleep in enq, or the      *)
(* destructor, which runs when no adder does.                              *)
SignalHasSpace ==
  \/ Asleep(adder) = {} /\ dtor # "asleep" /\ UNCHANGED <<adder, dtor>>
  \/ /\ \E a \in Asleep(adder) : adder' = [adder EXCEPT ![a] = "woken"]
     /\ UNCHANGED dtor
  \/ dtor = "asleep" /\ dtor' = "woken" /\ UNCHANGED adder

HasSpaceLate == Len(q_) <= MaxQueue   \* a slip
HasSpace == Len(q_) < MaxQueue

(* The end of a successful enq.                                            *)
Push(j) == q_' = Append(q_, j) /\ SignalNonEmpty

-----------------------------------------------------------------------------
(* addJob, for adder a and job j: in the queue, asleep until there is      *)
(* room, or refused.                                                       *)
enq(a, j) ==
  \/ /\ HasSpace
     /\ Push(j)
     /\ accepted' = Append(accepted, j)
     /\ adder' = [adder EXCEPT ![a] = "idle"]
     /\ adding' = [adding EXCEPT ![a] = NoJob]
  \/ /\ ~HasSpace /\ blockadd_
     /\ adder' = [adder EXCEPT ![a] = "asleep"]
     /\ adding' = [adding EXCEPT ![a] = j]
     /\ UNCHANGED <<q_, worker, accepted>>
  \/ /\ ~HasSpace /\ ~blockadd_
     /\ UNCHANGED <<q_, worker, accepted, adder, adding>>

(* Jobs are offered only before the destructor starts, as its comment asks *)
(* (thr_pool.cc:36).                                                       *)
AddJob(a) ==
  /\ adder[a] = "idle" /\ dtor = "no" /\ offered < MaxJobs
  /\ offered' = offered + 1
  /\ enq(a, offered + 1)
  /\ UNCHANGED <<running, ran, pills, dtor, blockadd_>>

AddResumes(a) ==
  /\ adder[a] = "woken"
  /\ enq(a, adding[a])
  /\ UNCHANGED <<running, offered, ran, pills, dtor, blockadd_>>

(* do_worker and takeJob: sleep on an empty queue; else take the head, and *)
(* leave at a poison pill.                                                 *)
TakeJob(w) ==
  /\ worker[w] = "deq"
  /\ \/ /\ q_ = <<>>
        /\ worker' = [worker EXCEPT ![w] = "asleep"]
        /\ UNCHANGED <<q_, running, adder, dtor>>
     \/ /\ q_ # <<>>
        /\ q_' = Tail(q_)
        /\ SignalHasSpace
        /\ \/ /\ Head(q_) = Pill
              /\ worker' = [worker EXCEPT ![w] = "exit"]
              /\ UNCHANGED running
           \/ /\ Head(q_) # Pill
              /\ worker' = [worker EXCEPT ![w] = "run"]
              /\ running' = [running EXCEPT ![w] = Head(q_)]
  /\ UNCHANGED <<adding, offered, accepted, ran, pills, blockadd_>>

(* A slip: the worker runs its job again and again and takes no other.     *)
JobReturnsAgain(w) ==
  /\ worker[w] = "run"
  /\ ran' = ran \cup {running[w]}
  /\ UNCHANGED <<q_, worker, running, adder, adding, offered, accepted,
                 pills, dtor, blockadd_>>

(* The job's function returns.                                             *)
JobReturns(w) ==
  /\ worker[w] = "run"
  /\ worker' = [worker EXCEPT ![w] = "deq"]
  /\ running' = [running EXCEPT ![w] = NoJob]
  /\ ran' = ran \cup {running[w]}
  /\ UNCHANGED <<q_, adder, adding, offered, accepted, pills, dtor, blockadd_>>

-----------------------------------------------------------------------------
(* ~ThrPool: one pill per worker through a blocking enq, then the joins.   *)
Destroy ==
  /\ dtor = "no" /\ \A a \in Adders : adder[a] = "idle"
  /\ dtor' = "pills"
  /\ UNCHANGED <<q_, worker, running, adder, adding, offered, accepted,
                 ran, pills, blockadd_>>

PushPillTooFew ==   \* a slip: one worker gets no pill
  /\ dtor \in {"pills", "woken"}
  /\ \/ /\ HasSpace
        /\ Push(Pill)
        /\ pills' = pills + 1
        /\ dtor' = IF pills' + 1 = Cardinality(Workers) THEN "join" ELSE "pills"
     \/ /\ ~HasSpace
        /\ dtor' = "asleep"
        /\ UNCHANGED <<q_, worker, pills>>
  /\ UNCHANGED <<running, adder, adding, offered, accepted, ran, blockadd_>>

PushPill ==
  /\ dtor \in {"pills", "woken"}
  /\ \/ /\ HasSpace
        /\ Push(Pill)
        /\ pills' = pills + 1
        /\ dtor' = IF pills' = Cardinality(Workers) THEN "join" ELSE "pills"
     \/ /\ ~HasSpace
        /\ dtor' = "asleep"
        /\ UNCHANGED <<q_, worker, pills>>
  /\ UNCHANGED <<running, adder, adding, offered, accepted, ran, blockadd_>>

Join ==
  /\ dtor = "join" /\ \A w \in Workers : worker[w] = "exit"
  /\ dtor' = "done"
  /\ UNCHANGED <<q_, worker, running, adder, adding, offered, accepted,
                 ran, pills, blockadd_>>

(* pthread_cond_wait may return without a signal; deq looks again.         *)
SpuriousWakeup(w) ==
  /\ worker[w] = "asleep"
  /\ worker' = [worker EXCEPT ![w] = "deq"]
  /\ UNCHANGED <<q_, running, adder, adding, offered, accepted,
                 ran, pills, dtor, blockadd_>>

Next ==
  \/ \E a \in Adders : AddJob(a) \/ AddResumes(a)
  \/ \E w \in Workers : TakeJob(w) \/ JobReturns(w) \/ SpuriousWakeup(w)
  \/ Destroy \/ PushPill \/ Join

(* A thread that is not asleep gets the mutex, and jobs return.  Nothing   *)
(* makes anyone add a job or destroy the pool, or wakes a sleeper.         *)
Fairness ==
  /\ \A a \in Adders : WF_vars(AddResumes(a))
  /\ \A w \in Workers : WF_vars(TakeJob(w)) /\ WF_vars(JobReturns(w))
  /\ WF_vars(PushPill) /\ WF_vars(Join)

Spec == Init /\ [][Next]_vars /\ Fairness

-----------------------------------------------------------------------------
(* Every accepted job runs.                                                *)
AcceptedRuns ==
  \A j \in Jobs : (\E i \in 1..Len(accepted) : accepted[i] = j) ~> j \in ran

(* The destructor returns, however full the queue is when it starts.       *)
DestructorReturns == dtor = "pills" ~> dtor = "done"
=============================================================================
