------------------------- MODULE ServerConnsProofs -------------------------
(***************************************************************************)
(* Proofs about ServerConns, for any finite set of clients and of workers  *)
(* and any bounds: types, that the count of every connection is exact, and *)
(* that conns_ has the newest connection of every client.                  *)
(*                                                                         *)
(* A count is compared with the sum of six counts, one per kind of place   *)
(* that refers to a connection, so that a step changes one or two of them. *)
(***************************************************************************)
EXTENDS ServerConns, FiniteSetTheorems, TLAPS

(* The places that refer to c.                                             *)
Listed(c) == {f \in DOMAIN listener : listener[f] = c}
Accepted(c) == {acc.ch} \cap {c}
LatestFor(c) == {k \in Clients : latest[k] = c}
JobsOf(c) == {n \in DOMAIN q : q[n].c = c}
WorkersOn(c) == {w \in Workers : worker[w].c = c}
Polled(c) == {poll} \cap {c}

Refs(c) == Cardinality(Listed(c)) + Cardinality(Accepted(c)) + Cardinality(LatestFor(c))
             + Cardinality(JobsOf(c)) + Cardinality(WorkersOn(c)) + Cardinality(Polled(c))

Counted == \A c \in Conns : refno_[c] = Refs(c) + leaked[c]

(* TypeOK, with a listener that is a function, and what is referred to, or *)
(* was forgotten, was created.                                             *)
Typed ==
  /\ TypeOK
  /\ listener \in [DOMAIN listener -> 1..made]
  /\ acc.ch <= made /\ poll <= made
  /\ \A k \in Clients : latest[k] <= made
  /\ \A n \in DOMAIN q : q[n].c <= made
  /\ \A w \in Workers : worker[w].c <= made
  /\ \A c \in Conns : c > made => leaked[c] = 0

(* A worker that is not idle has a connection; when it has none the reply  *)
(* to a client that conns_ does not know has ended the process.            *)
WorkersFit ==
  \A w \in Workers : /\ worker[w].at = "idle" => worker[w].c = NoConn
                     /\ crashed = Nobody /\ worker[w].at # "idle" => worker[w].c # NoConn

(* A connection in the listener's map is there under its own descriptor,   *)
(* and no two open connections have the same: so the connection that is    *)
(* accepted does not take the place of another.                            *)
FdsFit ==
  /\ \A f \in DOMAIN listener : fd_[listener[f]] = f /\ listener[f] # acc.ch
  /\ \A c \in Conns : Open(c) => fd_[c] \in Fds
  /\ \A c, d \in Conns : Open(c) /\ Open(d) /\ fd_[c] = fd_[d] => c = d

(* The accept loop visits only what is in the map, and the destructor      *)
(* starts to close when it has ended.                                      *)
AcceptFits ==
  /\ acc.todo \subseteq DOMAIN listener
  /\ acc.ch = NoConn => acc.todo = {}
  /\ phase \notin {"up", "join"} => acc = NoAccept
  /\ phase = "closing" => DOMAIN listener # {}

(* Times, and what conns_ has.                                             *)
TimesFit ==
  /\ \A c \in Conns : ctime[c] <= c /\ (c <= made => ctime[c] >= 1)
  /\ \A k \in Clients : IF latest[k] = NoConn THEN newest[k] = 0
                        ELSE newest[k] = ctime[latest[k]]

IInv == Typed /\ Counted /\ WorkersFit /\ FdsFit /\ AcceptFits /\ TimesFit
-----------------------------------------------------------------------------
(* Sets, sequences and minima.                                             *)

(* One element more or less.                                               *)
LEMMA OneMore ==
  ASSUME NEW S, IsFiniteSet(S), NEW x, x \notin S
  PROVE  IsFiniteSet(S \cup {x}) /\ Cardinality(S \cup {x}) = Cardinality(S) + 1
  BY FS_AddElement, Zenon

(* An element less: the set had at least one.                              *)
LEMMA OneLess ==
  ASSUME NEW S, IsFiniteSet(S), NEW x \in S
  PROVE  /\ IsFiniteSet(S \ {x}) /\ Cardinality(S \ {x}) = Cardinality(S) - 1
         /\ Cardinality(S) >= 1
<1>1. IsFiniteSet(S \ {x}) /\ Cardinality(S \ {x}) = Cardinality(S) - 1
  BY FS_RemoveElement, Zenon
<1>2. Cardinality(S) \in Nat /\ Cardinality(S \ {x}) \in Nat
  BY <1>1, FS_CardinalityType, Zenon
<1>3. Cardinality(S) >= 1
  BY <1>1, <1>2
<1> QED BY <1>1, <1>3, Zenon

(* A set that is empty or has one element.                                 *)
LEMMA OneOrNone ==
  ASSUME NEW a, NEW c
  PROVE  /\ IsFiniteSet({a} \cap {c})
         /\ Cardinality({a} \cap {c}) = IF a = c THEN 1 ELSE 0
<1>1. CASE a = c
  <2>1. {a} \cap {c} = {c}
    BY <1>1, Zenon
  <2> QED BY <1>1, <2>1, FS_Singleton, Zenon
<1>2. CASE a # c
  <2>1. {a} \cap {c} = {}
    BY <1>2, Zenon
  <2> QED BY <1>2, <2>1, FS_EmptySet, Zenon
<1> QED BY <1>1, <1>2, Zenon

(* The pairs of a tag and an element are as many as the elements.          *)
LEMMA Tagged ==
  ASSUME NEW S, IsFiniteSet(S), NEW tag
  PROVE  /\ IsFiniteSet({<<tag, x>> : x \in S})
         /\ Cardinality({<<tag, x>> : x \in S}) = Cardinality(S)
<1> DEFINE T == {<<tag, x>> : x \in S}
           f == [x \in S |-> <<tag, x>>]
<1>1. f \in Bijection(S, T)
  <2>1. f \in [S -> T]
    OBVIOUS
  <2>2. \A x, y \in S : f[x] = f[y] => x = y
    OBVIOUS
  <2>3. \A t \in T : \E x \in S : f[x] = t
    OBVIOUS
  <2> QED BY <2>1, <2>2, <2>3, Zenon DEF Bijection, Injection, Surjection, IsInjective
<1>2. ExistsBijection(S, T)
  BY <1>1, Zenon DEF ExistsBijection
<1> QED BY <1>2, FS_Bijection, Zenon

(* The same for one pair that stands for the only element there can be.    *)
LEMMA TaggedOne ==
  ASSUME NEW S, IsFiniteSet(S), NEW p, \A x, y \in S : x = y
  PROVE  /\ IsFiniteSet({p : x \in S})
         /\ Cardinality({p : x \in S}) = Cardinality(S)
<1>1. CASE S = {}
  <2>1. {p : x \in S} = {}
    BY <1>1, Zenon
  <2> QED BY <1>1, <2>1, FS_EmptySet, Zenon
<1>2. CASE S # {}
  <2>1. PICK y \in S : TRUE
    BY <1>2, Zenon
  <2>2. S = {y} /\ {p : x \in S} = {p}
    BY <2>1, Zenon
  <2>3. /\ IsFiniteSet({p}) /\ Cardinality({p}) = 1 /\ Cardinality({y}) = 1
    BY FS_Singleton, Zenon
  <2>4. Cardinality(S) = 1 /\ Cardinality({p : x \in S}) = 1 /\ IsFiniteSet({p : x \in S})
    BY <2>2, <2>3
  <2> QED BY <2>4
<1> QED BY <1>1, <1>2, Zenon

(* The sizes of sets without a common element add up.                      *)
LEMMA Disjoint ==
  ASSUME NEW S, IsFiniteSet(S), NEW T, IsFiniteSet(T), S \cap T = {}
  PROVE  IsFiniteSet(S \cup T) /\ Cardinality(S \cup T) = Cardinality(S) + Cardinality(T)
<1>1. /\ IsFiniteSet(S \cup T)
      /\ Cardinality(S \cup T) = Cardinality(S) + Cardinality(T) - Cardinality(S \cap T)
  BY FS_Union, Zenon
<1>2. Cardinality(S) \in Nat /\ Cardinality(T) \in Nat /\ Cardinality(S \cap T) = 0
  BY FS_CardinalityType, FS_EmptySet, Zenon
<1>3. Cardinality(S \cup T) = Cardinality(S) + Cardinality(T)
  BY <1>1, <1>2
<1> QED BY <1>1, <1>3, Zenon

(* The least element of a set of numbers is one of it.                     *)
LEMMA MinIsIn ==
  ASSUME NEW S \in SUBSET Nat, S # {}
  PROVE  Min(S) \in S
<1>1. PICK x \in S : \A y \in S : <<y, x>> \notin OpToRel(<, Nat)
  BY NatLessThanWellFounded, WFMin, Zenon
<1>2. \A y \in S : ~(y < x)
  BY <1>1, Zenon DEF OpToRel
<1>3. \A y \in S : x <= y
  BY <1>2
<1> QED BY <1>3, Zenon DEF Min

(* The greater of two numbers.                                             *)
LEMMA MaxOfTwo ==
  ASSUME NEW a \in Nat, NEW b \in Nat
  PROVE  Max({a, b}) \in {a, b} /\ Max({a, b}) >= a /\ Max({a, b}) >= b
<1>1. \E x \in {a, b} : \A y \in {a, b} : x >= y
  OBVIOUS
<1> QED BY <1>1, Zenon DEF Max

(* The jobs left when the head of the queue is taken.                      *)
LEMMA TailCount ==
  ASSUME NEW s \in Seq([c : Conns, kind : Kinds]), s # <<>>, NEW c
  PROVE  LET S == {n \in DOMAIN s : s[n].c = c}
             U == {n \in DOMAIN Tail(s) : Tail(s)[n].c = c} IN
         /\ IsFiniteSet(S) /\ IsFiniteSet(U)
         /\ Cardinality(S) = Cardinality(U) + (IF Head(s).c = c THEN 1 ELSE 0)
<1> DEFINE S == {n \in DOMAIN s : s[n].c = c}
           U == {n \in DOMAIN Tail(s) : Tail(s)[n].c = c}
           f == [n \in U |-> n + 1]
<1>1. /\ Len(s) \in Nat /\ Len(s) >= 1 /\ DOMAIN s = 1..Len(s)
      /\ DOMAIN Tail(s) = 1..(Len(s) - 1) /\ Head(s) = s[1]
      /\ \A n \in 1..(Len(s) - 1) : Tail(s)[n] = s[n + 1]
  OBVIOUS
<1>2. IsFiniteSet(S)
  <2>1. S \in SUBSET (1..Len(s)) /\ IsFiniteSet(1..Len(s))
    BY <1>1, FS_Interval
  <2> QED BY <2>1, FS_Subset, Zenon
<1>3. IsFiniteSet(S \ {1}) /\ Cardinality(S) = Cardinality(S \ {1}) + (IF 1 \in S THEN 1 ELSE 0)
  <2>1. IsFiniteSet(S \ {1}) /\ Cardinality(S) \in Nat
        /\ Cardinality(S \ {1}) = IF 1 \in S THEN Cardinality(S) - 1 ELSE Cardinality(S)
    BY <1>2, FS_RemoveElement, FS_CardinalityType, Zenon
  <2> HIDE DEF S
  <2> QED BY <2>1
<1>4. f \in Bijection(U, S \ {1})
  <2>1. U \in SUBSET Nat /\ \A n \in U : f[n] = n + 1
    BY <1>1
  <2>2. \A n \in U : n + 1 \in S \ {1}
    BY <1>1
  <2>3. f \in [U -> S \ {1}]
    BY <2>1, <2>2, Zenon
  <2>4. \A n \in S \ {1} : n - 1 \in U /\ (n - 1) + 1 = n
    BY <1>1
  <2>5. \A n, m \in U : f[n] = f[m] => n = m
    <3> HIDE DEF U, f
    <3> QED BY <2>1
  <2>6. \A n \in S \ {1} : \E m \in U : f[m] = n
    <3> HIDE DEF U, f, S
    <3>1. ASSUME NEW n \in S \ {1} PROVE f[n - 1] = n /\ n - 1 \in U
      BY <2>1, <2>4, Zenon
    <3> QED BY <3>1, Zenon
  <2> HIDE DEF U, f, S
  <2> QED BY <2>3, <2>5, <2>6, Zenon DEF Bijection, Injection, Surjection, IsInjective
<1>5. IsFiniteSet(U) /\ Cardinality(U) = Cardinality(S \ {1})
  <2>1. ExistsBijection(U, S \ {1})
    BY <1>4, Zenon DEF ExistsBijection
  <2>2. IsFiniteSet(U)
    <3>1. U \in SUBSET (1..Len(s)) /\ IsFiniteSet(1..Len(s))
      BY <1>1, FS_Interval
    <3> QED BY <3>1, FS_Subset, Zenon
  <2> HIDE DEF U, S, f
  <2> QED BY <2>1, <2>2, FS_Bijection, Zenon
<1>6. 1 \in S <=> Head(s).c = c
  BY <1>1
<1> QED BY <1>2, <1>3, <1>5, <1>6, Zenon
-----------------------------------------------------------------------------
(* The places that refer to a connection.                                  *)

WorkerType == [at : {"idle", "save", "run", "send", "blocked", "drop"},
               c : Conns \cup {NoConn}, old : BOOLEAN]
JobType == [c : Conns, kind : Kinds]

(* The constants and the numbers of connections.                           *)
LEMMA Constants ==
  /\ MaxConns \in Nat /\ Conns \subseteq Nat /\ NoConn = 0 /\ NoConn \notin Conns
  /\ Fds = Conns /\ IsFiniteSet(Conns) /\ Cardinality(Conns) = MaxConns
  /\ IsFiniteSet(Clients) /\ IsFiniteSet(Workers) /\ Anonymous \in Clients
  /\ Nobody \notin Clients /\ MaxQueue \in Nat /\ MaxPdus \in Nat
<1>1. /\ MaxConns \in Nat /\ IsFiniteSet(Clients) /\ IsFiniteSet(Workers)
      /\ Anonymous \in Clients /\ Nobody \notin Clients /\ MaxQueue \in Nat
      /\ MaxPdus \in Nat
  BY ServerConnsAssumption, Zenon DEF Nobody
<1>2. /\ IsFiniteSet(1..MaxConns)
      /\ Cardinality(1..MaxConns) = IF 1 > MaxConns THEN 0 ELSE MaxConns - 1 + 1
  BY <1>1, FS_Interval
<1>3. Cardinality(1..MaxConns) = MaxConns
  BY <1>1, <1>2
<1>4. Conns \subseteq Nat /\ NoConn = 0 /\ NoConn \notin Conns
  BY <1>1 DEF Conns, NoConn
<1> QED BY <1>1, <1>2, <1>3, <1>4, Zenon DEF Conns, Fds

Finite(c) ==
  /\ IsFiniteSet(Listed(c)) /\ IsFiniteSet(Accepted(c)) /\ IsFiniteSet(LatestFor(c))
  /\ IsFiniteSet(JobsOf(c)) /\ IsFiniteSet(WorkersOn(c)) /\ IsFiniteSet(Polled(c))

Numbers(c) ==
  /\ Cardinality(Listed(c)) \in Nat /\ Cardinality(Accepted(c)) \in Nat
  /\ Cardinality(LatestFor(c)) \in Nat /\ Cardinality(JobsOf(c)) \in Nat
  /\ Cardinality(WorkersOn(c)) \in Nat /\ Cardinality(Polled(c)) \in Nat

(* There are finitely many places of each kind.                            *)
LEMMA Places ==
  ASSUME Typed, NEW c
  PROVE  Finite(c) /\ Numbers(c)
<1>1. IsFiniteSet(Listed(c))
  <2>1. Listed(c) \in SUBSET Conns
    BY Constants, Zenon DEF Typed, TypeOK, Listed
  <2> QED BY <2>1, Constants, FS_Subset, Zenon
<1>2. IsFiniteSet(LatestFor(c)) /\ IsFiniteSet(WorkersOn(c))
  <2>1. LatestFor(c) \in SUBSET Clients /\ WorkersOn(c) \in SUBSET Workers
    BY Zenon DEF LatestFor, WorkersOn
  <2> QED BY <2>1, Constants, FS_Subset, Zenon
<1>3. IsFiniteSet(JobsOf(c))
  <2>1. q \in Seq(JobType)
    BY Zenon DEF Typed, TypeOK, JobType
  <2>2. JobsOf(c) \in SUBSET (1..Len(q)) /\ Len(q) \in Nat
    BY <2>1 DEF JobsOf
  <2>3. IsFiniteSet(1..Len(q))
    BY <2>2, FS_Interval
  <2> QED BY <2>2, <2>3, FS_Subset, Zenon
<1>4. IsFiniteSet(Accepted(c)) /\ IsFiniteSet(Polled(c))
  BY OneOrNone, Zenon DEF Accepted, Polled
<1>5. Finite(c)
  BY <1>1, <1>2, <1>3, <1>4, Zenon DEF Finite
<1> QED BY <1>5, FS_CardinalityType, Zenon DEF Finite, Numbers

(* Holders(c), whose size RefsExact speaks of, is as large as the sum.     *)
LEMMA HoldersCount ==
  ASSUME Typed, NEW c
  PROVE  Cardinality(Holders(c)) = Refs(c)
<1> DEFINE A == {<<"listener", f>> : f \in Listed(c)}
           B == {<<"accept", 0>> : x \in Accepted(c)}
           C == {<<"latest", k>> : k \in LatestFor(c)}
           D == {<<"job", i>> : i \in JobsOf(c)}
           E == {<<"worker", w>> : w \in WorkersOn(c)}
           F == {<<"poll", 0>> : x \in Polled(c)}
<1>1. Finite(c) /\ Numbers(c)
  BY Places, Zenon
<1>2. Holders(c) = A \cup B \cup C \cup D \cup E \cup F
  BY Zenon DEF Holders, Listed, Accepted, LatestFor, JobsOf, WorkersOn, Polled
<1>3. /\ IsFiniteSet(A) /\ Cardinality(A) = Cardinality(Listed(c))
      /\ IsFiniteSet(C) /\ Cardinality(C) = Cardinality(LatestFor(c))
      /\ IsFiniteSet(D) /\ Cardinality(D) = Cardinality(JobsOf(c))
      /\ IsFiniteSet(E) /\ Cardinality(E) = Cardinality(WorkersOn(c))
  BY <1>1, Tagged, Zenon DEF Finite
<1>4. /\ IsFiniteSet(B) /\ Cardinality(B) = Cardinality(Accepted(c))
      /\ IsFiniteSet(F) /\ Cardinality(F) = Cardinality(Polled(c))
  <2>1. /\ \A x, y \in Accepted(c) : x = y
        /\ \A x, y \in Polled(c) : x = y
    BY Zenon DEF Accepted, Polled
  <2> QED BY <1>1, <2>1, TaggedOne, Zenon DEF Finite
<1>5. /\ A \cap B = {} /\ (A \cup B) \cap C = {} /\ (A \cup B \cup C) \cap D = {}
      /\ (A \cup B \cup C \cup D) \cap E = {} /\ (A \cup B \cup C \cup D \cup E) \cap F = {}
  <2>1. /\ \A x \in A : x[1] = "listener"
        /\ \A x \in B : x[1] = "accept"
        /\ \A x \in C : x[1] = "latest"
        /\ \A x \in D : x[1] = "job"
        /\ \A x \in E : x[1] = "worker"
        /\ \A x \in F : x[1] = "poll"
    OBVIOUS
  <2> HIDE DEF A, B, C, D, E, F
  <2> QED BY <2>1
<1> HIDE DEF A, B, C, D, E, F
<1>6. IsFiniteSet(A \cup B) /\ Cardinality(A \cup B) = Cardinality(A) + Cardinality(B)
  BY <1>3, <1>4, <1>5, Disjoint, Zenon
<1>7. /\ IsFiniteSet(A \cup B \cup C)
      /\ Cardinality(A \cup B \cup C) = Cardinality(A \cup B) + Cardinality(C)
  BY <1>3, <1>5, <1>6, Disjoint, Zenon
<1>8. /\ IsFiniteSet(A \cup B \cup C \cup D)
      /\ Cardinality(A \cup B \cup C \cup D) = Cardinality(A \cup B \cup C) + Cardinality(D)
  BY <1>3, <1>5, <1>7, Disjoint, Zenon
<1>9. /\ IsFiniteSet(A \cup B \cup C \cup D \cup E)
      /\ Cardinality(A \cup B \cup C \cup D \cup E)
           = Cardinality(A \cup B \cup C \cup D) + Cardinality(E)
  BY <1>3, <1>5, <1>8, Disjoint, Zenon
<1>10. Cardinality(A \cup B \cup C \cup D \cup E \cup F)
         = Cardinality(A \cup B \cup C \cup D \cup E) + Cardinality(F)
  BY <1>4, <1>5, <1>9, Disjoint, Zenon
<1> QED BY <1>2, <1>3, <1>4, <1>6, <1>7, <1>8, <1>9, <1>10, Zenon DEF Refs
-----------------------------------------------------------------------------
(* What every step uses.                                                   *)

(* The types by themselves.                                                *)
LEMMA Types ==
  ASSUME IInv
  PROVE /\ made \in Nat /\ made <= MaxConns /\ owner \in [Conns -> Clients]
        /\ ctime \in [Conns -> Nat] /\ fd_ \in [Conns -> Nat]
        /\ dead_ \in [Conns -> BOOLEAN] /\ closed \in [Conns -> BOOLEAN]
        /\ refno_ \in [Conns -> Nat] /\ leaked \in [Conns -> Nat]
        /\ listener \in [DOMAIN listener -> 1..made] /\ DOMAIN listener \subseteq Conns
        /\ acc \in [ch : Conns \cup {NoConn}, todo : SUBSET Conns] /\ acc.ch <= made
        /\ latest \in [Clients -> Conns \cup {NoConn}] /\ q \in Seq(JobType)
        /\ worker \in [Workers -> WorkerType] /\ poll \in Conns \cup {NoConn} /\ poll <= made
        /\ newest \in [Clients -> Nat] /\ crashed \in Clients \cup {Nobody}
<1>1. made \in 0..MaxConns /\ MaxConns \in Nat
  BY Constants, Zenon DEF IInv, Typed, TypeOK
<1>2. made \in Nat /\ made <= MaxConns
  BY <1>1
<1>3. Conns \cup {0} \subseteq Nat
  BY Constants
<1>4. /\ ctime \in [Conns -> Conns \cup {0}] /\ fd_ \in [Conns -> Conns \cup {0}]
      /\ newest \in [Clients -> Conns \cup {0}]
  BY Constants, Zenon DEF IInv, Typed, TypeOK
<1>5. /\ ctime \in [Conns -> Nat] /\ fd_ \in [Conns -> Nat]
      /\ newest \in [Clients -> Nat]
  BY <1>3, <1>4
<1> QED BY <1>2, <1>5, Constants, Zenon DEF IInv, Typed, TypeOK, JobType, WorkerType

(* A sum of counts that are not all 0 is not 0, ...                        *)
LEMMA SomeRef ==
  ASSUME NEW i \in Nat, NEW j \in Nat, NEW k \in Nat, NEW l \in Nat, NEW m \in Nat,
         NEW n \in Nat, i # 0 \/ j # 0 \/ k # 0 \/ l # 0 \/ m # 0 \/ n # 0
  PROVE  i + j + k + l + m + n # 0
  OBVIOUS

(* ... and is a number.                                                    *)
LEMMA Sum ==
  ASSUME NEW i \in Nat, NEW j \in Nat, NEW k \in Nat, NEW l \in Nat, NEW m \in Nat,
         NEW n \in Nat
  PROVE  i + j + k + l + m + n \in Nat
  OBVIOUS

(* Nothing that refers to a connection has moved.                          *)
LEMMA PlacesStay ==
  ASSUME UNCHANGED <<listener, latest, q, worker, poll>>, acc'.ch = acc.ch, NEW c
  PROVE  Refs(c)' = Refs(c)
<1>1. /\ Listed(c)' = Listed(c) /\ LatestFor(c)' = LatestFor(c) /\ JobsOf(c)' = JobsOf(c)
      /\ WorkersOn(c)' = WorkersOn(c) /\ Polled(c)' = Polled(c) /\ Accepted(c)' = Accepted(c)
  BY Zenon DEF Listed, LatestFor, JobsOf, WorkersOn, Polled, Accepted
<1> QED BY <1>1, Zenon DEF Refs

(* Who is referred to has not been deleted.                                *)
LEMMA Held ==
  ASSUME IInv, NEW c \in Conns,
         \/ Listed(c) # {} \/ Accepted(c) # {} \/ LatestFor(c) # {}
         \/ JobsOf(c) # {} \/ WorkersOn(c) # {} \/ Polled(c) # {}
  PROVE  refno_[c] >= 1
<1>1. Finite(c) /\ Numbers(c) /\ leaked[c] \in Nat /\ refno_[c] = Refs(c) + leaked[c]
  BY Places, Types, Zenon DEF IInv, Counted
<1>2. \A S : IsFiniteSet(S) /\ S # {} => Cardinality(S) # 0
  BY FS_EmptySet, Zenon
<1>3. \/ Cardinality(Listed(c)) # 0 \/ Cardinality(Accepted(c)) # 0
      \/ Cardinality(LatestFor(c)) # 0 \/ Cardinality(JobsOf(c)) # 0
      \/ Cardinality(WorkersOn(c)) # 0 \/ Cardinality(Polled(c)) # 0
  BY <1>1, <1>2, Zenon DEF Finite
<1>4. refno_[c] \in Nat /\ refno_[c] # 0
  <2>1. Refs(c) # 0
    BY <1>1, <1>3, SomeRef, ZenonT(40) DEF Numbers, Refs
  <2>2. Refs(c) \in Nat
    BY <1>1 DEF Numbers, Refs
  <2> QED BY <1>1, <2>1, <2>2
<1> QED BY <1>4

(* The same for who is in a particular place.                              *)
LEMMA HeldBy ==
  ASSUME IInv, NEW c \in Conns
  PROVE  /\ \A f \in DOMAIN listener : listener[f] = c => refno_[c] >= 1
         /\ acc.ch = c => refno_[c] >= 1
         /\ \A k \in Clients : latest[k] = c => refno_[c] >= 1
         /\ \A w \in Workers : worker[w].c = c => refno_[c] >= 1
         /\ poll = c => refno_[c] >= 1
<1>1. ASSUME NEW f \in DOMAIN listener, listener[f] = c PROVE refno_[c] >= 1
  <2>1. f \in Listed(c)
    BY <1>1, Zenon DEF Listed
  <2> QED BY <2>1, Held, Zenon
<1>2. ASSUME acc.ch = c PROVE refno_[c] >= 1
  <2>1. c \in Accepted(c)
    BY <1>2, Zenon DEF Accepted
  <2> QED BY <2>1, Held, Zenon
<1>3. ASSUME NEW k \in Clients, latest[k] = c PROVE refno_[c] >= 1
  <2>1. k \in LatestFor(c)
    BY <1>3, Zenon DEF LatestFor
  <2> QED BY <2>1, Held, Zenon
<1>4. ASSUME NEW w \in Workers, worker[w].c = c PROVE refno_[c] >= 1
  <2>1. w \in WorkersOn(c)
    BY <1>4, Zenon DEF WorkersOn
  <2> QED BY <2>1, Held, Zenon
<1>5. ASSUME poll = c PROVE refno_[c] >= 1
  <2>1. c \in Polled(c)
    BY <1>5, Zenon DEF Polled
  <2> QED BY <2>1, Held, Zenon
<1> QED BY <1>1, <1>2, <1>3, <1>4, <1>5, Zenon

(* FdsFit goes on as long as nothing is accepted and nothing deleted comes *)
(* back.                                                                   *)
LEMMA FdsStay ==
  ASSUME IInv, made' = made, fd_' = fd_, acc'.ch = acc.ch,
         \A f \in DOMAIN listener' : f \in DOMAIN listener /\ listener'[f] = listener[f],
         \A c \in Conns : Open(c)' => Open(c)
  PROVE  FdsFit'
<1>1. \A f \in DOMAIN listener' : fd_'[listener'[f]] = f /\ listener'[f] # acc'.ch
  BY Zenon DEF IInv, FdsFit
<1>2. \A c \in Conns : Open(c)' => fd_'[c] \in Fds
  BY Zenon DEF IInv, FdsFit
<1>3. \A c, d \in Conns : Open(c)' /\ Open(d)' /\ fd_'[c] = fd_'[d] => c = d
  BY Zenon DEF IInv, FdsFit
<1> QED BY <1>1, <1>2, <1>3, Zenon DEF FdsFit

(* What is referred to is a number, of a connection that was made.         *)
LEMMA Referred ==
  ASSUME IInv
  PROVE  /\ \A f \in DOMAIN listener : /\ listener[f] \in Conns /\ listener[f] \in Nat
                                       /\ listener[f] <= made
         /\ \A k \in Clients : latest[k] \in Nat /\ latest[k] <= made
         /\ \A n \in DOMAIN q : q[n].c \in Conns /\ q[n].c \in Nat /\ q[n].c <= made
         /\ \A w \in Workers : worker[w].c \in Nat /\ worker[w].c <= made
         /\ poll \in Nat /\ poll <= made
<1>1. \A x \in Conns \cup {NoConn} : x \in Nat
  BY Constants
<1>2. \A x \in 1..made : x \in Conns /\ x \in Nat /\ x <= made
  <2>1. made \in Nat /\ made <= MaxConns /\ MaxConns \in Nat
    BY Types, Constants, Zenon
  <2> QED BY <2>1 DEF Conns
<1>3. \A n \in DOMAIN q : q[n].c \in Conns
  <2>1. q \in Seq(JobType)
    BY Types, Zenon
  <2>2. \A n \in DOMAIN q : q[n] \in JobType
    BY <2>1
  <2> QED BY <2>2 DEF JobType
<1>4. \A w \in Workers : worker[w].c \in Conns \cup {NoConn}
  <2>1. \A w \in Workers : worker[w] \in WorkerType
    BY Types, Zenon
  <2> QED BY <2>1 DEF WorkerType
<1>5. \A f \in DOMAIN listener : listener[f] \in 1..made
  BY Types, Zenon
<1>6. poll \in Conns \cup {NoConn} /\ \A k \in Clients : latest[k] \in Conns \cup {NoConn}
  BY Types, Zenon
<1> QED BY <1>1, <1>2, <1>3, <1>4, <1>5, <1>6, Zenon DEF IInv, Typed
-----------------------------------------------------------------------------
(* The steps that leave all references where they are.                     *)

(* Steps that move no reference: only dead_, closed or phase change.       *)
LEMMA QuietStep ==
  ASSUME IInv, UNCHANGED <<made, owner, ctime, fd_, listener, acc, poolVars, refno_, latest>>,
         dead_' \in [Conns -> BOOLEAN], closed' \in [Conns -> BOOLEAN],
         \/ phase' = phase
         \/ phase' = "join"
         \/ phase' \in {"close", "drain", "gone"} /\ acc = NoAccept
         \/ phase' = "closing" /\ acc = NoAccept /\ DOMAIN listener # {}
  PROVE  IInv'
<1>1. UNCHANGED <<q, worker, poll, pdus, leaked, newest, crashed>>
  BY Zenon DEF poolVars
<1>2. phase' \in {"up", "join", "close", "closing", "drain", "gone"}
  BY Zenon DEF IInv, Typed, TypeOK
<1>3. Typed'
  BY <1>1, <1>2, Zenon DEF IInv, Typed, TypeOK
<1>4. Counted'
  BY <1>1, Zenon DEF IInv, Counted, Refs, Listed, Accepted, LatestFor, JobsOf, WorkersOn,
                     Polled
<1>5. WorkersFit' /\ TimesFit'
  BY <1>1, Zenon DEF IInv, WorkersFit, TimesFit
<1>6. FdsFit'
  BY FdsStay, Zenon DEF Open
<1>7. AcceptFits'
  <2>1. phase' # "closing" \/ phase = "closing" \/ DOMAIN listener # {}
    BY Zenon
  <2>2. phase' \notin {"up", "join"} => phase \notin {"up", "join"} \/ acc = NoAccept
    BY Zenon
  <2> QED BY <2>1, <2>2, Zenon DEF IInv, AcceptFits
<1> QED BY <1>3, <1>4, <1>5, <1>6, <1>7, Zenon DEF IInv

(* The poll thread finds the end of a stream.                              *)
LEMMA DiesStep ==
  ASSUME IInv, NEW c \in Conns, Dies(c)
  PROVE  IInv'
<1>1. dead_' \in [Conns -> BOOLEAN] /\ closed' \in [Conns -> BOOLEAN]
  BY Types, Zenon DEF Dies
<1> QED BY <1>1, QuietStep, Zenon DEF Dies, connVars

(* The steps of ~rpcs that only wait.                                      *)
LEMMA DestroySteps ==
  ASSUME IInv, Destroy \/ JoinAccept \/ PoolEnds
  PROVE  IInv'
<1>1. dead_' \in [Conns -> BOOLEAN] /\ closed' \in [Conns -> BOOLEAN]
  BY Types, Zenon DEF Destroy, JoinAccept, PoolEnds
<1>2. CASE Destroy
  BY <1>1, <1>2, QuietStep, Zenon DEF Destroy
<1>3. CASE JoinAccept
  BY <1>1, <1>3, QuietStep, Zenon DEF JoinAccept
<1>4. CASE PoolEnds
  <2>1. acc = NoAccept
    BY <1>4 DEF PoolEnds, IInv, AcceptFits
  <2> QED BY <1>1, <1>4, <2>1, QuietStep, Zenon DEF PoolEnds
<1> QED BY <1>2, <1>3, <1>4, Zenon

(* closeconn() on the next connection, or on none that is left.            *)
LEMMA closeconnStep ==
  ASSUME IInv, closeconn
  PROVE  IInv'
<1> DEFINE c == listener[Min(DOMAIN listener)]
<1>1. acc = NoAccept
  BY DEF closeconn, IInv, AcceptFits
<1>2. CASE listener = <<>>
  BY <1>1, <1>2, Types, QuietStep, Zenon DEF closeconn
<1>3. CASE listener # <<>>
  <2>1. DOMAIN listener # {}
    <3>1. \A f : f \in [{} -> 1..made] => f = <<>>
      OBVIOUS
    <3> QED BY <1>3, <3>1, Types, Zenon
  <2>2. listener[Min(DOMAIN listener)] \in Conns
    <3>1. Min(DOMAIN listener) \in DOMAIN listener
      BY <2>1, Types, Constants, MinIsIn, Zenon
    <3>2. \A x \in 1..made : x \in Conns
      BY Types, Constants DEF Conns
    <3> QED BY <3>1, <3>2, Types, Zenon
  <2>3. /\ phase' = "closing" /\ closed' = [closed EXCEPT ![c] = ~dead_[c]]
        /\ dead_' = [dead_ EXCEPT ![c] = TRUE]
    BY <1>3, Zenon DEF closeconn
  <2>4. dead_' \in [Conns -> BOOLEAN] /\ closed' \in [Conns -> BOOLEAN]
    BY <2>2, <2>3, Types, Zenon
  <2> QED BY <1>1, <2>1, <2>3, <2>4, QuietStep, Zenon DEF closeconn
<1> QED BY <1>2, <1>3, Zenon
-----------------------------------------------------------------------------
(* The listener.                                                           *)

(* There is a descriptor for the next connection: fewer were made than     *)
(* there are descriptors.                                                  *)
LEMMA FreeFd ==
  ASSUME IInv, made < MaxConns
  PROVE  LET free == Fds \ {fd_[c] : c \in {d \in Conns : Open(d)}} IN
         Min(free) \in Conns /\ \A c \in Conns : Open(c) => fd_[c] # Min(free)
<1> DEFINE O == {d \in Conns : Open(d)}
           used == {fd_[c] : c \in O}
           free == Fds \ used
<1>1. O \in SUBSET (1..made) /\ made \in Nat
  <2>1. made \in Nat
    BY Types, Zenon
  <2>2. \A d \in Conns : Open(d) => d \in 1..made
    BY <2>1, Constants DEF Conns, Open
  <2> QED BY <2>1, <2>2, Zenon
<1>2. IsFiniteSet(1..made) /\ Cardinality(1..made) = made
  <2>1. IsFiniteSet(1..made) /\ Cardinality(1..made) = IF 1 > made THEN 0 ELSE made - 1 + 1
    BY <1>1, FS_Interval
  <2> QED BY <1>1, <2>1
<1>3. IsFiniteSet(O) /\ Cardinality(O) <= made
  BY <1>1, <1>2, FS_Subset, Zenon
<1>4. IsFiniteSet(used) /\ Cardinality(used) <= Cardinality(O)
  <2> DEFINE f == [c \in O |-> fd_[c]]
  <2>1. f \in Surjection(O, used)
    BY Zenon DEF Surjection
  <2> HIDE DEF O, used, f
  <2> QED BY <1>3, <2>1, FS_Surjection, Zenon
<1>5. free # {}
  <2> HIDE DEF O, used
  <2>1. ASSUME free = {} PROVE FALSE
    <3>1. Conns \in SUBSET used
      BY <2>1, Constants, Zenon
    <3>2. MaxConns <= Cardinality(used)
      BY <1>4, <3>1, Constants, FS_Subset, Zenon
    <3>3. Cardinality(used) \in Nat /\ Cardinality(O) \in Nat
      BY <1>3, <1>4, FS_CardinalityType, Zenon
    <3> QED BY <1>1, <1>3, <1>4, <3>2, <3>3, Constants, SMTT(20)
  <2> QED BY <2>1, Zenon
<1>6. Min(free) \in free
  <2>1. free \in SUBSET Nat
    BY Constants, Zenon
  <2> HIDE DEF free
  <2> QED BY <1>5, <2>1, MinIsIn, Zenon
<1>7. Min(free) \in Conns /\ \A c \in Conns : Open(c) => fd_[c] # Min(free)
  BY <1>6, Constants, Zenon
<1> QED BY <1>7, Zenon

(* A connection is accepted: the only reference is that of the loop.       *)
LEMMA AcceptStep ==
  ASSUME IInv, NEW k \in Clients, Accept(k)
  PROVE  IInv'
<1> DEFINE ch == made + 1
           free == Fds \ {fd_[c] : c \in {d \in Conns : Open(d)}}
           fd == Min(free)
<1>0. /\ phase = "up" /\ acc = NoAccept /\ made < MaxConns /\ made' = ch
      /\ owner' = [owner EXCEPT ![ch] = k] /\ fd_' = [fd_ EXCEPT ![ch] = fd]
      /\ refno_' = [refno_ EXCEPT ![ch] = 1]
      /\ acc' = [ch |-> ch, todo |-> DOMAIN listener]
      /\ UNCHANGED <<q, worker, poll, pdus, leaked, newest, crashed, dead_, closed>>
      /\ UNCHANGED <<listener, latest, phase>>
  BY Zenon DEF Accept, poolVars
<1>1. fd \in Conns /\ \A c \in Conns : Open(c) => fd_[c] # fd
  BY <1>0, FreeFd, Zenon
<1> HIDE DEF fd, free
<1>2. /\ ch \in Conns /\ ch \in Nat /\ made \in Nat /\ ch <= MaxConns
      /\ \A x \in Nat : x <= made => x <= ch /\ x # ch
      /\ \A x \in Nat : x <= ch => x <= made \/ x = ch
      /\ \A x \in Nat : x > ch => x > made
  <2>1. made \in Nat /\ MaxConns \in Nat /\ made < MaxConns
    BY <1>0, Types, Constants, Zenon
  <2> QED BY <2>1 DEF Conns
<1>3. PICK t \in Nat : /\ ctime' = [ctime EXCEPT ![ch] = t]
                       /\ t >= 1 /\ t <= ch
  <2>1. PICK t \in (IF made = 0 THEN {1} ELSE {ctime[made], ctime[made] + 1}) :
               ctime' = [ctime EXCEPT ![ch] = t]
    BY Zenon DEF Accept
  <2>2. t \in Nat /\ t >= 1 /\ t <= ch
    <3>1. CASE made = 0
      BY <2>1, <3>1
    <3>2. CASE made # 0
      <4>1. made \in Conns
        <5>1. made \in Nat /\ MaxConns \in Nat /\ made < MaxConns
          BY <1>0, <1>2, Constants, Zenon
        <5> QED BY <3>2, <5>1 DEF Conns
      <4>2. made <= made
        BY <1>2
      <4>3. ctime[made] \in Nat /\ ctime[made] >= 1 /\ ctime[made] <= made
        BY <4>1, <4>2, Types, Zenon DEF IInv, TimesFit
      <4> QED BY <1>2, <2>1, <3>2, <4>3
    <3> QED BY <3>1, <3>2, Zenon
  <2> QED BY <2>1, <2>2, Zenon
<1>4. /\ ctime'[ch] = t /\ fd_'[ch] = fd /\ refno_'[ch] = 1
      /\ \A c \in Conns : c # ch =>
           ctime'[c] = ctime[c] /\ fd_'[c] = fd_[c] /\ refno_'[c] = refno_[c]
  BY <1>0, <1>2, <1>3, Types, Zenon
<1> HIDE DEF ch
<1>5. Typed'
  <2>1. made' \in 0..MaxConns
    BY <1>0, <1>2
  <2>2. owner' \in [Conns -> Clients]
    BY <1>0, Types, Zenon
  <2>3. ctime' \in [Conns -> Conns \cup {0}]
    <3>1. t \in Conns \cup {0}
      BY <1>2, <1>3, Constants DEF Conns
    <3>2. ctime \in [Conns -> Conns \cup {0}]
      BY Zenon DEF IInv, Typed, TypeOK
    <3> QED BY <1>3, <3>1, <3>2, Zenon
  <2>4. fd_' \in [Conns -> Fds \cup {0}]
    <3>1. fd \in Fds \cup {0} /\ fd_ \in [Conns -> Fds \cup {0}]
      BY <1>1, Constants, Zenon DEF IInv, Typed, TypeOK
    <3> QED BY <1>0, <3>1, Zenon
  <2>5. refno_' \in [Conns -> Nat]
    <3>1. 1 \in Nat
      OBVIOUS
    <3> QED BY <1>0, <3>1, Types, Zenon
  <2>6. acc' \in [ch : Conns \cup {NoConn}, todo : SUBSET Fds]
    BY <1>0, <1>2, Types, Constants, Zenon
  <2>7. TypeOK'
    BY <1>0, <2>1, <2>2, <2>3, <2>4, <2>5, <2>6, Zenon DEF IInv, Typed, TypeOK
  <2>8. listener' \in [DOMAIN listener' -> 1..made']
    <3>1. \A x \in 1..made : x \in 1..made'
      BY <1>0, <1>2
    <3> QED BY <1>0, <3>1, Types, Zenon
  <2>9. acc'.ch <= made'
    BY <1>0, <1>2
  <2>10. /\ poll' <= made' /\ \A j \in Clients : latest'[j] <= made'
         /\ \A n \in DOMAIN q' : q'[n].c <= made'
         /\ \A w \in Workers : worker'[w].c <= made'
    BY <1>0, <1>2, Referred, Zenon
  <2>11. \A c \in Conns : c > made' => leaked'[c] = 0
    BY <1>0, <1>2, Constants, Zenon DEF IInv, Typed
  <2> QED BY <2>7, <2>8, <2>9, <2>10, <2>11, Zenon DEF Typed
<1>6. Counted'
  <2> SUFFICES ASSUME NEW c \in Conns PROVE refno_'[c] = Refs(c)' + leaked'[c]
    BY Zenon DEF Counted
  <2>1. /\ Listed(c)' = Listed(c) /\ LatestFor(c)' = LatestFor(c) /\ JobsOf(c)' = JobsOf(c)
        /\ WorkersOn(c)' = WorkersOn(c) /\ Polled(c)' = Polled(c)
    BY <1>0, Zenon DEF Listed, LatestFor, JobsOf, WorkersOn, Polled
  <2>2. Cardinality(Accepted(c)) = 0
    <3>1. acc.ch # c
      BY <1>0, Constants DEF NoAccept
    <3> QED BY <3>1, OneOrNone, Zenon DEF Accepted
  <2>3. Cardinality(Accepted(c))' = IF c = ch THEN 1 ELSE 0
    <3>1. acc'.ch = ch
      BY <1>0
    <3> QED BY <3>1, OneOrNone, Zenon DEF Accepted
  <2>4. Numbers(c) /\ leaked'[c] = leaked[c] /\ refno_[c] = Refs(c) + leaked[c]
        /\ leaked[c] \in Nat
    BY <1>0, Places, Types, Zenon DEF IInv, Counted
  <2>5. CASE c # ch
    <3>1. Refs(c)' = Refs(c)
      BY <2>1, <2>2, <2>3, <2>5, Zenon DEF Refs
    <3> QED BY <1>4, <2>4, <2>5, <3>1, Zenon
  <2>6. CASE c = ch
    <3>1. /\ Listed(c) = {} /\ LatestFor(c) = {} /\ JobsOf(c) = {} /\ WorkersOn(c) = {}
          /\ Polled(c) = {}
      BY <1>2, <2>6, Referred, Zenon DEF Listed, LatestFor, JobsOf, WorkersOn, Polled
    <3>2. /\ Cardinality(Listed(c)) = 0 /\ Cardinality(LatestFor(c)) = 0
          /\ Cardinality(JobsOf(c)) = 0 /\ Cardinality(WorkersOn(c)) = 0
          /\ Cardinality(Polled(c)) = 0
      BY <3>1, FS_EmptySet, Zenon
    <3>3. leaked[c] = 0
      <4>1. ch > made
        BY <1>2
      <4> QED BY <2>6, <4>1, Zenon DEF IInv, Typed
    <3>4. Refs(c)' = 0 + 1 + 0 + 0 + 0 + 0
      BY <2>1, <2>3, <2>6, <3>2, Zenon DEF Refs
    <3> QED BY <1>4, <2>4, <2>6, <3>3, <3>4
  <2> QED BY <2>5, <2>6, Zenon
<1>7. WorkersFit'
  BY <1>0, Zenon DEF IInv, WorkersFit
<1>8. FdsFit'
  <2>1. \A f \in DOMAIN listener : /\ listener[f] \in Conns /\ listener[f] # ch
                                   /\ fd_[listener[f]] = f
    BY <1>2, Referred, Zenon DEF IInv, FdsFit
  <2>2. \A f \in DOMAIN listener' : fd_'[listener'[f]] = f /\ listener'[f] # acc'.ch
    <3>1. acc'.ch = ch
      BY <1>0
    <3> QED BY <1>0, <1>4, <2>1, <3>1, Zenon
  <2>3. \A c \in Conns : Open(c)' => c = ch \/ (c # ch /\ Open(c))
    <3>1. \A c \in Conns : c \in Nat
      BY Constants
    <3>2. ASSUME NEW c \in Conns, Open(c)', c # ch PROVE Open(c)
      <4>1. c <= ch /\ refno_'[c] > 0
        BY <1>0, <3>2, Zenon DEF Open
      <4> QED BY <1>2, <1>4, <3>1, <3>2, <4>1, Zenon DEF Open
    <3> QED BY <3>2, Zenon
  <2>4. \A c \in Conns : Open(c)' => fd_'[c] \in Fds
    <3>1. fd \in Fds
      BY <1>1, Constants, Zenon
    <3> QED BY <1>4, <2>3, <3>1, Zenon DEF IInv, FdsFit
  <2>5. \A c, d \in Conns : Open(c)' /\ Open(d)' /\ fd_'[c] = fd_'[d] => c = d
    <3> SUFFICES ASSUME NEW c \in Conns, NEW d \in Conns, Open(c)', Open(d)', fd_'[c] = fd_'[d],
                        c # d
                 PROVE  FALSE
      BY Zenon
    <3>1. CASE c = ch
      <4>1. d # ch /\ Open(d)
        BY <2>3, <3>1, Zenon
      <4> QED BY <1>1, <1>4, <3>1, <4>1, Zenon
    <3>2. CASE d = ch
      <4>1. c # ch /\ Open(c)
        BY <2>3, <3>2, Zenon
      <4> QED BY <1>1, <1>4, <3>2, <4>1, Zenon
    <3>3. CASE c # ch /\ d # ch
      <4>1. Open(c) /\ Open(d) /\ fd_[c] = fd_[d]
        BY <1>4, <2>3, <3>3, Zenon
      <4> QED BY <4>1, Zenon DEF IInv, FdsFit
    <3> QED BY <3>1, <3>2, <3>3, Zenon
  <2> QED BY <2>2, <2>4, <2>5, Zenon DEF FdsFit
<1>9. AcceptFits'
  <2>1. acc'.todo = DOMAIN listener /\ acc'.ch # NoConn
    BY <1>0, <1>2, Constants, Zenon
  <2> QED BY <1>0, <2>1, Zenon DEF AcceptFits
<1>10. TimesFit'
  <2>1. \A c \in Conns : ctime'[c] <= c /\ (c <= made' => ctime'[c] >= 1)
    <3>1. \A c \in Conns : c \in Nat
      BY Constants
    <3> QED BY <1>0, <1>2, <1>3, <1>4, <3>1, Zenon DEF IInv, TimesFit
  <2>2. \A j \in Clients : latest[j] # NoConn => ctime'[latest[j]] = ctime[latest[j]]
    <3>1. \A j \in Clients : latest[j] # NoConn => latest[j] \in Conns
                                                   /\ latest[j] \in Nat /\ latest[j] <= made
      BY Types, Constants, Zenon DEF IInv, Typed
    <3> QED BY <1>2, <1>4, <3>1, Zenon
  <2> QED BY <1>0, <2>1, <2>2, Zenon DEF IInv, TimesFit
<1> QED BY <1>5, <1>6, <1>7, <1>8, <1>9, <1>10, Zenon DEF IInv
(* The listener gives up the connection that it has under f.               *)
LEMMA DropStep ==
  ASSUME IInv, NEW f \in DOMAIN listener,
         listener' = Restrict(listener, DOMAIN listener \ {f}),
         refno_' = [refno_ EXCEPT ![listener[f]] = refno_[listener[f]] - 1],
         acc' \in [ch : Conns \cup {NoConn}, todo : SUBSET Fds], acc'.ch = acc.ch,
         acc'.todo \subseteq acc.todo \ {f},
         \/ phase' = phase /\ phase # "closing"
         \/ phase' = "close" /\ phase = "closing" /\ acc' = acc,
         UNCHANGED <<made, owner, ctime, fd_, poolVars, dead_, closed, latest>>
  PROVE  IInv'
<1> DEFINE c == listener[f]
<1>0. UNCHANGED <<q, worker, poll, pdus, leaked, newest, crashed>>
  BY Zenon DEF poolVars
<1>1. DOMAIN listener' = DOMAIN listener \ {f}
      /\ \A g \in DOMAIN listener \ {f} : listener'[g] = listener[g]
  BY Zenon DEF Restrict
<1>2. c \in Conns /\ refno_[c] >= 1 /\ refno_[c] \in Nat
  <2>1. c \in Conns
    BY Referred, Zenon
  <2> QED BY <2>1, HeldBy, Types, Zenon
<1> HIDE DEF c
<1>3. refno_[c] - 1 \in Nat
  BY <1>2
<1>4. /\ refno_' \in [Conns -> Nat] /\ refno_'[c] = refno_[c] - 1
      /\ \A d \in Conns : d # c => refno_'[d] = refno_[d]
  <2>1. refno_' = [refno_ EXCEPT ![c] = refno_[c] - 1]
    BY Zenon DEF c
  <2>2. refno_ \in [Conns -> Nat]
    BY Types, Zenon
  <2> QED BY <1>2, <1>3, <2>1, <2>2
<1>5. Typed'
  <2>1. listener' \in [DOMAIN listener' -> 1..made']
    <3>1. listener' = [g \in DOMAIN listener \ {f} |-> listener[g]]
      BY Zenon DEF Restrict
    <3>2. \A g \in DOMAIN listener \ {f} : listener[g] \in 1..made
      BY Types, Zenon
    <3> QED BY <1>1, <3>1, <3>2, Zenon
  <2>2. DOMAIN listener' \subseteq Fds /\ Range(listener') \subseteq Conns
    <3>1. \A g \in DOMAIN listener' : listener'[g] \in Conns
      BY <1>1, Referred, Zenon
    <3>2. \A g \in DOMAIN listener' : g \in Conns
      BY <1>1, Types, Zenon
    <3> QED BY <3>1, <3>2, Constants, ZenonT(40) DEF Range
  <2>3. phase' \in {"up", "join", "close", "closing", "drain", "gone"}
    BY Zenon DEF IInv, Typed, TypeOK
  <2>4. TypeOK'
    BY <1>0, <1>4, <2>2, <2>3, Zenon DEF IInv, Typed, TypeOK
  <2> QED BY <1>0, <2>1, <2>4, Zenon DEF IInv, Typed
<1>6. Counted'
  <2> SUFFICES ASSUME NEW d \in Conns PROVE refno_'[d] = Refs(d)' + leaked'[d]
    BY Zenon DEF Counted
  <2>1. /\ Accepted(d)' = Accepted(d) /\ LatestFor(d)' = LatestFor(d)
        /\ JobsOf(d)' = JobsOf(d) /\ WorkersOn(d)' = WorkersOn(d) /\ Polled(d)' = Polled(d)
    BY <1>0, Zenon DEF Accepted, LatestFor, JobsOf, WorkersOn, Polled
  <2>2. /\ Finite(d) /\ Numbers(d) /\ leaked'[d] = leaked[d] /\ leaked[d] \in Nat
        /\ refno_[d] = Refs(d) + leaked[d]
    BY <1>0, Places, Types, Zenon DEF IInv, Counted
  <2>3. CASE d # c
    <3>1. Listed(d)' = Listed(d)
      BY <1>1, <2>3, Zenon DEF Listed, c
    <3>2. Refs(d)' = Refs(d)
      BY <2>1, <3>1, Zenon DEF Refs
    <3> QED BY <1>4, <2>2, <2>3, <3>2, Zenon
  <2>4. CASE d = c
    <3>1. Listed(d)' = Listed(d) \ {f} /\ f \in Listed(d)
      BY <1>1, <2>4, Zenon DEF Listed, c
    <3>2. Cardinality(Listed(d))' = Cardinality(Listed(d)) - 1
      BY <2>2, <3>1, OneLess, Zenon DEF Finite
    <3>3. Refs(d)' = (Cardinality(Listed(d)) - 1) + Cardinality(Accepted(d))
                       + Cardinality(LatestFor(d)) + Cardinality(JobsOf(d))
                       + Cardinality(WorkersOn(d)) + Cardinality(Polled(d))
      BY <2>1, <3>2, ZenonT(40) DEF Refs
    <3>4. Refs(d)' = Refs(d) - 1
      BY <2>2, <3>3 DEF Numbers, Refs
    <3>5. Refs(d) \in Nat
      BY <2>2, Sum, Zenon DEF Numbers, Refs
    <3> QED BY <1>4, <2>2, <2>4, <3>4, <3>5, SMTT(20)
  <2> QED BY <2>3, <2>4, Zenon
<1>7. WorkersFit' /\ TimesFit'
  BY <1>0, Zenon DEF IInv, WorkersFit, TimesFit
<1>8. FdsFit'
  <2>1. \A d \in Conns : Open(d)' => Open(d)
    <3>1. refno_[c] > 0
      BY <1>2
    <3> QED BY <1>4, <3>1, Zenon DEF Open
  <2> QED BY <1>1, <2>1, FdsStay, Zenon
<1>9. AcceptFits'
  <2>1. acc'.todo \subseteq DOMAIN listener'
    BY <1>1, Zenon DEF IInv, AcceptFits
  <2>2. acc'.ch = NoConn => acc'.todo = {}
    BY Zenon DEF IInv, AcceptFits
  <2>3. phase' \notin {"up", "join"} => acc' = NoAccept
    <3>1. ASSUME phase' \notin {"up", "join"} PROVE acc = NoAccept
      BY <3>1, Zenon DEF IInv, AcceptFits
    <3>2. acc = NoAccept => acc.ch = NoConn /\ acc.todo = {}
      BY DEF NoAccept
    <3>3. acc'.ch = NoConn /\ acc'.todo = {} => acc' = NoAccept
      BY DEF NoAccept
    <3> QED BY <3>1, <3>2, <3>3, Zenon
  <2>4. phase' # "closing"
    OBVIOUS
  <2> QED BY <2>1, <2>2, <2>3, <2>4, Zenon DEF AcceptFits
<1> QED BY <1>5, <1>6, <1>7, <1>8, <1>9, Zenon DEF IInv

(* A turn of the loop that drops dead connections.                         *)
LEMMA CollectStep ==
  ASSUME IInv, Collect
  PROVE  IInv'
<1> DEFINE f == Min(acc.todo)
           c == listener[f]
<1>0. /\ acc # NoAccept /\ acc.todo # {} /\ acc' = [acc EXCEPT !.todo = acc.todo \ {f}]
      /\ IF dead_[c] /\ refno_[c] = 1
         THEN /\ refno_' = [refno_ EXCEPT ![c] = 0]
              /\ listener' = Restrict(listener, DOMAIN listener \ {f})
         ELSE UNCHANGED <<refno_, listener>>
      /\ UNCHANGED <<made, owner, ctime, fd_, phase, poolVars, dead_, closed, latest>>
  BY Zenon DEF Collect
<1>1. acc \in [ch : Conns \cup {NoConn}, todo : SUBSET Conns]
  BY Types, Zenon
<1>2. f \in acc.todo /\ f \in DOMAIN listener
  <2>1. acc.todo \in SUBSET Nat
    BY <1>1, Constants, Zenon
  <2>2. f \in acc.todo
    BY <1>0, <2>1, MinIsIn, Zenon
  <2> QED BY <2>2, Zenon DEF IInv, AcceptFits
<1> HIDE DEF f
<1>3. acc'.todo = acc.todo \ {f} /\ acc'.ch = acc.ch
      /\ acc' \in [ch : Conns \cup {NoConn}, todo : SUBSET Fds]
  <2>1. acc'.todo = acc.todo \ {f} /\ acc'.ch = acc.ch
        /\ acc' \in [ch : Conns \cup {NoConn}, todo : SUBSET Conns]
    BY <1>0, <1>1
  <2> QED BY <2>1, Constants, Zenon
<1>4. phase \in {"up", "join"}
  BY <1>0, Zenon DEF IInv, AcceptFits
<1>5. phase # "closing"
  BY <1>4
<1>6. CASE dead_[c] /\ refno_[c] = 1
  <2>1. refno_' = [refno_ EXCEPT ![listener[f]] = refno_[listener[f]] - 1]
    <3>1. refno_[c] - 1 = 0
      BY <1>6
    <3> QED BY <1>0, <1>6, <3>1, Zenon
  <2> QED BY <1>0, <1>2, <1>3, <1>5, <1>6, <2>1, DropStep, Zenon
<1>7. CASE ~(dead_[c] /\ refno_[c] = 1)
  <2>0. UNCHANGED <<refno_, listener, q, worker, poll, pdus, leaked, newest, crashed>>
    BY <1>0, <1>7, Zenon DEF poolVars
  <2>1. Typed'
    BY <1>0, <1>3, <2>0, Zenon DEF IInv, Typed, TypeOK
  <2>2. Counted'
    BY <1>0, <1>3, <2>0, PlacesStay, Zenon DEF IInv, Counted
  <2>3. WorkersFit' /\ TimesFit'
    BY <1>0, <2>0, Zenon DEF IInv, WorkersFit, TimesFit
  <2>4. FdsFit'
    BY <1>0, <1>3, <2>0, FdsStay, Zenon DEF Open
  <2>5. AcceptFits'
    BY <1>0, <1>3, <1>4, <1>5, <2>0, Zenon DEF IInv, AcceptFits
  <2> QED BY <2>1, <2>2, <2>3, <2>4, <2>5, Zenon DEF IInv
<1> QED BY <1>6, <1>7, Zenon

(* The listener drops what closeconn() closed.                             *)
LEMMA CloseDoneStep ==
  ASSUME IInv, CloseDone
  PROVE  IInv'
<1> DEFINE f == Min(DOMAIN listener)
<1>1. f \in DOMAIN listener
  <2>1. DOMAIN listener # {} /\ DOMAIN listener \in SUBSET Nat
    BY Types, Constants, Zenon DEF CloseDone, IInv, AcceptFits
  <2> QED BY <2>1, MinIsIn, Zenon
<1>2. acc = NoAccept
  BY DEF CloseDone, IInv, AcceptFits
<1>3. acc' = acc /\ acc'.todo = {} /\ acc' \in [ch : Conns \cup {NoConn}, todo : SUBSET Fds]
  <2>1. acc' = acc /\ acc.todo = {}
    BY <1>2 DEF CloseDone, NoAccept
  <2> QED BY <2>1, Types, Constants, Zenon
<1>4. /\ phase' = "close" /\ phase = "closing"
      /\ refno_' = [refno_ EXCEPT ![listener[f]] = refno_[listener[f]] - 1]
      /\ listener' = Restrict(listener, DOMAIN listener \ {f})
      /\ UNCHANGED <<made, owner, ctime, fd_, poolVars, dead_, closed, latest>>
  BY Zenon DEF CloseDone
<1> HIDE DEF f
<1> QED BY <1>1, <1>3, <1>4, DropStep, Zenon
(* conns_[ch->channo()] = ch: no connection is lost, since the descriptor  *)
(* is of no other open one.                                                *)
LEMMA InsertStep ==
  ASSUME IInv, Insert
  PROVE  IInv'
<1> DEFINE ch == acc.ch
           f == fd_[acc.ch]
<1>0. /\ acc # NoAccept /\ acc.todo = {} /\ acc' = NoAccept
      /\ listener' = [g \in DOMAIN listener \cup {f} |-> IF g = f THEN ch ELSE listener[g]]
      /\ UNCHANGED <<made, owner, ctime, fd_, phase, dead_, closed, refno_, latest>>
      /\ UNCHANGED <<q, worker, poll, pdus, leaked, newest, crashed>>
  BY Zenon DEF Insert, poolVars
<1>1. acc \in [ch : Conns \cup {NoConn}, todo : SUBSET Conns] /\ ch <= made /\ made \in Nat
      /\ made <= MaxConns
  BY Types, Zenon
<1>2. ch \in Conns
  <2>1. acc.ch # NoConn
    BY <1>0, <1>1, Zenon DEF NoAccept
  <2> QED BY <1>1, <2>1, Zenon
<1>3. ch \in 1..made
  BY <1>1, <1>2, Constants DEF Conns
<1>4. Open(ch)
  <2>1. refno_[ch] >= 1 /\ refno_[ch] \in Nat
    BY <1>2, HeldBy, Types, Zenon
  <2> QED BY <1>1, <2>1 DEF Open
<1>5. f \in Conns
  BY <1>2, <1>4, Constants, Zenon DEF IInv, FdsFit
<1>6. f \notin DOMAIN listener
  <2> SUFFICES ASSUME f \in DOMAIN listener PROVE FALSE
    BY Zenon
  <2>1. listener[f] \in Conns /\ fd_[listener[f]] = f /\ listener[f] # ch /\ listener[f] <= made
    BY Referred, Zenon DEF IInv, FdsFit
  <2>2. Open(listener[f])
    <3>1. refno_[listener[f]] >= 1 /\ refno_[listener[f]] \in Nat
      BY <2>1, HeldBy, Types, Zenon
    <3> QED BY <2>1, <3>1 DEF Open
  <2> QED BY <1>2, <1>4, <2>1, <2>2, Zenon DEF IInv, FdsFit
<1>f. f = fd_[ch]
  OBVIOUS
<1>c. ch = acc.ch
  OBVIOUS
<1> HIDE DEF f, ch
<1>7. /\ DOMAIN listener' = DOMAIN listener \cup {f} /\ listener'[f] = ch
      /\ \A g \in DOMAIN listener : listener'[g] = listener[g]
  BY <1>0, <1>6, Zenon
<1>8. acc'.ch = NoConn /\ acc'.todo = {}
  BY <1>0 DEF NoAccept
<1>9. Typed'
  <2>1. listener' \in [DOMAIN listener' -> 1..made']
    <3>1. \A g \in DOMAIN listener \cup {f} : (IF g = f THEN ch ELSE listener[g]) \in 1..made
      BY <1>3, Types, Zenon
    <3> QED BY <1>0, <1>7, <3>1, Zenon
  <2>2. DOMAIN listener' \subseteq Fds /\ Range(listener') \subseteq Conns
    <3>1. \A g \in DOMAIN listener' : listener'[g] \in Conns
      BY <1>2, <1>7, Referred, Zenon
    <3>2. \A g \in DOMAIN listener' : g \in Conns
      BY <1>5, <1>7, Types, Zenon
    <3> QED BY <3>1, <3>2, Constants, Zenon DEF Range
  <2>3. acc' \in [ch : Conns \cup {NoConn}, todo : SUBSET Fds] /\ acc'.ch <= made'
    <3>1. acc' \in [ch : Conns \cup {NoConn}, todo : SUBSET Fds]
      BY <1>0 DEF NoAccept
    <3> QED BY <1>0, <1>1, <1>8, <3>1, Constants, SMTT(20)
  <2>4. TypeOK'
    BY <1>0, <2>2, <2>3, Zenon DEF IInv, Typed, TypeOK
  <2> QED BY <1>0, <2>1, <2>3, <2>4, Zenon DEF IInv, Typed
<1>10. Counted'
  <2> SUFFICES ASSUME NEW d \in Conns PROVE refno_'[d] = Refs(d)' + leaked'[d]
    BY Zenon DEF Counted
  <2>1. /\ LatestFor(d)' = LatestFor(d) /\ JobsOf(d)' = JobsOf(d)
        /\ WorkersOn(d)' = WorkersOn(d) /\ Polled(d)' = Polled(d)
    BY <1>0, Zenon DEF LatestFor, JobsOf, WorkersOn, Polled
  <2>2. /\ Finite(d) /\ Numbers(d) /\ leaked'[d] = leaked[d] /\ refno_'[d] = refno_[d]
        /\ refno_[d] = Refs(d) + leaked[d]
    BY <1>0, Places, Types, Zenon DEF IInv, Counted
  <2>3. /\ Cardinality(Accepted(d)) = IF ch = d THEN 1 ELSE 0
        /\ Cardinality(Accepted(d))' = 0
    <3>1. acc'.ch # d
      BY <1>8, Constants, Zenon
    <3> QED BY <1>c, <3>1, OneOrNone, Zenon DEF Accepted
  <2>4. Cardinality(Listed(d))' = Cardinality(Listed(d)) + (IF ch = d THEN 1 ELSE 0)
    <3>1. CASE d = ch
      <4>1. Listed(d)' = Listed(d) \cup {f} /\ f \notin Listed(d)
        BY <1>6, <1>7, <3>1, Zenon DEF Listed
      <4>2. Cardinality(Listed(d))' = Cardinality(Listed(d)) + 1
        BY <2>2, <4>1, OneMore, Zenon DEF Finite
      <4> QED BY <3>1, <4>2, Zenon
    <3>2. CASE d # ch
      <4>1. Listed(d)' = Listed(d)
        BY <1>7, <3>2, Zenon DEF Listed
      <4> QED BY <2>2, <3>2, <4>1 DEF Numbers
    <3> QED BY <3>1, <3>2, Zenon
  <2>5. Cardinality(Listed(d))' + Cardinality(Accepted(d))'
          = Cardinality(Listed(d)) + Cardinality(Accepted(d))
    BY <2>2, <2>3, <2>4 DEF Numbers
  <2>6. Refs(d)' = Refs(d)
    BY <2>1, <2>5, Zenon DEF Refs
  <2> QED BY <2>2, <2>6, Zenon
<1>11. WorkersFit' /\ TimesFit'
  BY <1>0, Zenon DEF IInv, WorkersFit, TimesFit
<1>12. FdsFit'
  <2>1. \A g \in DOMAIN listener' : fd_'[listener'[g]] = g
    BY <1>0, <1>7, <1>f, Zenon DEF IInv, FdsFit
  <2>2. \A g \in DOMAIN listener' : listener'[g] # acc'.ch
    BY <1>2, <1>7, <1>8, Referred, Constants, Zenon
  <2>3. \A d \in Conns : Open(d)' <=> Open(d)
    BY <1>0, Zenon DEF Open
  <2>4. /\ \A d \in Conns : Open(d)' => fd_'[d] \in Fds
        /\ \A d, e \in Conns : Open(d)' /\ Open(e)' /\ fd_'[d] = fd_'[e] => d = e
    BY <1>0, <2>3, Zenon DEF IInv, FdsFit
  <2> QED BY <2>1, <2>2, <2>4, Zenon DEF FdsFit
<1>13. AcceptFits'
  <2>1. phase' = "closing" => DOMAIN listener' # {}
    BY <1>7, Zenon
  <2> QED BY <1>0, <1>8, <2>1, Zenon DEF AcceptFits
<1> QED BY <1>9, <1>10, <1>11, <1>12, <1>13, Zenon DEF IInv
-----------------------------------------------------------------------------
(* The poll thread and the pool.                                           *)

One(b) == IF b THEN 1 ELSE 0

OnlyWorker(w) == \A v \in Workers : v # w => worker'[v] = worker[v]
OnlyClient(k) == \A j \in Clients : j # k => latest'[j] = latest[j]

WorkerMoved(w, d) ==
  Cardinality(WorkersOn(d))'
    = Cardinality(WorkersOn(d)) - One(worker[w].c = d) + One(worker'[w].c = d)
LatestMoved(k, d) ==
  Cardinality(LatestFor(d))'
    = Cardinality(LatestFor(d)) - One(latest[k] = d) + One(latest'[k] = d)

(* A worker turns from one connection to another, or none.                 *)
LEMMA WorkerMoves ==
  ASSUME IInv, NEW w \in Workers, NEW d, OnlyWorker(w)
  PROVE  WorkerMoved(w, d)
<1>1. IsFiniteSet(WorkersOn(d)) /\ Cardinality(WorkersOn(d)) \in Nat
  BY Places, Zenon DEF IInv, Finite, Numbers
<1>2. CASE worker[w].c = d /\ worker'[w].c = d
  <2>1. WorkersOn(d)' = WorkersOn(d)
    BY <1>2, Zenon DEF WorkersOn, OnlyWorker
  <2> QED BY <1>1, <1>2, <2>1 DEF One, WorkerMoved
<1>3. CASE worker[w].c = d /\ worker'[w].c # d
  <2>1. WorkersOn(d)' = WorkersOn(d) \ {w} /\ w \in WorkersOn(d)
    <3>1. /\ \A v \in WorkersOn(d)' : v \in WorkersOn(d) \ {w}
          /\ \A v \in WorkersOn(d) \ {w} : v \in WorkersOn(d)'
      BY <1>3, Zenon DEF WorkersOn, OnlyWorker
    <3>2. w \in WorkersOn(d)
      BY <1>3, Zenon DEF WorkersOn, OnlyWorker
    <3> QED BY <3>1, <3>2, Zenon
  <2>2. Cardinality(WorkersOn(d))' = Cardinality(WorkersOn(d)) - 1
    BY <1>1, <2>1, OneLess, Zenon
  <2> QED BY <1>1, <1>3, <2>2 DEF One, WorkerMoved
<1>4. CASE worker[w].c # d /\ worker'[w].c = d
  <2>1. WorkersOn(d)' = WorkersOn(d) \cup {w} /\ w \notin WorkersOn(d)
    BY <1>4, Zenon DEF WorkersOn, OnlyWorker
  <2>2. Cardinality(WorkersOn(d))' = Cardinality(WorkersOn(d)) + 1
    BY <1>1, <2>1, OneMore, Zenon
  <2> QED BY <1>1, <1>4, <2>2 DEF One, WorkerMoved
<1>5. CASE worker[w].c # d /\ worker'[w].c # d
  <2>1. WorkersOn(d)' = WorkersOn(d)
    BY <1>5, Zenon DEF WorkersOn, OnlyWorker
  <2> QED BY <1>1, <1>5, <2>1 DEF One, WorkerMoved
<1> QED BY <1>2, <1>3, <1>4, <1>5, Zenon

(* A client's entry of conns_ changes.                                     *)
LEMMA LatestMoves ==
  ASSUME IInv, NEW k \in Clients, NEW d, OnlyClient(k)
  PROVE  LatestMoved(k, d)
<1>1. IsFiniteSet(LatestFor(d)) /\ Cardinality(LatestFor(d)) \in Nat
  BY Places, Zenon DEF IInv, Finite, Numbers
<1>2. CASE latest[k] = d /\ latest'[k] = d
  <2>1. LatestFor(d)' = LatestFor(d)
    BY <1>2, Zenon DEF LatestFor, OnlyClient
  <2> QED BY <1>1, <1>2, <2>1 DEF One, LatestMoved
<1>3. CASE latest[k] = d /\ latest'[k] # d
  <2>1. LatestFor(d)' = LatestFor(d) \ {k} /\ k \in LatestFor(d)
    <3>1. /\ \A j \in LatestFor(d)' : j \in LatestFor(d) \ {k}
          /\ \A j \in LatestFor(d) \ {k} : j \in LatestFor(d)'
      BY <1>3, Zenon DEF LatestFor, OnlyClient
    <3>2. k \in LatestFor(d)
      BY <1>3, Zenon DEF LatestFor, OnlyClient
    <3> QED BY <3>1, <3>2, Zenon
  <2>2. Cardinality(LatestFor(d))' = Cardinality(LatestFor(d)) - 1
    BY <1>1, <2>1, OneLess, Zenon
  <2> QED BY <1>1, <1>3, <2>2, SMTT(20) DEF One, LatestMoved
<1>4. CASE latest[k] # d /\ latest'[k] = d
  <2>1. LatestFor(d)' = LatestFor(d) \cup {k} /\ k \notin LatestFor(d)
    BY <1>4, Zenon DEF LatestFor, OnlyClient
  <2>2. Cardinality(LatestFor(d))' = Cardinality(LatestFor(d)) + 1
    BY <1>1, <2>1, OneMore, Zenon
  <2> QED BY <1>1, <1>4, <2>2 DEF One, LatestMoved
<1>5. CASE latest[k] # d /\ latest'[k] # d
  <2>1. LatestFor(d)' = LatestFor(d)
    BY <1>5, Zenon DEF LatestFor, OnlyClient
  <2> QED BY <1>1, <1>5, <2>1 DEF One, LatestMoved
<1> QED BY <1>2, <1>3, <1>4, <1>5, Zenon

(* The poll thread and the workers leave the listener alone; what has to   *)
(* be shown of a step of theirs.                                           *)
PoolTyped ==
  /\ refno_ \in [Conns -> Nat] /\ leaked \in [Conns -> Nat]
  /\ latest \in [Clients -> Conns \cup {NoConn}] /\ \A k \in Clients : latest[k] <= made
  /\ q \in Seq(JobType) /\ Len(q) <= MaxQueue /\ \A n \in DOMAIN q : q[n].c <= made
  /\ worker \in [Workers -> WorkerType] /\ \A w \in Workers : worker[w].c <= made
  /\ poll \in Conns \cup {NoConn} /\ poll <= made /\ pdus \in 0..MaxPdus
  /\ newest \in [Clients -> Conns \cup {0}] /\ crashed \in Clients \cup {Nobody}
  /\ \A c \in Conns : c > made => leaked[c] = 0

(* What PoolTyped says holds.                                              *)
LEMMA PoolTypes ==
  ASSUME IInv
  PROVE  PoolTyped
  BY Zenon DEF IInv, Typed, TypeOK, PoolTyped, JobType, WorkerType

(* It is enough to show the parts that these threads touch.                *)
LEMMA PoolStep ==
  ASSUME IInv, UNCHANGED <<connVars, dead_, closed>>, PoolTyped', Counted', WorkersFit',
         TimesFit', \A c \in Conns : refno_'[c] > 0 => refno_[c] > 0
  PROVE  IInv'
<1>0. UNCHANGED <<made, owner, ctime, fd_, listener, acc, phase>>
  BY Zenon DEF connVars
<1>1. Typed'
  BY <1>0, Zenon DEF IInv, Typed, TypeOK, PoolTyped, JobType, WorkerType
<1>2. FdsFit'
  BY <1>0, FdsStay, Zenon DEF Open
<1>3. AcceptFits'
  BY <1>0, Zenon DEF IInv, AcceptFits
<1> QED BY <1>1, <1>2, <1>3, Zenon DEF IInv

(* Nothing else moves when a job is queued or the poll thread gets stuck.  *)
LEMMA got_pduStep ==
  ASSUME IInv, NEW c \in Conns, NEW kind \in Kinds, got_pdu(c, kind)
  PROVE  IInv'
<1>0. /\ Watched(c) /\ pdus < MaxPdus /\ refno_' = [refno_ EXCEPT ![c] = refno_[c] + 1]
      /\ UNCHANGED <<connVars, worker, leaked, newest, crashed, dead_, closed, latest>>
      /\ \/ /\ Len(q) < MaxQueue /\ q' = Append(q, [c |-> c, kind |-> kind])
            /\ pdus' = pdus + 1 /\ poll' = poll
         \/ poll' = c /\ q' = q /\ pdus' = pdus
  BY Zenon DEF got_pdu
<1>a. UNCHANGED <<made, owner, ctime, fd_, listener, acc, phase>>
  BY <1>0, Zenon DEF connVars
<1>1. c <= made /\ refno_[c] > 0 /\ poll = NoConn
  BY <1>0, Zenon DEF Watched, Open
<1>2. /\ refno_' \in [Conns -> Nat] /\ refno_'[c] = refno_[c] + 1
      /\ \A d \in Conns : d # c => refno_'[d] = refno_[d]
  <2>1. refno_ \in [Conns -> Nat]
    BY Types, Zenon
  <2> QED BY <1>0, <2>1
<1>3. /\ q \in Seq(JobType) /\ Len(q) \in Nat /\ MaxQueue \in Nat /\ Len(q) <= MaxQueue
      /\ pdus \in 0..MaxPdus /\ MaxPdus \in Nat /\ DOMAIN q = 1..Len(q)
  <2>1. /\ q \in Seq(JobType) /\ MaxQueue \in Nat /\ Len(q) <= MaxQueue
        /\ pdus \in 0..MaxPdus /\ MaxPdus \in Nat
    BY Types, PoolTypes, Constants, Zenon DEF PoolTyped
  <2> QED BY <2>1
<1>4. CASE /\ Len(q) < MaxQueue /\ q' = Append(q, [c |-> c, kind |-> kind])
           /\ pdus' = pdus + 1 /\ poll' = poll
  <2>1. [c |-> c, kind |-> kind] \in JobType
    BY Zenon DEF JobType
  <2>2. /\ q' \in Seq(JobType) /\ Len(q') = Len(q) + 1 /\ DOMAIN q' = 1..(Len(q) + 1)
        /\ q'[Len(q) + 1] = [c |-> c, kind |-> kind]
        /\ \A n \in 1..Len(q) : q'[n] = q[n]
    BY <1>3, <1>4, <2>1
  <2>3. DOMAIN q' = DOMAIN q \cup {Len(q) + 1} /\ Len(q) + 1 \notin DOMAIN q
    <3>1. DOMAIN q = 1..Len(q) /\ DOMAIN q' = 1..(Len(q) + 1) /\ Len(q) \in Nat
      BY <1>3, <2>2, Zenon
    <3> QED BY <3>1
  <2>4. Len(q') <= MaxQueue /\ pdus' \in 0..MaxPdus
    <3>1. /\ Len(q') = Len(q) + 1 /\ Len(q) \in Nat /\ MaxQueue \in Nat /\ Len(q) < MaxQueue
          /\ pdus' = pdus + 1 /\ pdus \in 0..MaxPdus /\ MaxPdus \in Nat /\ pdus < MaxPdus
      BY <1>0, <1>3, <1>4, <2>2, Zenon
    <3> QED BY <3>1
  <2>5. q'[Len(q) + 1].c = c
    BY <2>2
  <2>6. PoolTyped'
    <3>1. \A n \in DOMAIN q' : q'[n].c <= made'
      BY <1>1, <1>3, <1>a, <2>2, <2>3, <2>5, Referred, Zenon
    <3> QED BY <1>0, <1>2, <1>4, <1>a, <2>2, <2>4, <3>1, PoolTypes, Zenon DEF PoolTyped
  <2>7. Counted'
    <3> SUFFICES ASSUME NEW d \in Conns PROVE refno_'[d] = Refs(d)' + leaked'[d]
      BY Zenon DEF Counted
    <3>1. /\ Listed(d)' = Listed(d) /\ Accepted(d)' = Accepted(d)
          /\ LatestFor(d)' = LatestFor(d)
          /\ WorkersOn(d)' = WorkersOn(d) /\ Polled(d)' = Polled(d)
      BY <1>0, <1>4, <1>a, Zenon DEF Listed, Accepted, LatestFor, WorkersOn, Polled
    <3>2. /\ Finite(d) /\ Numbers(d) /\ leaked'[d] = leaked[d] /\ leaked[d] \in Nat
          /\ refno_[d] = Refs(d) + leaked[d]
      BY <1>0, Places, Types, Zenon DEF IInv, Counted
    <3>3. CASE d # c
      <4>1. JobsOf(d)' = JobsOf(d)
        BY <1>3, <2>2, <2>3, <2>5, <3>3, Zenon DEF JobsOf
      <4>2. Refs(d)' = Refs(d)
        BY <3>1, <4>1, Zenon DEF Refs
      <4> QED BY <1>2, <3>2, <3>3, <4>2, Zenon
    <3>4. CASE d = c
      <4>1. JobsOf(d)' = JobsOf(d) \cup {Len(q) + 1} /\ Len(q) + 1 \notin JobsOf(d)
        BY <1>3, <2>2, <2>3, <2>5, <3>4, Zenon DEF JobsOf
      <4>2. Cardinality(JobsOf(d))' = Cardinality(JobsOf(d)) + 1
        BY <3>2, <4>1, OneMore, ZenonT(40) DEF Finite
      <4>3. Refs(d)' = Refs(d) + 1
        BY <3>1, <3>2, <4>2 DEF Numbers, Refs
      <4>4. Refs(d) \in Nat
        BY <3>2, Sum, Zenon DEF Numbers, Refs
      <4> QED BY <1>2, <3>2, <3>4, <4>3, <4>4, SMTT(20)
    <3> QED BY <3>3, <3>4, Zenon
  <2>8. WorkersFit' /\ TimesFit'
    BY <1>0, <1>a, Zenon DEF IInv, WorkersFit, TimesFit
  <2> QED BY <1>0, <1>1, <1>2, <2>6, <2>7, <2>8, PoolStep, Zenon
<1>5. CASE poll' = c /\ q' = q /\ pdus' = pdus
  <2>1. PoolTyped'
    BY <1>0, <1>1, <1>2, <1>5, <1>a, PoolTypes, ZenonT(40) DEF PoolTyped
  <2>2. Counted'
    <3> SUFFICES ASSUME NEW d \in Conns PROVE refno_'[d] = Refs(d)' + leaked'[d]
      BY Zenon DEF Counted
    <3>1. /\ Listed(d)' = Listed(d) /\ Accepted(d)' = Accepted(d)
          /\ LatestFor(d)' = LatestFor(d)
          /\ WorkersOn(d)' = WorkersOn(d) /\ JobsOf(d)' = JobsOf(d)
      BY <1>0, <1>5, <1>a, Zenon DEF Listed, Accepted, LatestFor, WorkersOn, JobsOf
    <3>2. /\ Numbers(d) /\ leaked'[d] = leaked[d] /\ leaked[d] \in Nat
          /\ refno_[d] = Refs(d) + leaked[d]
      BY <1>0, Places, Types, Zenon DEF IInv, Counted
    <3>3. /\ Cardinality(Polled(d)) = 0
          /\ Cardinality(Polled(d))' = IF c = d THEN 1 ELSE 0
      <4>1. poll # d
        BY <1>1, Constants, Zenon
      <4> QED BY <1>5, <4>1, OneOrNone, Zenon DEF Polled
    <3>4. Refs(d)' = Refs(d) + (IF c = d THEN 1 ELSE 0)
      BY <3>1, <3>2, <3>3 DEF Numbers, Refs
    <3>5. Refs(d) \in Nat
      BY <3>2, Sum, Zenon DEF Numbers, Refs
    <3> QED BY <1>2, <3>2, <3>4, <3>5, SMTT(20)
  <2>3. WorkersFit' /\ TimesFit'
    BY <1>0, <1>a, Zenon DEF IInv, WorkersFit, TimesFit
  <2> QED BY <1>0, <1>1, <1>2, <2>1, <2>2, <2>3, PoolStep, Zenon
<1> QED BY <1>0, <1>4, <1>5, Zenon

(* The reference taken for a PDU that the pool refused is dropped.         *)
LEMMA RefusedStep ==
  ASSUME IInv, Refused
  PROVE  IInv'
<1>0. /\ poll # NoConn /\ refno_' = [refno_ EXCEPT ![poll] = refno_[poll] - 1]
      /\ poll' = NoConn
      /\ UNCHANGED <<connVars, q, worker, pdus, leaked, newest, crashed, dead_, closed>>
      /\ latest' = latest
  BY Zenon DEF Refused
<1>a. UNCHANGED <<made, owner, ctime, fd_, listener, acc, phase>>
  BY <1>0, Zenon DEF connVars
<1>1. poll \in Conns /\ refno_[poll] >= 1
  <2>1. poll \in Conns
    BY <1>0, Types, Zenon
  <2> QED BY <2>1, HeldBy, Zenon
<1>2. /\ refno_' \in [Conns -> Nat] /\ refno_'[poll] = refno_[poll] - 1
      /\ \A d \in Conns : d # poll => refno_'[d] = refno_[d]
  <2>1. refno_ \in [Conns -> Nat]
    BY Types, Zenon
  <2>2. refno_[poll] - 1 \in Nat
    BY <1>1, <2>1
  <2> QED BY <1>0, <1>1, <2>1, <2>2, Zenon
<1>3. PoolTyped'
  <2>1. poll' <= made'
    <3>1. made \in Nat
      BY Types, Zenon
    <3> QED BY <1>0, <1>a, <3>1, Constants
  <2> QED BY <1>0, <1>2, <1>a, <2>1, PoolTypes, Zenon DEF PoolTyped
<1>4. Counted'
  <2> SUFFICES ASSUME NEW d \in Conns PROVE refno_'[d] = Refs(d)' + leaked'[d]
    BY Zenon DEF Counted
  <2>1. /\ Listed(d)' = Listed(d) /\ Accepted(d)' = Accepted(d)
        /\ LatestFor(d)' = LatestFor(d)
        /\ WorkersOn(d)' = WorkersOn(d) /\ JobsOf(d)' = JobsOf(d)
    BY <1>0, <1>a, Zenon DEF Listed, Accepted, LatestFor, WorkersOn, JobsOf
  <2>2. /\ Numbers(d) /\ leaked'[d] = leaked[d] /\ leaked[d] \in Nat
        /\ refno_[d] = Refs(d) + leaked[d]
    BY <1>0, Places, Types, Zenon DEF IInv, Counted
  <2>3. /\ Cardinality(Polled(d))' = 0
        /\ Cardinality(Polled(d)) = IF poll = d THEN 1 ELSE 0
    <3>1. poll' # d
      BY <1>0, Constants, Zenon
    <3> QED BY <3>1, OneOrNone, Zenon DEF Polled
  <2>4. Refs(d) = Refs(d)' + (IF poll = d THEN 1 ELSE 0)
    BY <2>1, <2>2, <2>3 DEF Numbers, Refs
  <2>5. Refs(d) \in Nat
    BY <2>2, Sum, Zenon DEF Numbers, Refs
  <2>6. CASE poll = d
    <3>1. Refs(d)' = Refs(d) - 1
      <4>1. Refs(d)' \in Nat
        BY <2>1, <2>2, <2>3 DEF Numbers, Refs
      <4> QED BY <2>4, <2>6, <4>1, SMTT(20)
    <3> QED BY <1>2, <2>2, <2>5, <2>6, <3>1, SMTT(20)
  <2>7. CASE poll # d
    <3>1. Refs(d)' = Refs(d)
      <4>1. Refs(d)' \in Nat
        BY <2>1, <2>2, <2>3 DEF Numbers, Refs
      <4> QED BY <2>4, <2>7, <4>1, SMTT(20)
    <3> QED BY <1>2, <2>2, <2>7, <3>1, Zenon
  <2> QED BY <2>6, <2>7, Zenon
<1>5. WorkersFit' /\ TimesFit'
  BY <1>0, <1>a, Zenon DEF IInv, WorkersFit, TimesFit
<1>6. \A c \in Conns : refno_'[c] > 0 => refno_[c] > 0
  <2>1. refno_[poll] > 0
    <3>1. refno_ \in [Conns -> Nat]
      BY Types, Zenon
    <3> QED BY <1>1, <3>1
  <2> QED BY <1>2, <2>1, Zenon
<1> QED BY <1>0, <1>3, <1>4, <1>5, <1>6, PoolStep, Zenon

(* The reference of the job becomes that of the worker.                    *)
LEMMA TakeJobStep ==
  ASSUME IInv, NEW w \in Workers, TakeJob(w)
  PROVE  IInv'
<1> DEFINE j == Head(q)
           at == CASE j.kind = "short" -> "drop"
                   [] j.kind = "old" -> "send"
                   [] j.kind = "good" /\ owner[j.c] = Anonymous -> "run"
                   [] OTHER -> "save"
           r == [c |-> j.c, old |-> j.kind = "old", at |-> at]
<1>0. /\ worker[w].at = "idle" /\ q # <<>> /\ worker' = [worker EXCEPT ![w] = r] /\ q' = Tail(q)
      /\ UNCHANGED <<connVars, poll, pdus, leaked, newest, crashed, dead_, closed, refno_>>
      /\ latest' = latest
  BY Zenon DEF TakeJob
<1>a. UNCHANGED <<made, owner, ctime, fd_, listener, acc, phase>>
  BY <1>0, Zenon DEF connVars
<1>1. q \in Seq(JobType) /\ worker \in [Workers -> WorkerType]
  BY Types, Zenon
<1>2. /\ j = q[1] /\ 1 \in DOMAIN q /\ j \in JobType /\ q' \in Seq(JobType)
      /\ Len(q') = Len(q) - 1 /\ Len(q) \in Nat
      /\ \A n \in DOMAIN q' : n + 1 \in DOMAIN q /\ q'[n] = q[n + 1]
  BY <1>0, <1>1
<1>3. j.c \in Conns /\ j.c <= made
  BY <1>2, Referred, Zenon
<1>4. at \in {"drop", "send", "run", "save"}
  BY Zenon
<1> HIDE DEF at
<1>5. r \in WorkerType /\ r.c = j.c /\ r.at = at
  <2>1. (j.kind = "old") \in BOOLEAN
    OBVIOUS
  <2> HIDE DEF j
  <2> QED BY <1>3, <1>4, <2>1, Zenon DEF WorkerType
<1> HIDE DEF r, j
<1>6. /\ worker' \in [Workers -> WorkerType] /\ worker'[w] = r
      /\ \A v \in Workers : v # w => worker'[v] = worker[v]
  BY <1>0, <1>1, <1>5, Zenon
<1>7. worker[w].c = NoConn
  BY <1>0, Zenon DEF IInv, WorkersFit
<1>8. PoolTyped'
  <2>1. Len(q') <= MaxQueue
    <3>1. Len(q) <= MaxQueue /\ MaxQueue \in Nat
      BY PoolTypes, Constants, Zenon DEF PoolTyped
    <3> QED BY <1>2, <3>1
  <2>2. \A n \in DOMAIN q' : q'[n].c <= made'
    BY <1>2, <1>a, Referred, Zenon
  <2>3. \A v \in Workers : worker'[v].c <= made'
    BY <1>3, <1>5, <1>6, <1>a, Referred, Zenon
  <2> QED BY <1>0, <1>2, <1>6, <1>a, <2>1, <2>2, <2>3, PoolTypes, Zenon DEF PoolTyped
<1>9. Counted'
  <2> SUFFICES ASSUME NEW d \in Conns PROVE refno_'[d] = Refs(d)' + leaked'[d]
    BY Zenon DEF Counted
  <2>1. /\ Listed(d)' = Listed(d) /\ Accepted(d)' = Accepted(d)
        /\ LatestFor(d)' = LatestFor(d) /\ Polled(d)' = Polled(d)
    BY <1>0, <1>a, Zenon DEF Listed, Accepted, LatestFor, Polled
  <2>2. /\ Numbers(d) /\ leaked'[d] = leaked[d] /\ refno_'[d] = refno_[d]
        /\ refno_[d] = Refs(d) + leaked[d]
    BY <1>0, Places, Types, Zenon DEF IInv, Counted
  <2>3. /\ Cardinality(WorkersOn(d)) \in Nat
        /\ Cardinality(WorkersOn(d))' = Cardinality(WorkersOn(d)) - 0 + One(j.c = d)
    <3>1. One(worker[w].c = d) = 0
      BY <1>7, Constants, Zenon DEF One
    <3>2. worker'[w].c = j.c
      BY <1>5, <1>6, Zenon
    <3>3. Cardinality(WorkersOn(d))'
            = Cardinality(WorkersOn(d)) - One(worker[w].c = d) + One(worker'[w].c = d)
      <4>1. OnlyWorker(w)
        BY <1>6, Zenon DEF OnlyWorker
      <4>2. WorkerMoved(w, d)
        BY <4>1, WorkerMoves, Zenon
      <4> QED BY <4>2, Zenon DEF WorkerMoved
    <3> QED BY <2>2, <3>1, <3>2, <3>3, ZenonT(40) DEF Numbers
  <2>4. Cardinality(JobsOf(d)) = Cardinality(JobsOf(d))' + One(j.c = d)
    <3>1. Cardinality({n \in DOMAIN q : q[n].c = d})
            = Cardinality({n \in DOMAIN Tail(q) : Tail(q)[n].c = d})
                + (IF Head(q).c = d THEN 1 ELSE 0)
      BY <1>0, <1>1, TailCount, Zenon DEF JobType
    <3> QED BY <1>0, <3>1, Zenon DEF JobsOf, One, j
  <2>5. Cardinality(JobsOf(d))' \in Nat
    <3>1. IsFiniteSet({n \in DOMAIN Tail(q) : Tail(q)[n].c = d})
      BY <1>0, <1>1, TailCount, ZenonT(40) DEF JobType
    <3> QED BY <1>0, <3>1, FS_CardinalityType, Zenon DEF JobsOf
  <2>6. Cardinality(JobsOf(d))' + Cardinality(WorkersOn(d))'
          = Cardinality(JobsOf(d)) + Cardinality(WorkersOn(d))
    BY <2>3, <2>4, <2>5, SMTT(20) DEF One
  <2>7. Refs(d)' = Refs(d)
    <3>1. Cardinality(WorkersOn(d))' \in Nat
      BY <2>3 DEF One
    <3> QED BY <2>1, <2>2, <2>5, <2>6, <3>1, SMTT(20) DEF Numbers, Refs
  <2> QED BY <2>2, <2>7, Zenon
<1>10. WorkersFit' /\ TimesFit'
  <2>1. worker'[w].at # "idle" /\ worker'[w].c # NoConn
    <3>1. at # "idle"
      BY <1>4
    <3> QED BY <1>3, <1>5, <1>6, <3>1, Constants, ZenonT(40)
  <2> QED BY <1>0, <1>6, <1>a, <2>1, ZenonT(40) DEF IInv, WorkersFit, TimesFit
<1> QED BY <1>0, <1>8, <1>9, <1>10, PoolStep, Zenon

(* A worker that goes on with the same connection.                         *)
LEMMA WorkerStays ==
  ASSUME IInv, NEW w \in Workers, NEW at \in {"save", "run", "send", "blocked", "drop"},
         worker[w].at # "idle", worker' = [worker EXCEPT ![w].at = at]
  PROVE  /\ worker' \in [Workers -> WorkerType] /\ worker'[w].c = worker[w].c
         /\ worker'[w].at # "idle"
         /\ \A v \in Workers : v # w => worker'[v] = worker[v]
         /\ \A d : WorkersOn(d)' = WorkersOn(d)
<1>1. worker \in [Workers -> WorkerType]
  BY Types, Zenon
<1> DEFINE r == [worker[w] EXCEPT !.at = at]
<1>2. r \in WorkerType /\ r.c = worker[w].c /\ r.at = at
  <2>1. worker[w] \in WorkerType
    BY <1>1, Zenon
  <2> QED BY <2>1 DEF WorkerType
<1>3. worker' = [worker EXCEPT ![w] = r]
  BY Zenon
<1> HIDE DEF r
<1>4. /\ worker' \in [Workers -> WorkerType] /\ worker'[w] = r
      /\ \A v \in Workers : v # w => worker'[v] = worker[v]
  BY <1>1, <1>2, <1>3, Zenon
<1>5. worker'[w].c = worker[w].c /\ worker'[w].at # "idle"
  BY <1>2, <1>4, Zenon
<1>6. \A d : WorkersOn(d)' = WorkersOn(d)
  BY <1>4, <1>5, ZenonT(40) DEF WorkersOn
<1> QED BY <1>4, <1>5, <1>6, Zenon

(* Nothing else changes: send() sleeps, or the handler returned and the    *)
(* reply goes back the way the request came.                               *)
LEMMA StaysStep ==
  ASSUME IInv, NEW w \in Workers, worker[w].at # "idle", NEW at \in {"send", "blocked"},
         worker' = [worker EXCEPT ![w].at = at], UNCHANGED <<leaked, refno_>>,
         UNCHANGED <<connVars, q, poll, pdus, newest, crashed, dead_, closed, latest>>
  PROVE  IInv'
<1>a. UNCHANGED <<made, owner, ctime, fd_, listener, acc, phase>>
  BY Zenon DEF connVars
<1>1. /\ worker' \in [Workers -> WorkerType] /\ worker'[w].c = worker[w].c
      /\ worker'[w].at # "idle" /\ worker[w].at # "idle"
      /\ \A v \in Workers : v # w => worker'[v] = worker[v]
      /\ \A d : WorkersOn(d)' = WorkersOn(d)
  <2>1. at \in {"save", "run", "send", "blocked", "drop"}
    OBVIOUS
  <2> QED BY <2>1, WorkerStays, Zenon
<1>2. PoolTyped'
  <2>1. \A v \in Workers : worker'[v].c <= made'
    BY <1>1, <1>a, Referred, Zenon
  <2> QED BY <1>1, <1>a, <2>1, PoolTypes, Zenon DEF PoolTyped
<1>3. Counted'
  <2> SUFFICES ASSUME NEW d \in Conns PROVE refno_'[d] = Refs(d)' + leaked'[d]
    BY Zenon DEF Counted
  <2>1. /\ Listed(d)' = Listed(d) /\ Accepted(d)' = Accepted(d) /\ JobsOf(d)' = JobsOf(d)
        /\ LatestFor(d)' = LatestFor(d) /\ Polled(d)' = Polled(d)
    BY <1>a, Zenon DEF Listed, Accepted, LatestFor, Polled, JobsOf
  <2>2. Refs(d)' = Refs(d)
    BY <1>1, <2>1, Zenon DEF Refs
  <2> QED BY <2>2, Zenon DEF IInv, Counted
<1>4. WorkersFit' /\ TimesFit'
  BY <1>1, <1>a, Zenon DEF IInv, WorkersFit, TimesFit
<1> QED BY <1>2, <1>3, <1>4, PoolStep, Zenon
-----------------------------------------------------------------------------
(* The steps of a worker inside dispatch.                                  *)

Moved(w, k, d) ==
  refno_'[d] = refno_[d] + (leaked'[d] - leaked[d])
                 - One(worker[w].c = d) + One(worker'[w].c = d)
                 - One(latest[k] = d) + One(latest'[k] = d)

(* A step of worker w and client k's entry in which the references are     *)
(* taken and dropped as the two change.                                    *)
Counts(w, k) ==
  /\ OnlyWorker(w) /\ OnlyClient(k) /\ UNCHANGED <<listener, acc, q, poll>>
  /\ leaked' \in [Conns -> Nat] /\ \A d \in Conns : Moved(w, k, d)

(* It leaves the counts exact.                                             *)
LEMMA CountsMove ==
  ASSUME IInv, NEW w \in Workers, NEW k \in Clients, Counts(w, k)
  PROVE  Counted'
<1> SUFFICES ASSUME NEW d \in Conns PROVE refno_'[d] = Refs(d)' + leaked'[d]
  BY Zenon DEF Counted
<1>1. /\ Listed(d)' = Listed(d) /\ Accepted(d)' = Accepted(d)
      /\ JobsOf(d)' = JobsOf(d) /\ Polled(d)' = Polled(d)
  BY Zenon DEF Listed, Accepted, JobsOf, Polled, Counts
<1>2. /\ Numbers(d) /\ leaked'[d] \in Nat /\ leaked[d] \in Nat
      /\ refno_[d] = Refs(d) + leaked[d]
  BY Places, Types, Zenon DEF IInv, Counted, Counts
<1>3. WorkerMoved(w, d) /\ LatestMoved(k, d) /\ Moved(w, k, d)
  BY WorkerMoves, LatestMoves, Zenon DEF Counts
<1> DEFINE a == One(worker[w].c = d)
           b == One(worker'[w].c = d)
           e == One(latest[k] = d)
           f == One(latest'[k] = d)
<1>4. a \in Nat /\ b \in Nat /\ e \in Nat /\ f \in Nat
  BY DEF One
<1>5. /\ Cardinality(WorkersOn(d))' = Cardinality(WorkersOn(d)) - a + b
      /\ Cardinality(LatestFor(d))' = Cardinality(LatestFor(d)) - e + f
      /\ refno_'[d] = refno_[d] + (leaked'[d] - leaked[d]) - a + b - e + f
  BY <1>3, Zenon DEF WorkerMoved, LatestMoved, Moved
<1> HIDE DEF a, b, e, f
<1> DEFINE i == Cardinality(Listed(d)) + Cardinality(Accepted(d))
           m == Cardinality(LatestFor(d))
           j == Cardinality(JobsOf(d))
           n == Cardinality(WorkersOn(d))
           p == Cardinality(Polled(d))
<1>6. /\ i \in Nat /\ m \in Nat /\ j \in Nat /\ n \in Nat /\ p \in Nat
      /\ Refs(d) = i + m + j + n + p
      /\ Refs(d)' = i + (m - e + f) + j + (n - a + b) + p
  <2>1. Cardinality(Listed(d)) \in Nat /\ Cardinality(Accepted(d)) \in Nat
    BY <1>2, Zenon DEF Numbers
  <2>2. i \in Nat
    BY <2>1
  <2> QED BY <1>1, <1>2, <1>5, <2>2, Zenon DEF Numbers, Refs
<1> HIDE DEF i, m, j, n, p
<1> DEFINE x == leaked[d]
           y == leaked'[d]
<1>7. /\ x \in Nat /\ y \in Nat
      /\ refno_'[d] = ((i + m + j + n + p) + x) + (y - x) - a + b - e + f
  BY <1>2, <1>5, <1>6, Zenon
<1> HIDE DEF x, y
<1>8. ((i + m + j + n + p) + x) + (y - x) - a + b - e + f
        = (i + (m - e + f) + j + (n - a + b) + p) + y
  BY <1>4, <1>6, <1>7, SMTT(30)
<1> QED BY <1>6, <1>7, <1>8, Zenon DEF y

(* dispatch records the connection in conns_ and in the count of both, and *)
(* the history of times follows.                                           *)
LEMMA SaveStep ==
  ASSUME IInv, crashed = Nobody, NEW w \in Workers, Save(w)
  PROVE  IInv'
<1> DEFINE c == worker[w].c
           k == owner[c]
<1>0. /\ worker[w].at = "save" /\ SaveLatest(k, c)
      /\ newest' = [newest EXCEPT ![k] = Max({newest[k], ctime[c]})]
      /\ \E at \in {"run", "drop", "send"} : worker' = [worker EXCEPT ![w].at = at]
      /\ UNCHANGED <<connVars, q, poll, pdus, leaked, crashed, dead_, closed>>
  BY Zenon DEF Save
<1>a. UNCHANGED <<made, owner, ctime, fd_, listener, acc, phase>>
  BY <1>0, Zenon DEF connVars
<1>1. c \in Conns /\ c \in Nat /\ c <= made /\ k \in Clients
  <2>1. c # NoConn
    BY <1>0, Zenon DEF IInv, WorkersFit
  <2>2. c \in Conns
    <3>1. worker[w] \in WorkerType
      BY Types, Zenon
    <3> QED BY <2>1, <3>1, Zenon DEF WorkerType
  <2> QED BY <2>2, Types, Referred, Zenon
<1>2. /\ worker' \in [Workers -> WorkerType] /\ worker'[w].c = c /\ worker'[w].at # "idle"
      /\ worker[w].at # "idle" /\ \A v \in Workers : v # w => worker'[v] = worker[v]
  <2>1. PICK at \in {"run", "drop", "send"} : worker' = [worker EXCEPT ![w].at = at]
    BY <1>0, Zenon
  <2>2. at \in {"save", "run", "send", "blocked", "drop"} /\ worker[w].at # "idle"
    BY <1>0
  <2> QED BY <2>1, <2>2, WorkerStays, Zenon
<1> HIDE DEF c, k
<1> DEFINE l == latest[k]
<1>3. /\ l \in Conns \cup {NoConn} /\ l \in Nat /\ refno_ \in [Conns -> Nat]
      /\ latest \in [Clients -> Conns \cup {NoConn}] /\ refno_[c] >= 1
      /\ l \in Conns => refno_[l] >= 1
  BY <1>1, Types, Referred, HeldBy, Zenon DEF c
<1>4. /\ ctime[c] \in Nat /\ newest[k] \in Nat /\ ctime[c] \in Conns \cup {0}
      /\ newest[k] \in Conns \cup {0}
      /\ IF l = NoConn THEN newest[k] = 0 ELSE newest[k] = ctime[l]
  BY <1>1, Types, Zenon DEF IInv, Typed, TypeOK, TimesFit
<1>5. newest'[k] = Max({newest[k], ctime[c]})
      /\ \A j \in Clients : j # k => newest'[j] = newest[j]
  BY <1>0, <1>1, Types, Zenon
<1>6. /\ newest'[k] \in {newest[k], ctime[c]}
      /\ newest'[k] >= newest[k] /\ newest'[k] >= ctime[c]
  BY <1>4, <1>5, MaxOfTwo, Zenon
<1> DEFINE Kept == latest' = latest /\ refno_' = refno_
           Taken == /\ latest'[k] = c /\ OnlyClient(k)
                    /\ latest' \in [Clients -> Conns \cup {NoConn}]
                    /\ refno_' \in [Conns -> Nat]
                    /\ \A d \in Conns : refno_'[d] = refno_[d] - One(l = d) + One(c = d)
                    /\ newest'[k] = ctime[c]
<1>7. Taken \/ (Kept /\ newest'[k] = newest[k] /\ l # NoConn)
  <2>1. CASE /\ l = NoConn /\ latest' = [latest EXCEPT ![k] = c]
             /\ refno_' = [refno_ EXCEPT ![c] = refno_[c] + 1]
    <3>1. /\ latest'[k] = c /\ OnlyClient(k) /\ latest' \in [Clients -> Conns \cup {NoConn}]
      BY <1>1, <1>3, <2>1, Zenon DEF OnlyClient
    <3>2. refno_' \in [Conns -> Nat]
      BY <1>1, <1>3, <2>1, SMTT(20)
    <3>3. ASSUME NEW d \in Conns PROVE refno_'[d] = refno_[d] - One(l = d) + One(c = d)
      <4>1. l # d /\ refno_[d] \in Nat
        BY <1>3, <2>1, Constants, Zenon
      <4> QED BY <1>1, <1>3, <2>1, <4>1 DEF One
    <3>4. newest'[k] = ctime[c]
      BY <1>4, <1>6, <2>1, SMTT(20)
    <3> QED BY <3>1, <3>2, <3>3, <3>4, Zenon
  <2>2. CASE /\ l # NoConn /\ ctime[l] < ctime[c] /\ latest' = [latest EXCEPT ![k] = c]
             /\ refno_' = [refno_ EXCEPT ![l] = refno_[l] - 1, ![c] = @ + 1]
    <3>0. l \in Conns /\ l # c /\ refno_[l] >= 1
      <4>1. l # c
        BY <1>4, <2>2
      <4> QED BY <1>3, <2>2, <4>1, Zenon
    <3>1. /\ latest'[k] = c /\ OnlyClient(k) /\ latest' \in [Clients -> Conns \cup {NoConn}]
      BY <1>1, <1>3, <2>2, Zenon DEF OnlyClient
    <3>2. /\ refno_'[c] = refno_[c] + 1 /\ refno_'[l] = refno_[l] - 1
          /\ DOMAIN refno_' = Conns
          /\ refno_' \in [Conns -> Nat]
          /\ \A d \in Conns : d # c /\ d # l => refno_'[d] = refno_[d]
      <4> HIDE DEF l
      <4>1. refno_[l] - 1 \in Nat /\ refno_[c] + 1 \in Nat
        BY <1>1, <1>3, <3>0, SMTT(20)
      <4> QED BY <1>1, <1>3, <2>2, <3>0, <4>1, ZenonT(40)
    <3>3. ASSUME NEW d \in Conns PROVE refno_'[d] = refno_[d] - One(l = d) + One(c = d)
      <4>1. refno_[d] \in Nat
        BY <1>3, Zenon
      <4> HIDE DEF l
      <4> QED BY <3>0, <3>2, <4>1, SMTT(20) DEF One
    <3>4. newest'[k] = ctime[c]
      BY <1>4, <1>6, <2>2, SMTT(20)
    <3> QED BY <3>1, <3>2, <3>3, <3>4, Zenon
  <2>3. CASE l # NoConn /\ ctime[l] >= ctime[c] /\ Kept
    <3>1. newest'[k] = newest[k]
      BY <1>4, <1>6, <2>3, SMTT(20)
    <3> QED BY <2>3, <3>1, Zenon
  <2> QED BY <1>0, <2>1, <2>2, <2>3, Zenon DEF SaveLatest
<1>8. /\ latest' \in [Clients -> Conns \cup {NoConn}] /\ refno_' \in [Conns -> Nat]
      /\ OnlyClient(k) /\ latest'[k] \in {c, l}
  BY <1>3, <1>7, Zenon DEF OnlyClient
<1>9. \A d \in Conns : Moved(w, k, d)
  <2> SUFFICES ASSUME NEW d \in Conns PROVE Moved(w, k, d)
    OBVIOUS
  <2>1. /\ refno_[d] \in Nat /\ leaked[d] \in Nat /\ leaked'[d] = leaked[d]
        /\ One(worker[w].c = d) = One(worker'[w].c = d)
        /\ latest'[k] = c => One(latest'[k] = d) = One(c = d)
    BY <1>0, <1>2, Types, Zenon DEF c
  <2>2. \A p : One(p) \in Nat
    BY DEF One
  <2>3. refno_'[d] = refno_[d] - One(l = d) + One(latest'[k] = d)
    <3>1. CASE Taken
      BY <2>1, <3>1, Zenon
    <3>2. CASE Kept
      <4>1. refno_'[d] = refno_[d] /\ One(latest'[k] = d) = One(l = d)
        BY <3>2, Zenon
      <4>2. One(l = d) \in Nat
        BY <2>2, Zenon
      <4> QED BY <2>1, <4>1, <4>2, SMTT(20)
    <3> QED BY <1>7, <3>1, <3>2, Zenon
  <2> DEFINE x == One(worker[w].c = d)
             y == One(latest'[k] = d)
             z == One(latest[k] = d)
  <2>4. /\ x \in Nat /\ y \in Nat /\ z \in Nat /\ One(worker'[w].c = d) = x
        /\ refno_'[d] = refno_[d] - z + y
    BY <2>1, <2>2, <2>3, ZenonT(40)
  <2> HIDE DEF x, y, z
  <2>5. refno_'[d] = refno_[d] + (leaked[d] - leaked[d]) - x + x - z + y
    BY <2>1, <2>4
  <2> QED BY <2>1, <2>4, <2>5, Zenon DEF Moved, x, y, z
<1>10. Counted'
  <2>1. OnlyWorker(w) /\ leaked' \in [Conns -> Nat]
    BY <1>0, <1>2, Types, Zenon DEF OnlyWorker
  <2>2. Counts(w, k)
    BY <1>0, <1>8, <1>9, <1>a, <2>1, Zenon DEF Counts
  <2> QED BY <1>1, <2>2, CountsMove, Zenon
<1>11. PoolTyped'
  <2>1. \A v \in Workers : worker'[v].c <= made'
    BY <1>1, <1>2, <1>a, Referred, Zenon
  <2>2. \A j \in Clients : latest'[j] <= made'
    BY <1>1, <1>8, <1>a, Referred, Zenon DEF OnlyClient
  <2>3. newest' \in [Clients -> Conns \cup {0}]
    <3>1. Max({newest[k], ctime[c]}) \in Conns \cup {0}
      BY <1>4, <1>5, <1>6, Zenon
    <3>2. newest \in [Clients -> Conns \cup {0}]
      BY PoolTypes, Zenon DEF PoolTyped
    <3> QED BY <1>0, <3>1, <3>2, Zenon
  <2> QED BY <1>0, <1>2, <1>8, <1>a, <2>1, <2>2, <2>3, PoolTypes, ZenonT(40) DEF PoolTyped
<1>12. WorkersFit'
  BY <1>0, <1>1, <1>2, Constants, Zenon DEF IInv, WorkersFit
<1>13. TimesFit'
  <2>1. IF latest'[k] = NoConn THEN newest'[k] = 0 ELSE newest'[k] = ctime'[latest'[k]]
    <3>1. c # NoConn
      BY <1>1, Constants, Zenon
    <3> QED BY <1>4, <1>7, <1>a, <3>1, Zenon
  <2>2. \A j \in Clients : j # k => latest'[j] = latest[j] /\ newest'[j] = newest[j]
    BY <1>5, <1>8, Zenon DEF OnlyClient
  <2> QED BY <1>a, <2>1, <2>2, Zenon DEF IInv, TimesFit
<1>14. \A d \in Conns : refno_'[d] > 0 => refno_[d] > 0
  <2> SUFFICES ASSUME NEW d \in Conns, refno_'[d] > 0 PROVE refno_[d] > 0
    OBVIOUS
  <2>1. CASE Kept
    BY <2>1, Zenon
  <2>2. CASE Taken /\ d = c
    <3>1. refno_[c] \in Nat
      BY <1>1, <1>3, Zenon
    <3> QED BY <1>3, <2>2, <3>1
  <2>3. CASE Taken /\ d # c
    <3>1. refno_[d] \in Nat /\ refno_'[d] = refno_[d] - One(l = d) + One(c = d)
      BY <1>3, <2>3, ZenonT(40)
    <3>2. One(l = d) \in Nat /\ One(c = d) = 0
      BY <2>3, Zenon DEF One
    <3> HIDE DEF l
    <3> QED BY <3>1, <3>2
  <2> QED BY <1>7, <2>1, <2>2, <2>3, ZenonT(40)
<1> QED BY <1>0, <1>10, <1>11, <1>12, <1>13, <1>14, PoolStep, Zenon

(* A worker that is not idle has a connection, which is not deleted.       *)
LEMMA Busy ==
  ASSUME IInv, crashed = Nobody, NEW w \in Workers, worker[w].at # "idle"
  PROVE  /\ worker[w].c \in Conns /\ worker[w].c \in Nat /\ worker[w].c <= made
         /\ refno_[worker[w].c] >= 1 /\ refno_[worker[w].c] \in Nat
         /\ owner[worker[w].c] \in Clients
<1>1. worker[w].c # NoConn
  BY Zenon DEF IInv, WorkersFit
<1>2. worker[w].c \in Conns
  <2>1. worker[w] \in WorkerType
    BY Types, Zenon
  <2> QED BY <1>1, <2>1, Zenon DEF WorkerType
<1> QED BY <1>2, Types, Referred, HeldBy, Zenon

(* The reply to a request whose connection died goes by the client's       *)
(* latest one, and the worker's reference with it; without a latest one    *)
(* the process is at its end.                                              *)
LEMMA HandlerReturnsStep ==
  ASSUME IInv, crashed = Nobody, NEW w \in Workers, HandlerReturns(w)
  PROVE  IInv'
<1> DEFINE c == worker[w].c
           k == owner[c]
           d == latest[k]
<1>0. /\ worker[w].at = "run"
      /\ \/ /\ c # d
            /\ refno_' = [e \in Conns |-> refno_[e] - (IF e = c THEN 1 ELSE 0)
                                                    + (IF e = d THEN 1 ELSE 0)]
            /\ worker' = [worker EXCEPT ![w].at = "send", ![w].c = d]
            /\ crashed' = IF d = NoConn THEN k ELSE crashed
         \/ worker' = [worker EXCEPT ![w].at = "send"] /\ UNCHANGED <<refno_, crashed>>
      /\ UNCHANGED <<connVars, q, poll, pdus, leaked, newest, dead_, closed, latest>>
  BY Zenon DEF HandlerReturns
<1>a. UNCHANGED <<made, owner, ctime, fd_, listener, acc, phase>>
  BY <1>0, Zenon DEF connVars
<1>b. worker[w].at # "idle"
  BY <1>0
<1>1. CASE worker' = [worker EXCEPT ![w].at = "send"] /\ UNCHANGED <<refno_, crashed>>
  <2>1. "send" \in {"send", "blocked"}
    OBVIOUS
  <2> QED BY <1>0, <1>1, <1>b, <2>1, StaysStep, Zenon
<1>2. CASE /\ c # d
           /\ refno_' = [e \in Conns |-> refno_[e] - (IF e = c THEN 1 ELSE 0)
                                                   + (IF e = d THEN 1 ELSE 0)]
           /\ worker' = [worker EXCEPT ![w].at = "send", ![w].c = d]
           /\ crashed' = IF d = NoConn THEN k ELSE crashed
  <2>1. c \in Conns /\ c \in Nat /\ c <= made /\ refno_[c] >= 1 /\ k \in Clients
    BY <1>b, Busy, Zenon
  <2> HIDE DEF c, k
  <2>2. /\ d \in Conns \cup {NoConn} /\ d \in Nat /\ d <= made
        /\ d \in Conns => refno_[d] >= 1
    BY <2>1, Types, Referred, HeldBy, Zenon
  <2> HIDE DEF d
  <2> DEFINE r == [worker[w] EXCEPT !.at = "send", !.c = d]
  <2>3. r \in WorkerType /\ r.c = d /\ r.at # "idle"
    <3>1. worker[w] \in WorkerType
      BY Types, Zenon
    <3> QED BY <2>2, <3>1, Zenon DEF WorkerType
  <2>4. worker' = [worker EXCEPT ![w] = r]
    <3>1. worker' = [worker EXCEPT ![w].at = "send", ![w].c = d]
      BY <1>2, Zenon
    <3>2. worker \in [Workers -> WorkerType]
      BY Types, Zenon
    <3> QED BY <3>1, <3>2, Zenon
  <2> HIDE DEF r
  <2>5. /\ worker' \in [Workers -> WorkerType] /\ worker'[w].c = d /\ worker'[w].at # "idle"
        /\ \A v \in Workers : v # w => worker'[v] = worker[v]
    BY <2>3, <2>4, Types, Zenon
  <2>6. /\ refno_ \in [Conns -> Nat]
        /\ \A e \in Conns : refno_'[e] = refno_[e] - One(c = e) + One(d = e)
    <3>1. refno_ \in [Conns -> Nat]
      BY Types, Zenon
    <3> QED BY <1>2, <3>1, Zenon DEF One
  <2>7. refno_' \in [Conns -> Nat] /\ \A e \in Conns : refno_'[e] > 0 => refno_[e] > 0
    <3>1. ASSUME NEW e \in Conns
          PROVE  refno_'[e] \in Nat /\ (refno_'[e] > 0 => refno_[e] > 0)
      <4>1. /\ refno_[e] \in Nat /\ refno_'[e] = refno_[e] - One(c = e) + One(d = e)
            /\ (c = e \/ d = e => refno_[e] >= 1)
        BY <2>1, <2>2, <2>6, Zenon
      <4> QED BY <4>1 DEF One
    <3>2. refno_' = [e \in Conns |-> refno_'[e]]
      BY <1>2, Zenon
    <3>3. \A e \in Conns : refno_'[e] \in Nat
      BY <3>1, Zenon
    <3>4. refno_' \in [Conns -> Nat]
      BY <3>2, <3>3, Zenon
    <3> QED BY <3>1, <3>4, ZenonT(40)
  <2>8. crashed' \in Clients \cup {Nobody} /\ (crashed' = Nobody => d # NoConn)
    BY <1>2, <2>1, Constants, Zenon
  <2>9. Counted'
    <3>1. OnlyWorker(w) /\ OnlyClient(k) /\ leaked' \in [Conns -> Nat]
      BY <1>0, <2>5, Types, Zenon DEF OnlyWorker, OnlyClient
    <3>2. ASSUME NEW e \in Conns PROVE Moved(w, k, e)
      <4> DEFINE x == One(worker[w].c = e)
                 y == One(worker'[w].c = e)
                 z == One(latest[k] = e)
      <4>1. x \in Nat /\ y \in Nat /\ z \in Nat
        BY DEF One
      <4>2. /\ refno_[e] \in Nat /\ leaked[e] \in Nat /\ leaked'[e] = leaked[e]
            /\ refno_'[e] = refno_[e] - x + y /\ One(latest'[k] = e) = z
        BY <1>0, <2>5, <2>6, Types, ZenonT(40) DEF c
      <4> HIDE DEF x, y, z
      <4>3. refno_'[e] = refno_[e] + (leaked[e] - leaked[e]) - x + y - z + z
        BY <4>1, <4>2
      <4> QED BY <4>2, <4>3, Zenon DEF Moved, x, y, z
    <3>3. Counts(w, k)
      BY <1>0, <1>a, <3>1, <3>2, Zenon DEF Counts
    <3> QED BY <2>1, <3>3, CountsMove, Zenon
  <2>10. PoolTyped'
    <3>1. \A v \in Workers : worker'[v].c <= made'
      BY <2>2, <2>5, <1>a, Referred, Zenon
    <3> QED BY <1>0, <1>a, <2>5, <2>7, <2>8, <3>1, PoolTypes, ZenonT(40) DEF PoolTyped
  <2>11. WorkersFit' /\ TimesFit'
    BY <1>0, <1>a, <2>5, <2>8, Zenon DEF IInv, WorkersFit, TimesFit
  <2> QED BY <1>0, <2>7, <2>9, <2>10, <2>11, PoolStep, ZenonT(40)
<1> QED BY <1>0, <1>1, <1>2, Zenon

(* dispatch returns: the worker's reference is dropped, or forgotten.      *)
LEMMA ReturnStep ==
  ASSUME IInv, crashed = Nobody, NEW w \in Workers, worker[w].at # "idle", Return(w),
         UNCHANGED <<connVars, q, poll, pdus, newest, crashed, dead_, closed, latest>>
  PROVE  IInv'
<1> DEFINE c == worker[w].c
<1>a. UNCHANGED <<made, owner, ctime, fd_, listener, acc, phase>>
  BY Zenon DEF connVars
<1>0. /\ \/ leaked' = [leaked EXCEPT ![c] = leaked[c] + 1] /\ refno_' = refno_
         \/ refno_' = [refno_ EXCEPT ![c] = refno_[c] - 1] /\ leaked' = leaked
      /\ worker' = [worker EXCEPT ![w] = IdleWorker]
  BY Zenon DEF Return
<1>1. /\ c \in Conns /\ c \in Nat /\ c <= made /\ refno_[c] >= 1 /\ refno_[c] \in Nat
      /\ refno_ \in [Conns -> Nat] /\ leaked \in [Conns -> Nat]
  BY Busy, Types, Zenon
<1>2. IdleWorker \in WorkerType /\ IdleWorker.c = NoConn /\ IdleWorker.at = "idle"
  BY DEF IdleWorker, WorkerType
<1>3. /\ worker' \in [Workers -> WorkerType] /\ worker'[w] = IdleWorker
      /\ \A v \in Workers : v # w => worker'[v] = worker[v]
  BY <1>0, <1>2, Types, Zenon
<1> HIDE DEF c
<1>4. /\ refno_' \in [Conns -> Nat] /\ leaked' \in [Conns -> Nat]
      /\ \A d \in Conns : d # c => leaked'[d] = leaked[d] /\ refno_'[d] = refno_[d]
      /\ refno_'[c] = refno_[c] + (leaked'[c] - leaked[c]) - 1
  <2>1. CASE leaked' = [leaked EXCEPT ![c] = leaked[c] + 1] /\ refno_' = refno_
    BY <1>1, <2>1, SMTT(20)
  <2>2. CASE refno_' = [refno_ EXCEPT ![c] = refno_[c] - 1] /\ leaked' = leaked
    <3>1. refno_[c] - 1 \in Nat
      BY <1>1
    <3> QED BY <1>1, <2>2, <3>1, SMTT(20)
  <2> QED BY <1>0, <2>1, <2>2, Zenon
<1>5. Counted'
  <2>1. OnlyWorker(w) /\ OnlyClient(Anonymous) /\ Anonymous \in Clients
    BY <1>3, Constants, Zenon DEF OnlyWorker, OnlyClient
  <2>2. ASSUME NEW d \in Conns PROVE Moved(w, Anonymous, d)
    <3> DEFINE x == One(worker[w].c = d)
               y == One(worker'[w].c = d)
               z == One(latest[Anonymous] = d)
    <3>1. /\ refno_[d] \in Nat /\ leaked[d] \in Nat /\ leaked'[d] \in Nat
          /\ One(latest'[Anonymous] = d) = z
      BY <1>1, <1>4, ZenonT(40)
    <3>2. z \in Nat /\ y = 0
      <4>1. worker'[w].c # d
        BY <1>2, <1>3, Constants, Zenon
      <4> QED BY <4>1 DEF One
    <3>3. refno_'[d] = refno_[d] + (leaked'[d] - leaked[d]) - x
      <4>1. CASE d = c
        <5>1. x = 1
          BY <4>1, Zenon DEF One, c
        <5> QED BY <1>4, <4>1, <5>1, ZenonT(40)
      <4>2. CASE d # c
        <5>1. x = 0
          BY <4>2 DEF One, c
        <5>2. leaked'[d] = leaked[d] /\ refno_'[d] = refno_[d]
          BY <1>4, <4>2, Zenon
        <5> HIDE DEF x, y, z
        <5> QED BY <3>1, <5>1, <5>2, SMTT(20)
      <4> QED BY <4>1, <4>2, Zenon
    <3>4. x \in Nat
      BY Zenon DEF One
    <3> HIDE DEF x, y, z
    <3>5. refno_'[d] = refno_[d] + (leaked'[d] - leaked[d]) - x + y - z + z
      BY <3>1, <3>2, <3>3, <3>4, SMTT(20)
    <3> QED BY <3>1, <3>5, Zenon DEF Moved, x, y, z
  <2>3. Counts(w, Anonymous)
    BY <1>4, <1>a, <2>1, <2>2, ZenonT(40) DEF Counts
  <2> QED BY <2>1, <2>3, CountsMove, Zenon
<1>6. PoolTyped'
  <2>0. made \in Nat /\ IdleWorker.c <= made
    <3>1. made \in Nat
      BY Types, Zenon
    <3> QED BY <1>2, <3>1, Constants
  <2>1. \A v \in Workers : worker'[v].c <= made'
    BY <1>3, <1>a, <2>0, Referred, Zenon
  <2>2. \A d \in Conns : d > made' => leaked'[d] = 0
    <3>1. ASSUME NEW d \in Conns, d > made PROVE d # c
      BY <1>1, <2>0, <3>1, SMTT(20)
    <3>2. \A d \in Conns : d > made => leaked[d] = 0
      BY PoolTypes, Zenon DEF PoolTyped
    <3> QED BY <1>4, <1>a, <3>1, <3>2, Zenon
  <2> QED BY <1>3, <1>4, <1>a, <2>1, <2>2, PoolTypes, ZenonT(40) DEF PoolTyped
<1>7. WorkersFit' /\ TimesFit'
  <2>1. WorkersFit'
    BY <1>2, <1>3, Zenon DEF IInv, WorkersFit
  <2>2. TimesFit'
    BY <1>a, Zenon DEF IInv, TimesFit
  <2> QED BY <2>1, <2>2, Zenon
<1>8. \A d \in Conns : refno_'[d] > 0 => refno_[d] > 0
  <2>1. refno_[c] > 0
    BY <1>1
  <2> QED BY <1>4, <2>1, Zenon
<1> QED BY <1>5, <1>6, <1>7, <1>8, PoolStep, Zenon

(* The three ends of dispatch.                                             *)
LEMMA SendSteps ==
  ASSUME IInv, crashed = Nobody, NEW w \in Workers, Send(w) \/ SendEnds(w) \/ Drop(w)
  PROVE  IInv'
<1>1. /\ worker[w].at \in {"send", "blocked", "drop"}
      /\ \/ Return(w)
         \/ worker' = [worker EXCEPT ![w].at = "blocked"] /\ UNCHANGED <<leaked, refno_>>
      /\ UNCHANGED <<connVars, q, poll, pdus, newest, crashed, dead_, closed, latest>>
  BY Zenon DEF Send, SendEnds, Drop
<1>2. worker[w].at # "idle" /\ "blocked" \in {"send", "blocked"}
  BY <1>1
<1>3. CASE Return(w)
  BY <1>1, <1>2, <1>3, ReturnStep, Zenon
<1>4. CASE worker' = [worker EXCEPT ![w].at = "blocked"] /\ UNCHANGED <<leaked, refno_>>
  BY <1>1, <1>2, <1>4, StaysStep, Zenon
<1> QED BY <1>1, <1>3, <1>4, Zenon

-----------------------------------------------------------------------------
(* The inductive invariant.                                                *)

(* The server starts with no connection and no reference.                  *)
LEMMA Initially ==
  ASSUME Init
  PROVE  IInv
<1>0. Init
  BY Zenon
<1>1. /\ listener = <<>> /\ DOMAIN listener = {} /\ acc.ch = NoConn /\ acc.todo = {}
      /\ q = <<>> /\ DOMAIN q = {} /\ Len(q) = 0 /\ q \in Seq(JobType)
  BY <1>0 DEF Init, NoAccept
<1>2. /\ made = 0 /\ poll = NoConn /\ phase = "up" /\ pdus = 0 /\ crashed = Nobody
      /\ acc = NoAccept
  BY <1>0, Zenon DEF Init
<1>3. /\ \A c \in Conns : /\ refno_[c] = 0 /\ leaked[c] = 0 /\ ctime[c] = 0
      /\ \A k \in Clients : latest[k] = NoConn /\ newest[k] = 0
      /\ \A w \in Workers : worker[w] = IdleWorker
  BY <1>0, Zenon DEF Init
<1>4. IdleWorker \in WorkerType /\ IdleWorker.c = NoConn /\ IdleWorker.at = "idle"
  BY DEF IdleWorker, WorkerType
<1>5. TypeOK
  <2>1. /\ 0 \in 0..MaxConns /\ 0 \in 0..MaxPdus /\ 0 <= MaxQueue /\ 0 \in Nat
    BY Constants
  <2>2. /\ made \in 0..MaxConns /\ pdus \in 0..MaxPdus /\ Len(q) <= MaxQueue
    BY <1>1, <1>2, <2>1, Zenon
  <2>3. /\ owner \in [Conns -> Clients] /\ ctime \in [Conns -> Conns \cup {0}]
        /\ fd_ \in [Conns -> Fds \cup {0}] /\ dead_ \in [Conns -> BOOLEAN]
        /\ closed \in [Conns -> BOOLEAN]
    BY <1>0, Constants, Zenon DEF Init
  <2>4. /\ refno_ \in [Conns -> Nat] /\ leaked \in [Conns -> Nat]
        /\ latest \in [Clients -> Conns \cup {NoConn}]
        /\ worker \in [Workers -> WorkerType] /\ newest \in [Clients -> Conns \cup {0}]
    BY <1>0, <1>4, <2>1, Zenon DEF Init
  <2>5. /\ DOMAIN listener \subseteq Fds /\ Range(listener) \subseteq Conns
    BY <1>1, Zenon DEF Range
  <2>6. acc \in [ch : Conns \cup {NoConn}, todo : SUBSET Fds]
    BY <1>2 DEF NoAccept
  <2>7. /\ poll \in Conns \cup {NoConn} /\ crashed \in Clients \cup {Nobody}
        /\ phase \in {"up", "join", "close", "closing", "drain", "gone"}
    BY <1>2
  <2> QED BY <1>1, <2>2, <2>3, <2>4, <2>5, <2>6, <2>7, ZenonT(40) DEF TypeOK, JobType, WorkerType
<1>6. Typed
  <2>1. NoConn <= made
    BY <1>2, Constants
  <2>2. listener \in [DOMAIN listener -> 1..made]
    BY <1>1
  <2> QED BY <1>1, <1>2, <1>3, <1>4, <1>5, <2>1, <2>2, ZenonT(40) DEF Typed
<1>7. Counted
  <2> SUFFICES ASSUME NEW c \in Conns PROVE refno_[c] = Refs(c) + leaked[c]
    BY Zenon DEF Counted
  <2>1. c # NoConn
    BY Constants, Zenon
  <2>2. /\ Listed(c) = {} /\ LatestFor(c) = {} /\ JobsOf(c) = {} /\ WorkersOn(c) = {}
        /\ Accepted(c) = {} /\ Polled(c) = {}
    BY <1>1, <1>2, <1>3, <1>4, <2>1, Zenon
       DEF Listed, LatestFor, JobsOf, WorkersOn, Accepted, Polled
  <2>3. Cardinality({}) = 0
    BY FS_EmptySet, Zenon
  <2>4. Refs(c) = 0 + 0 + 0 + 0 + 0 + 0
    BY <2>2, <2>3, Zenon DEF Refs
  <2>5. refno_[c] = 0 /\ leaked[c] = 0
    BY <1>3, Zenon
  <2> QED BY <2>4, <2>5
<1>8. WorkersFit
  BY <1>3, <1>4, Zenon DEF WorkersFit
<1>9. FdsFit
  <2>1. \A c \in Conns : ~Open(c)
    BY <1>3 DEF Open
  <2> QED BY <1>1, <2>1, Zenon DEF FdsFit
<1>10. AcceptFits
  <2>1. phase \in {"up", "join"} /\ phase # "closing"
    BY <1>2
  <2> QED BY <1>1, <2>1, Zenon DEF AcceptFits
<1>11. TimesFit
  <2>1. \A c \in Conns : c \in Nat /\ ~(c <= made)
    BY <1>2, Constants, SMTT(20) DEF Conns
  <2>2. \A c \in Conns : ctime[c] <= c
    BY <1>3, <2>1
  <2> QED BY <1>3, <2>1, <2>2, Zenon DEF TimesFit
<1> QED BY <1>6, <1>7, <1>8, <1>9, <1>10, <1>11, ZenonT(40) DEF IInv

(* No step of any thread breaks it.                                        *)
LEMMA Inductive ==
  ASSUME IInv, [Next]_vars
  PROVE  IInv'
<1>1. CASE Next
  <2>0. crashed = Nobody
    BY <1>1, Zenon DEF Next
  <2>1. ASSUME NEW k \in Clients, Accept(k) PROVE IInv'
    BY <2>1, AcceptStep, Zenon
  <2>2. CASE Collect
    BY <2>2, CollectStep, Zenon
  <2>3. CASE Insert
    BY <2>3, InsertStep, Zenon
  <2>4. ASSUME NEW c \in Conns, Dies(c) \/ \E kind \in Kinds : got_pdu(c, kind) PROVE IInv'
    BY <2>4, DiesStep, got_pduStep, Zenon
  <2>5. CASE Refused
    BY <2>5, RefusedStep, Zenon
  <2>6. ASSUME NEW w \in Workers, WorkerStep(w) \/ SendEnds(w) PROVE IInv'
    <3>1. CASE TakeJob(w)
      BY <3>1, TakeJobStep, Zenon
    <3>2. CASE Save(w)
      BY <2>0, <3>2, SaveStep, Zenon
    <3>3. CASE HandlerReturns(w)
      BY <2>0, <3>3, HandlerReturnsStep, Zenon
    <3>4. CASE Send(w) \/ SendEnds(w) \/ Drop(w)
      BY <2>0, <3>4, SendSteps, Zenon
    <3> QED BY <2>6, <3>1, <3>2, <3>3, <3>4, ZenonT(40) DEF WorkerStep
  <2>7. CASE Destroy \/ JoinAccept \/ PoolEnds
    BY <2>7, DestroySteps, ZenonT(40)
  <2>8. CASE closeconn
    BY <2>8, closeconnStep, Zenon
  <2>9. CASE CloseDone
    BY <2>9, CloseDoneStep, Zenon
  <2> QED BY <1>1, <2>1, <2>2, <2>3, <2>4, <2>5, <2>6, <2>7, <2>8, <2>9, ZenonT(40) DEF Next
<1>2. CASE UNCHANGED vars
  <2>1. /\ UNCHANGED <<made, owner, ctime, fd_, listener, acc, poolVars, refno_, latest>>
        /\ UNCHANGED <<dead_, closed, phase>>
    BY <1>2, Zenon DEF vars, connVars
  <2>2. dead_' \in [Conns -> BOOLEAN] /\ closed' \in [Conns -> BOOLEAN]
    BY <2>1, Types, Zenon
  <2> QED BY <2>1, <2>2, QuietStep, Zenon
<1> QED BY <1>1, <1>2, Zenon

(* The inductive invariant holds in every reachable state.                 *)
THEOREM Invariant == Spec => []IInv
<1>1. Init => IInv
  BY Initially, Zenon
<1>2. IInv /\ [Next]_vars => IInv'
  BY Inductive, Zenon
<1> QED BY <1>1, <1>2, PTL DEF Spec

(* Every variable keeps its type: no reference count is ever taken below   *)
(* zero (rpc/connection.cc, decref) and the queue keeps its bound.         *)
THEOREM TypeCorrect == Spec => []TypeOK
<1>1. IInv => TypeOK
  BY Zenon DEF IInv, Typed
<1> QED BY <1>1, Invariant, PTL

(* However the listener, the poll thread, the workers and ~rpcs are        *)
(* interleaved, a connection's count is the number of places that refer to *)
(* it plus the references dispatch() forgets (rpc.cc:530).                 *)
THEOREM CountsExact == Spec => []RefsExact
<1>1. IInv => RefsExact
  BY HoldersCount, Zenon DEF IInv, Counted, RefsExact
<1> QED BY <1>1, Invariant, PTL

(* conns_ has the newest connection that a request of the client came by,  *)
(* in whatever order the workers run (rpc.cc:535).                         *)
THEOREM NewestKept == Spec => []LatestIsNewest
<1>1. IInv => LatestIsNewest
  BY Zenon DEF IInv, TimesFit, LatestIsNewest
<1> QED BY <1>1, Invariant, PTL
============================================================================
