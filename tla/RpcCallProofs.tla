--------------------------- MODULE RpcCallProofs ---------------------------
(***************************************************************************)
(* Proofs about RpcCall, for any callers, number of calls, retransmissions *)
(* and restarts of the server, with and without RPC_LOSSY: the client's    *)
(* window of finished calls is exact, no call runs twice before it has its *)
(* result, and every result is right.                                      *)
(***************************************************************************)
EXTENDS RpcCall, WellFoundedInduction, TLAPS

(* The window w of finished xids: in order, from the last xid with no      *)
(* unfinished one below it.                                                *)
Sorted(w) == \A i, j \in 1..Len(w) : i <= j => w[i] <= w[j]

In(w, x) == \E i \in 1..Len(w) : w[i] = x

Exact(w, F) ==
  /\ \A x \in Xids : x \in F <=> x <= w[1] \/ In(w, x)
  /\ ~In(w, w[1] + 1)

Window(w, F) ==
  /\ w \in Seq(0..MaxXid) /\ w # <<>> /\ Sorted(w)
  /\ \A i \in 2..Len(w) : w[i] >= 1
  /\ Exact(w, F)

(* What is known of xid x.  Nothing has happened to a call that is not     *)
(* made.  One without a result is not finished, so no request has told the *)
(* server to forget it: once run it is remembered, unless the server has   *)
(* been started anew, when it does not run it at all.                      *)
Unused(x) ==
  /\ requests[x] = 0 /\ execs[x] = 0 /\ running[x] = 0 /\ x \notin finished
  /\ \A kind \in Kinds : replies[<<x, kind>>] = 0

CallFits(x) ==
  /\ calls[x].st = "unused" <=> x >= xid
  /\ calls[x].st = "unused" => Unused(x)
  /\ calls[x].xid_rep <= xid_rep_window[1]
  /\ calls[x].ret # "atmostonce_failure"
  /\ calls[x].ret = "ok" => execs[x] >= 1
  /\ running[x] > 0 => execs[x] >= 1
  /\ Remembered(x) # {} => execs[x] >= 1
  /\ replies[<<x, "ok">>] > 0 => execs[x] >= 1
  /\ replies[<<x, "atmostonce_failure">>] > 0 => x \in finished

Pending(x) ==
  calls[x].st = "pending" =>
    /\ x \notin finished /\ execs[x] <= 1
    /\ execs[x] = 1 /\ restarts = 0 => Remembered(x) # {}

(* A thread is in a call of its own.                                       *)
CallersFit ==
  /\ \A t \in Callers : cur[t] # 0 => calls[cur[t]].st \in {"pending", "done"}
  /\ \A t, u \in Callers : cur[t] = cur[u] /\ cur[t] # 0 => t = u
  /\ dup_req # 0 => calls[dup_req].st = "over"

(* The inductive invariant.                                                *)
IInv ==
  /\ TypeOK /\ Window(xid_rep_window, finished) /\ CallersFit
  /\ window_bound <= xid_rep_window[1]
  /\ \A x \in Xids : CallFits(x) /\ Pending(x)
-----------------------------------------------------------------------------
(* The prover of a step that names none.                                   *)
USE ZenonT(40)

(* Every set of naturals has a least element; an induction is an argument  *)
(* about the least counterexample.                                         *)
LEMMA Least ==
  ASSUME NEW T, T \subseteq Nat, T # {}
  PROVE \E m \in T : \A n \in T : m <= n
<1>1. PICK m \in T : \A n \in T : <<n, m>> \notin OpToRel(<, Nat)
  BY WFMin, NatLessThanWellFounded
<1>2. \A n \in T : ~(n < m)
  BY <1>1 DEF OpToRel
<1> QED BY <1>2, SMT

(* Insert puts x in its place and changes nothing else.                    *)
LEMMA InsertIs ==
  ASSUME NEW w \in Seq(0..MaxXid), w # <<>>, Sorted(w), NEW x \in Xids, x > w[1]
  PROVE LET v == Insert(w, x) IN
        /\ v \in Seq(0..MaxXid) /\ Len(v) = Len(w) + 1
        /\ v[1] = w[1] /\ Sorted(v)
        /\ \A y : In(v, y) <=> In(w, y) \/ y = x
        /\ \A k \in 2..Len(v) : v[k] = x \/ \E j \in 2..Len(w) : v[k] = w[j]
<1> DEFINE n == Len(w)
           above == {i \in 1..n : w[i] > x}
           i == IF above = {} THEN n + 1
                ELSE CHOOSE j \in above : \A k \in above : j <= k
           v == Insert(w, x)
<1> HIDE DEF above, i, v
<1>0. n \in Nat \ {0} /\ MaxXid \in Nat /\ x \in 1..MaxXid
      /\ \A k \in 1..n : w[k] \in 0..MaxXid
  BY RpcAssumption, SMT DEF Xids
<1>a. \A k \in 1..n : k \in above <=> w[k] > x
  BY DEF above
<1>b. above \subseteq 1..n
  BY DEF above
<1>1. /\ i \in 2..(n + 1)
      /\ \A k \in 1..n : k < i => w[k] <= x
      /\ \A k \in 1..n : k >= i => w[k] > x
  <2>1. CASE above = {}
    <3>1. i = n + 1
      BY <2>1 DEF i
    <3> QED BY <1>0, <1>a, <2>1, <3>1, SMT
  <2>2. CASE above # {}
    <3>1. \E j \in above : \A k \in above : j <= k
      <4>1. above \subseteq Nat
        BY <1>0, <1>b, SMT
      <4> QED BY <2>2, <4>1, Least
    <3>2. i \in above /\ \A k \in above : i <= k
      BY <2>2, <3>1 DEF i
    <3>3. i \in 1..n /\ w[i] > x
      BY <1>a, <1>b, <3>2
    <3>4. i # 1
      BY <1>0, <3>3, SMT
    <3>5. \A k \in 1..n : k < i => ~(w[k] > x)
      BY <1>a, <3>2, <3>3, SMT
    <3>6. \A k \in 1..n : k >= i => w[k] >= w[i]
      BY <3>3 DEF Sorted
    <3> QED BY <1>0, <3>3, <3>4, <3>5, <3>6, SMTT(30)
  <2> QED BY <2>1, <2>2
<1>2. v = SubSeq(w, 1, i - 1) \o <<x>> \o SubSeq(w, i, n)
  BY DEF Insert, i, above, v
<1>3. /\ v \in Seq(0..MaxXid) /\ Len(v) = n + 1
      /\ \A k \in 1..(n + 1) : v[k] = IF k < i THEN w[k] ELSE IF k = i THEN x ELSE w[k - 1]
  <2>1. /\ SubSeq(w, 1, i - 1) \in Seq(0..MaxXid) /\ Len(SubSeq(w, 1, i - 1)) = i - 1
        /\ \A k \in 1..(i - 1) : SubSeq(w, 1, i - 1)[k] = w[k]
    BY <1>0, <1>1, SMT
  <2>2. /\ SubSeq(w, i, n) \in Seq(0..MaxXid) /\ Len(SubSeq(w, i, n)) = n + 1 - i
        /\ \A k \in 1..(n + 1 - i) : SubSeq(w, i, n)[k] = w[i + k - 1]
    BY <1>0, <1>1, SMT
  <2> QED BY <1>0, <1>1, <1>2, <2>1, <2>2, SMT
<1> HIDE DEF n
<1>4. v[1] = w[1]
  BY <1>0, <1>1, <1>3, SMT
<1>5. Sorted(v)
  <2> SUFFICES ASSUME NEW j \in 1..(n + 1), NEW k \in 1..(n + 1), j <= k
               PROVE v[j] <= v[k]
    BY <1>3 DEF Sorted
  <2>1. \A a, b \in 1..n : a <= b => w[a] <= w[b]
    BY DEF Sorted, n
  <2>2. CASE k < i
    <3>1. v[j] = w[j] /\ v[k] = w[k] /\ j \in 1..n /\ k \in 1..n
      BY <1>0, <1>1, <1>3, <2>2, SMTT(20)
    <3> QED BY <2>1, <3>1
  <2>3. CASE k = i
    <3>1. v[k] = x /\ (j < i => v[j] = w[j] /\ j \in 1..n)
      BY <1>0, <1>1, <1>3, <2>3, SMTT(30)
    <3> QED BY <1>0, <1>1, <1>3, <2>3, <3>1, SMTT(30)
  <2>4. CASE k > i
    <3>1. v[k] = w[k - 1] /\ k - 1 \in 1..n /\ k - 1 >= i
      <4>1. k - 1 \in 1..n /\ k - 1 >= i /\ ~(k < i) /\ k # i
        BY <1>0, <1>1, <2>4, SMT
      <4> QED BY <1>3, <4>1
    <3>2. w[k - 1] > x
      BY <1>1, <3>1
    <3>3. CASE j < i
      <4>1. v[j] = w[j] /\ j \in 1..n /\ w[j] <= x
        BY <1>0, <1>1, <1>3, <3>3, SMTT(30)
      <4> QED BY <1>0, <3>1, <3>2, <4>1, SMT
    <3>4. CASE j = i
      <4>1. v[j] = x
        BY <1>1, <1>3, <3>4, SMT
      <4>2. w[k - 1] \in Nat
        BY <1>0, <3>1, SMT
      <4> QED BY <1>0, <3>1, <3>2, <4>1, <4>2, SMT
    <3>5. CASE j > i
      <4>1. v[j] = w[j - 1] /\ j - 1 \in 1..n /\ j - 1 <= k - 1
        <5>1. j - 1 \in 1..n /\ j - 1 <= k - 1 /\ ~(j < i) /\ j # i
          BY <1>0, <1>1, <3>5, SMT
        <5> QED BY <1>3, <5>1
      <4>2. w[j - 1] <= w[k - 1]
        BY <2>1, <3>1, <4>1
      <4> QED BY <3>1, <4>1, <4>2
    <3> QED BY <1>1, <3>3, <3>4, <3>5, SMT
  <2> QED BY <1>1, <2>2, <2>3, <2>4, SMT
<1>6. ASSUME NEW y PROVE In(v, y) <=> In(w, y) \/ y = x
  <2>1. ASSUME NEW k \in 1..(n + 1), v[k] = y PROVE In(w, y) \/ y = x
    <3>1. k < i => k \in 1..n /\ v[k] = w[k]
      BY <1>0, <1>1, <1>3, SMT
    <3>2. k > i => k - 1 \in 1..n /\ v[k] = w[k - 1]
      <4>1. k > i => k - 1 \in 1..n /\ ~(k < i) /\ k # i
        BY <1>0, <1>1, SMT
      <4> QED BY <1>3, <4>1
    <3>3. k = i => v[k] = x
      BY <1>3, SMT
    <3>4. k < i \/ k = i \/ k > i
      BY <1>1, SMT
    <3> QED BY <2>1, <3>1, <3>2, <3>3, <3>4 DEF In, n
  <2>2. y = x => In(v, y)
    <3>1. i \in 1..Len(v) /\ v[i] = x
      BY <1>0, <1>1, <1>3, SMT
    <3> QED BY <3>1 DEF In
  <2>3. ASSUME NEW k \in 1..n, w[k] = y PROVE In(v, y)
    <3>1. CASE k < i
      <4>1. k \in 1..(n + 1) /\ v[k] = y
        BY <1>0, <1>1, <1>3, <2>3, <3>1, SMTT(30)
      <4> QED BY <1>3, <4>1 DEF In
    <3>2. CASE k >= i
      <4>1. k + 1 \in 1..(n + 1) /\ ~(k + 1 < i) /\ k + 1 # i /\ (k + 1) - 1 = k
        BY <1>0, <1>1, <3>2, SMT
      <4>2. v[k + 1] = y
        BY <1>3, <2>3, <4>1, SMT
      <4> QED BY <1>3, <4>1, <4>2 DEF In
    <3> QED BY <1>0, <1>1, <3>1, <3>2, SMT
  <2> QED BY <1>3, <2>1, <2>2, <2>3 DEF In, n
<1>7. ASSUME NEW k \in 2..(n + 1)
      PROVE v[k] = x \/ \E j \in 2..n : v[k] = w[j]
  <2>1. k \in 1..(n + 1) /\ (k < i \/ k = i \/ k > i)
    BY <1>0, <1>1, SMT
  <2>2. CASE k < i
    <3>1. k \in 2..n /\ v[k] = w[k]
      BY <1>0, <1>1, <1>3, <2>1, <2>2, SMT
    <3> QED BY <3>1
  <2>3. CASE k = i
    BY <1>1, <1>3, <2>1, <2>3, SMT
  <2>4. CASE k > i
    <3>1. k - 1 \in 2..n /\ v[k] = w[k - 1]
      <4>1. k - 1 \in 2..n /\ ~(k < i) /\ k # i
        BY <1>0, <1>1, <2>1, <2>4, SMT
      <4> QED BY <1>3, <2>1, <4>1
    <3> QED BY <3>1
  <2> QED BY <2>1, <2>2, <2>3, <2>4
<1> QED BY <1>3, <1>4, <1>5, <1>6, <1>7 DEF v, n

(* The loop's count for w[i] is got from the one for w[i - 1].             *)
LEMMA PoppedIs ==
  ASSUME NEW w, Len(w) \in Nat
  PROVE Popped(w) = [i \in 1..Len(w) |->
                       IF i = 1 THEN 0 ELSE PopTo(w, Popped(w)[i - 1], i)]
<1> DEFINE T == {n \in Nat : ~\E p : p = [i \in 1..n |->
                                            IF i = 1 THEN 0 ELSE PopTo(w, p[i - 1], i)]}
<1>1. T = {}
  <2> SUFFICES ASSUME T # {} PROVE FALSE
    OBVIOUS
  <2>1. PICK m \in T : \A n \in T : m <= n
    BY Least
  <2>2. m # 0
    <3>1. [i \in 1..0 |-> 0] = [i \in 1..0 |-> IF i = 1 THEN 0
                                  ELSE PopTo(w, [j \in 1..0 |-> 0][i - 1], i)]
      BY SMT
    <3> QED BY <3>1
  <2>3. m - 1 \in Nat /\ m - 1 \notin T
    <3>1. m \in Nat
      OBVIOUS
    <3> HIDE DEF T
    <3>2. m - 1 \in Nat
      BY <2>2, <3>1, SMT
    <3>3. m - 1 \in T => m <= m - 1
      BY <2>1
    <3> QED BY <3>1, <3>2, <3>3, SMT
  <2>4. PICK p : p = [i \in 1..(m - 1) |-> IF i = 1 THEN 0 ELSE PopTo(w, p[i - 1], i)]
    BY <2>3
  <2>a. m \in Nat
    OBVIOUS
  <2> DEFINE g == [i \in 1..m |-> IF i = 1 THEN 0 ELSE PopTo(w, p[i - 1], i)]
  <2>5. \A i \in 1..(m - 1) : g[i] = p[i]
    BY <2>3, <2>4, SMT
  <2>6. \A i \in 1..m : i # 1 => g[i - 1] = p[i - 1]
    <3>1. \A i \in 1..m : i # 1 => i - 1 \in 1..(m - 1)
      BY <2>a, SMT
    <3> QED BY <2>5, <3>1
  <2>7. g = [i \in 1..m |-> IF i = 1 THEN 0 ELSE PopTo(w, g[i - 1], i)]
    BY <2>6
  <2> QED BY <2>7
<1>2. \E p : p = [i \in 1..Len(w) |-> IF i = 1 THEN 0 ELSE PopTo(w, p[i - 1], i)]
  BY <1>1, SMT
<1> QED BY <1>2 DEF Popped

(* The loop leaves a front that everything from the first element on leads *)
(* up to, and whose successor is not in the window.                        *)
LEMMA CompressIs ==
  ASSUME NEW w \in Seq(0..MaxXid), w # <<>>, Sorted(w)
  PROVE LET d == Popped(w)[Len(w)] IN
        /\ d \in 0..(Len(w) - 1)
        /\ \A y \in w[1]..w[d + 1] : In(w, y)
        /\ ~In(w, w[d + 1] + 1)
<1> DEFINE n == Len(w)
           P == Popped(w)
           J(i) == /\ P[i] \in 0..(i - 1)
                   /\ \A y \in w[1]..w[P[i] + 1] : \E j \in 1..i : w[j] = y
                   /\ \A j \in 1..i : w[j] # w[P[i] + 1] + 1
           T == {i \in 1..n : ~J(i)}
<1>0. n \in Nat \ {0} /\ MaxXid \in Nat /\ \A k \in 1..n : w[k] \in Nat
  BY RpcAssumption, SMT
<1>1. \A a, b \in 1..n : a <= b => w[a] <= w[b]
  BY DEF Sorted
<1>2. /\ P[1] = 0
      /\ \A i \in 1..n : i # 1 => P[i] = PopTo(w, P[i - 1], i)
  BY <1>0, PoppedIs, SMT
<1> HIDE DEF n, P
<1>3. J(1)
  BY <1>0, <1>2, SMT
<1>4. ASSUME NEW i \in 1..n, i # 1, J(i - 1) PROVE J(i)
  <2> DEFINE q == P[i - 1]
             Ends(d) == /\ w[d + 1] + 1 # w[i]
                        /\ \A e \in (q + 1)..d : w[e] + 1 = w[i]
  <2>0. /\ i - 1 \in 1..n /\ q \in 0..(i - 2) /\ q + 1 \in 1..n
        /\ w[q + 1] \in Nat /\ w[i] \in Nat
        /\ \A y \in w[1]..w[q + 1] : \E j \in 1..(i - 1) : w[j] = y
        /\ \A j \in 1..(i - 1) : w[j] # w[q + 1] + 1
    <3>1. i - 1 \in 1..n /\ (i - 1) - 1 = i - 2 /\ q \in 0..((i - 1) - 1)
      BY <1>0, <1>4, SMT
    <3>2. q + 1 \in 1..n
      BY <1>0, <3>1, SMT
    <3> QED BY <1>0, <1>4, <3>1, <3>2
  <2>1. P[i] = CHOOSE d \in q..(i - 1) : Ends(d)
    BY <1>2, <1>4 DEF PopTo
  <2> HIDE DEF q
  <2>2. CASE w[i] # w[q + 1] + 1
    <3>1. q \in q..(i - 1) /\ Ends(q)
      BY <1>0, <2>0, <2>2, SMT
    <3>2. P[i] \in q..(i - 1) /\ Ends(P[i])
      BY <2>1, <3>1
    <3>3. P[i] = q
      <4>0. q \in Nat /\ P[i] \in q..(i - 1)
        BY <2>0, <3>2, SMT
      <4>1. P[i] # q => q + 1 \in (q + 1)..P[i]
        BY <4>0, SMT
      <4> QED BY <2>2, <3>2, <4>1
    <3>4. \A j \in 1..i : j = i \/ j \in 1..(i - 1)
      BY <1>0, SMT
    <3>5. q \in 0..(i - 1) /\ \A j \in 1..(i - 1) : j \in 1..i
      BY <1>0, <2>0, SMT
    <3>6. \A y \in w[1]..w[q + 1] : \E j \in 1..i : w[j] = y
      BY <2>0, <3>5
    <3>7. \A j \in 1..i : w[j] # w[q + 1] + 1
      BY <2>0, <2>2, <3>4
    <3> QED BY <3>3, <3>5, <3>6, <3>7
  <2>3. CASE w[i] = w[q + 1] + 1
    <3>1. ASSUME NEW e \in (q + 1)..(i - 1) PROVE w[e] = w[q + 1]
      <4>1. e \in 1..n /\ e \in 1..(i - 1) /\ q + 1 <= e /\ e <= i
        BY <1>0, <2>0, SMT
      <4>2. w[q + 1] <= w[e] /\ w[e] <= w[i] /\ w[e] # w[q + 1] + 1 /\ w[e] \in Nat
        BY <1>0, <1>1, <2>0, <4>1
      <4> QED BY <2>0, <2>3, <4>2, SMTT(30)
    <3>2. i - 1 \in q..(i - 1) /\ Ends(i - 1)
      BY <1>0, <2>0, <2>3, <3>1, SMTT(30)
    <3>3. P[i] \in q..(i - 1) /\ Ends(P[i])
      BY <2>1, <3>2
    <3>4. P[i] = i - 1
      <4>0. q \in Nat /\ P[i] \in q..(i - 1) /\ i \in Nat
        BY <1>0, <2>0, <3>3, SMT
      <4>1. P[i] # i - 1 => P[i] + 1 \in (q + 1)..(i - 1)
        BY <4>0, SMT
      <4> QED BY <2>3, <3>1, <3>3, <4>1
    <3>5. P[i] + 1 = i
      BY <1>0, <3>4, SMT
    <3>6. ASSUME NEW y \in w[1]..w[i] PROVE \E j \in 1..i : w[j] = y
      <4>1. CASE y = w[i]
        BY <1>0, <4>1, SMT
      <4>2. CASE y # w[i]
        <5>1. y \in w[1]..w[q + 1]
          BY <1>0, <2>0, <2>3, <4>2, SMTT(30)
        <5>2. PICK j \in 1..(i - 1) : w[j] = y
          BY <2>0, <5>1
        <5>3. j \in 1..i
          BY <1>0, SMT
        <5> QED BY <5>2, <5>3
      <4> QED BY <4>1, <4>2
    <3>7. ASSUME NEW j \in 1..i PROVE w[j] # w[i] + 1
      <4>1. j \in 1..n /\ j <= i
        BY <1>0, SMT
      <4> QED BY <1>0, <1>1, <2>0, <4>1, SMT
    <3> QED BY <1>0, <3>4, <3>5, <3>6, <3>7, SMT
  <2> QED BY <2>2, <2>3
<1>5. T = {}
  <2> SUFFICES ASSUME T # {} PROVE FALSE
    OBVIOUS
  <2>1. T \subseteq Nat
    BY <1>0, SMT
  <2>2. PICK m \in T : \A k \in T : m <= k
    BY <2>1, Least
  <2>3. m \in 1..n /\ ~J(m)
    OBVIOUS
  <2>4. m # 1
    BY <1>3, <2>3
  <2>5. m - 1 \in 1..n /\ ~(m <= m - 1)
    BY <1>0, <2>3, <2>4, SMT
  <2>6. J(m - 1)
    BY <2>2, <2>5
  <2> HIDE DEF J
  <2> QED BY <1>4, <2>3, <2>4, <2>6
<1>6. J(n)
  <2>1. n \in 1..n
    BY <1>0, SMT
  <2> QED BY <1>5, <2>1
<1> QED BY <1>0, <1>6 DEF In, n, P

(* What is left of a sequence when d elements are popped.                  *)
LEMMA Rest ==
  ASSUME NEW S, NEW s \in Seq(S), NEW d \in 0..(Len(s) - 1)
  PROVE LET r == SubSeq(s, d + 1, Len(s)) IN
        /\ r \in Seq(S) /\ Len(r) = Len(s) - d
        /\ \A k \in 1..(Len(s) - d) : r[k] = s[d + k]
        /\ \A k \in 1..Len(s) : s[k] \in S
<1>1. Len(s) \in Nat /\ d \in Nat /\ d + 1 <= Len(s)
  BY SMT
<1>2. \A k \in 1..Len(s) : s[k] \in S
  BY SMT
<1>3. SubSeq(s, d + 1, Len(s)) \in Seq(S)
  BY <1>1, SMT
<1>4. Len(SubSeq(s, d + 1, Len(s))) = Len(s) - d
  BY <1>1, SMT
<1>5. \A k \in 1..(Len(s) - d) : SubSeq(s, d + 1, Len(s))[k] = s[d + k]
  BY <1>1, SMT
<1> QED BY <1>2, <1>3, <1>4, <1>5

(* update_xid_rep keeps the window exact, the xid added.                   *)
LEMMA UpdateIs ==
  ASSUME NEW w, NEW F \in SUBSET Xids, Window(w, F), NEW x \in Xids
  PROVE /\ Window(update_xid_rep(w, x), F \cup {x})
        /\ w[1] <= update_xid_rep(w, x)[1]
<1>0. /\ w \in Seq(0..MaxXid) /\ w # <<>> /\ Sorted(w) /\ Exact(w, F)
      /\ Len(w) \in Nat \ {0} /\ w[1] \in 0..MaxXid /\ Head(w) = w[1]
      /\ MaxXid \in Nat /\ x \in 1..MaxXid
      /\ \A i \in 2..Len(w) : w[i] >= 1
  BY RpcAssumption, SMT DEF Window, Xids
<1>1. CASE x <= w[1]
  <2>1. x \in F
    BY <1>0, <1>1 DEF Exact
  <2>2. F \cup {x} = F
    BY <2>1
  <2>3. update_xid_rep(w, x) = w
    BY <1>0, <1>1 DEF update_xid_rep
  <2>4. w[1] <= w[1]
    BY <1>0, SMT
  <2> QED BY <2>2, <2>3, <2>4
<1>2. CASE x > w[1]
  <2> DEFINE v == Insert(w, x)
             n == Len(v)
             d == Popped(v)[n]
             r == SubSeq(v, d + 1, n)
  <2>0. ~(x <= Head(w))
    BY <1>0, <1>2, SMT
  <2>1. update_xid_rep(w, x) = r
    BY <2>0 DEF update_xid_rep, Compress
  <2>2. /\ v \in Seq(0..MaxXid) /\ n = Len(w) + 1 /\ v[1] = w[1] /\ Sorted(v)
        /\ \A y : In(v, y) <=> In(w, y) \/ y = x
        /\ \A k \in 2..n : v[k] = x \/ \E j \in 2..Len(w) : v[k] = w[j]
    BY <1>0, <1>2, InsertIs
  <2>3. v # <<>>
    BY <1>0, <2>2, SMT
  <2>b. v \in Seq(0..MaxXid)
    BY <2>2
  <2> HIDE DEF v
  <2>4. /\ d \in 0..(n - 1)
        /\ \A y \in v[1]..v[d + 1] : In(v, y)
        /\ ~In(v, v[d + 1] + 1)
    BY <2>2, <2>3, CompressIs
  <2>6. n \in Nat \ {0}
    BY <1>0, <2>2, SMT
  <2>7. /\ r \in Seq(0..MaxXid) /\ Len(r) = n - d
        /\ \A k \in 1..(n - d) : r[k] = v[d + k]
        /\ \A k \in 1..n : v[k] \in 0..MaxXid
    <3>1. d \in 0..(n - 1)
      BY <2>4
    <3> HIDE DEF d
    <3> QED BY <2>b, <3>1, Rest
  <2>8. \A a, b \in 1..n : a <= b => v[a] <= v[b]
    BY <2>2 DEF Sorted
  <2>a. /\ \A y : In(v, y) <=> \E k \in 1..n : v[k] = y
        /\ \A y : In(r, y) <=> \E k \in 1..(n - d) : r[k] = y
    BY <2>7 DEF In
  <2> HIDE DEF n, d, r
  <2>9. r[1] = v[d + 1] /\ r # <<>>
    BY <2>4, <2>6, <2>7, SMT
  <2>10. Sorted(r)
    <3> SUFFICES ASSUME NEW a \in 1..(n - d), NEW b \in 1..(n - d), a <= b
                 PROVE r[a] <= r[b]
      BY <2>7 DEF Sorted
    <3>1. d + a \in 1..n /\ d + b \in 1..n /\ d + a <= d + b
      BY <2>4, <2>6, SMT
    <3> QED BY <2>7, <2>8, <3>1
  <2>11. ASSUME NEW y, In(r, y) PROVE In(v, y)
    <3>1. PICK k \in 1..(n - d) : r[k] = y
      BY <2>11, <2>a
    <3>2. d + k \in 1..n
      BY <2>4, <2>6, SMT
    <3> QED BY <2>7, <2>a, <3>1, <3>2
  <2>12. ASSUME NEW y \in Nat, In(v, y) PROVE y <= r[1] \/ In(r, y)
    <3>1. PICK k \in 1..n : v[k] = y
      BY <2>12, <2>a
    <3>2. CASE k <= d
      <4>1. d + 1 \in 1..n /\ k <= d + 1
        BY <2>4, <2>6, <3>2, SMT
      <4> QED BY <2>8, <2>9, <3>1, <4>1
    <3>3. CASE k > d
      <4>1. k - d \in 1..(n - d) /\ d + (k - d) = k
        BY <2>4, <2>6, <3>3, SMTT(30)
      <4> QED BY <2>7, <2>a, <3>1, <4>1
    <3> QED BY <2>4, <3>2, <3>3, SMT
  <2>13. ASSUME NEW y \in Xids PROVE y \in F \cup {x} <=> y <= r[1] \/ In(r, y)
    <3>0. y \in Nat
      BY SMT DEF Xids
    <3>1. y \in F <=> y <= w[1] \/ In(w, y)
      BY <1>0 DEF Exact
    <3>2. v[1] <= r[1] /\ v[1] \in Nat /\ r[1] \in Nat
      <4>1. 1 \in 1..n /\ d + 1 \in 1..n /\ 1 <= d + 1
        BY <2>4, <2>6, SMT
      <4> QED BY <1>0, <2>7, <2>8, <2>9, <4>1, SMTT(30)
    <3>3. y \in F \cup {x} => y <= v[1] \/ In(v, y)
      BY <2>2, <3>1
    <3>4. y <= r[1] => y <= v[1] \/ In(v, y)
      BY <2>4, <2>9, <3>0, <3>2, SMTT(30)
    <3>5. y <= v[1] \/ In(v, y) => y \in F \cup {x}
      BY <2>2, <3>1
    <3>6. y <= v[1] => y <= r[1]
      BY <3>0, <3>2, SMT
    <3> QED BY <2>11, <2>12, <3>0, <3>3, <3>4, <3>5, <3>6
  <2>14. ~In(r, r[1] + 1)
    BY <2>4, <2>9, <2>11
  <2>15. \A i \in 2..Len(r) : r[i] >= 1
    <3>1. ASSUME NEW k \in 2..n PROVE v[k] >= 1
      <4>1. v[k] = x \/ \E j \in 2..Len(w) : v[k] = w[j]
        BY <2>2
      <4> QED BY <1>0, <4>1, SMTT(30)
    <3>2. ASSUME NEW i \in 2..(n - d) PROVE d + i \in 2..n /\ i \in 1..(n - d)
      BY <2>4, <2>6, SMT
    <3> QED BY <2>7, <3>1, <3>2
  <2>16. w[1] <= r[1]
    <3>1. 1 \in 1..n /\ d + 1 \in 1..n /\ 1 <= d + 1
      BY <2>4, <2>6, SMTT(30)
    <3> QED BY <2>2, <2>8, <2>9, <3>1
  <2> QED BY <2>1, <2>7, <2>9, <2>10, <2>13, <2>14, <2>15, <2>16 DEF Window, Exact
<1> QED BY <1>0, <1>1, <1>2, SMT
-----------------------------------------------------------------------------
(* What the invariant says in the form the steps use it: an unfinished xid *)
(* is above the front, above every xid_rep and above what is forgotten.    *)
LEMMA Facts ==
  ASSUME IInv
  PROVE /\ MaxXid \in Nat /\ xid \in 1..(MaxXid + 1)
        /\ xid_rep_window[1] \in 0..MaxXid
        /\ Head(xid_rep_window) = xid_rep_window[1]
        /\ window_bound \in 0..MaxXid
        /\ \A x \in Xids : x \notin finished => x > xid_rep_window[1] /\ x > window_bound
        /\ \A x, y \in Xids : x \notin finished => x > calls[y].xid_rep
        /\ \A x \in Xids : /\ x \in 1..MaxXid /\ calls[x] \in CallRec
                           /\ requests[x] \in Nat /\ running[x] \in Nat
                           /\ execs[x] \in Nat
                           /\ calls[x].xid_rep \in 0..MaxXid
                           /\ \A kind \in Kinds : replies[<<x, kind>>] \in Nat
        /\ \A t \in Callers : cur[t] \in 0..MaxXid /\ (cur[t] # 0 => cur[t] \in Xids)
        /\ dup_req # 0 => dup_req \in Xids
<1>1. MaxXid \in Nat /\ xid \in 1..(MaxXid + 1) /\ window_bound \in 0..MaxXid
  BY RpcAssumption DEF IInv, TypeOK
<1>2. xid_rep_window[1] \in 0..MaxXid /\ Head(xid_rep_window) = xid_rep_window[1]
  <2>1. xid_rep_window \in Seq(0..MaxXid) /\ xid_rep_window # <<>>
    BY  DEF IInv, TypeOK
  <2> QED BY <1>1, <2>1, SMT
<1>3. ASSUME NEW x \in Xids, x \notin finished
      PROVE x > xid_rep_window[1] /\ x > window_bound
  <2>1. ~(x <= xid_rep_window[1])
    BY <1>3 DEF IInv, Window, Exact
  <2>2. window_bound <= xid_rep_window[1]
    BY DEF IInv
  <2> QED BY <1>1, <1>2, <2>1, <2>2, SMT DEF Xids
<1>4. ASSUME NEW x \in Xids
      PROVE /\ x \in 1..MaxXid /\ calls[x] \in CallRec /\ requests[x] \in Nat
            /\ running[x] \in Nat /\ execs[x] \in Nat
            /\ calls[x].xid_rep \in 0..MaxXid
            /\ \A kind \in Kinds : replies[<<x, kind>>] \in Nat
  <2>1. x \in 1..MaxXid /\ calls[x] \in CallRec /\ requests[x] \in Nat
        /\ running[x] \in Nat /\ execs[x] \in Nat
    BY  DEF IInv, TypeOK, Xids
  <2>2. calls[x].xid_rep \in 0..MaxXid
    BY <2>1 DEF CallRec
  <2>3. \A kind \in Kinds : replies[<<x, kind>>] \in Nat
    BY  DEF IInv, TypeOK
  <2> QED BY <2>1, <2>2, <2>3
<1>5. ASSUME NEW x \in Xids, NEW y \in Xids, x \notin finished
      PROVE x > calls[y].xid_rep
  <2>1. calls[y].xid_rep <= xid_rep_window[1]
    BY  DEF IInv, CallFits
  <2>2. x > xid_rep_window[1] /\ x \in Nat /\ calls[y].xid_rep \in Nat
    BY <1>1, <1>3, <1>4, <1>5, SMT
  <2> QED BY <1>2, <2>1, <2>2, SMT
<1>6. ASSUME NEW t \in Callers
      PROVE cur[t] \in 0..MaxXid /\ (cur[t] # 0 => cur[t] \in Xids)
  <2>1. cur \in [Callers -> 0..MaxXid]
    BY  DEF IInv, TypeOK
  <2>2. cur[t] \in 0..MaxXid
    BY <2>1
  <2> QED BY <1>1, <2>2, SMT DEF Xids
<1>7. dup_req # 0 => dup_req \in Xids
  <2>1. dup_req \in 0..MaxXid
    BY  DEF IInv, TypeOK
  <2> QED BY <1>1, <2>1, SMT DEF Xids
<1> QED BY <1>1, <1>2, <1>3, <1>4, <1>5, <1>6, <1>7

(* A call that gets its result, or gives up, enters the window.            *)
LEMMA FinishStep ==
  ASSUME IInv, NEW x \in Xids, Finish(x)
  PROVE /\ Window(xid_rep_window', finished')
        /\ xid_rep_window' \in Seq(0..MaxXid) /\ xid_rep_window' # <<>>
        /\ xid_rep_window[1] <= xid_rep_window'[1] /\ xid_rep_window'[1] \in 0..MaxXid
        /\ finished' \subseteq Xids /\ finished' = finished \cup {x}
<1>1. Window(xid_rep_window, finished) /\ finished \in SUBSET Xids
  BY  DEF IInv, TypeOK
<1>2. /\ Window(xid_rep_window', finished')
      /\ xid_rep_window[1] <= xid_rep_window'[1]
  BY <1>1, UpdateIs DEF Finish
<1>3. xid_rep_window' \in Seq(0..MaxXid) /\ xid_rep_window' # <<>>
  BY <1>2 DEF Window
<1>4. xid_rep_window'[1] \in 0..MaxXid
  BY <1>3, RpcAssumption, SMT
<1> QED BY <1>1, <1>2, <1>3, <1>4 DEF Finish

(* call1() up to its first wait.                                           *)
LEMMA CallStep ==
  ASSUME IInv, NEW t \in Callers, Call(t)
  PROVE IInv'
<1>0. /\ cur[t] = 0 /\ xid \in Xids /\ xid' = xid + 1
      /\ calls' = [calls EXCEPT ![xid] = [st |-> "pending", ret |-> "none",
                                          xid_rep |-> xid_rep_window[1]]]
      /\ cur' = [cur EXCEPT ![t] = xid]
      /\ dup_req' \in {0, dup_req}
      /\ UNCHANGED <<xid_rep_window, destroy_wait, cancel, xid_rep_done,
                     resends, finished, replies, reply_window, window_bound,
                     running, restarts, execs>>
  BY Facts, SMT DEF Call, serverVars, Xids
<1>1. Unused(xid) /\ calls[xid].st = "unused"
  <2>1. CallFits(xid)
    BY <1>0 DEF IInv
  <2>2. xid >= xid
    BY Facts, SMT
  <2> QED BY <2>1, <2>2 DEF CallFits
<1>2. TypeOK'
  <2>1. requests' \in [Xids -> Nat]
    BY Facts, SMT DEF Call
  <2>2. calls' \in [Xids -> CallRec] /\ cur' \in [Callers -> 0..MaxXid]
        /\ xid' \in 1..(MaxXid + 1) /\ dup_req' \in 0..MaxXid
    <3>1. [st |-> "pending", ret |-> "none", xid_rep |-> xid_rep_window[1]] \in CallRec
      BY Facts DEF CallRec, Results, Kinds
    <3>2. calls' \in [Xids -> CallRec]
      BY <1>0, <3>1 DEF IInv, TypeOK
    <3>3. cur' \in [Callers -> 0..MaxXid]
      <4>1. cur \in [Callers -> 0..MaxXid] /\ xid \in 1..MaxXid
        BY <1>0 DEF IInv, TypeOK, Xids
      <4>2. xid \in 0..MaxXid
        BY <4>1, SMT
      <4> QED BY <1>0, <4>1, <4>2
    <3>4. xid' \in 1..(MaxXid + 1) /\ dup_req' \in 0..MaxXid
      <4>1. dup_req \in 0..MaxXid /\ xid \in 1..MaxXid /\ MaxXid \in Nat
        BY <1>0, Facts DEF IInv, TypeOK
      <4> QED BY <1>0, <4>1, SMT
    <3> QED BY <3>2, <3>3, <3>4
  <2> QED BY <1>0, <2>1, <2>2 DEF IInv, TypeOK
<1>3. ASSUME NEW x \in Xids
      PROVE /\ x # xid => /\ calls'[x] = calls[x]
                           /\ requests'[x] \in {requests[x], requests[x] + 1}
            /\ calls'[xid] = [st |-> "pending", ret |-> "none",
                              xid_rep |-> xid_rep_window[1]]
            /\ x \notin {xid, dup_req} => requests'[x] = requests[x]
  BY <1>0 DEF Call, IInv, TypeOK
<1>4. CallersFit'
  <2>1. \A u \in Callers : cur'[u] = IF u = t THEN xid ELSE cur[u]
    BY <1>0 DEF IInv, TypeOK
  <2>2. \A u \in Callers : cur[u] # 0 => cur[u] # xid
    BY <1>1 DEF IInv, CallersFit
  <2>3. dup_req # 0 => dup_req # xid
    BY <1>1 DEF IInv, CallersFit
  <2>4. \A u \in Callers : cur'[u] # 0 => calls'[cur'[u]].st \in {"pending", "done"}
    <3> SUFFICES ASSUME NEW u \in Callers, cur'[u] # 0
                 PROVE calls'[cur'[u]].st \in {"pending", "done"}
      OBVIOUS
    <3>1. CASE u = t
      BY <1>0, <1>3, <2>1, <3>1, SMT
    <3>2. CASE u # t
      <4>1. cur'[u] = cur[u] /\ cur[u] \in Xids /\ cur[u] # xid
        BY <2>1, <2>2, <3>2, Facts
      <4>2. calls[cur[u]].st \in {"pending", "done"}
        BY <4>1 DEF IInv, CallersFit
      <4> QED BY <1>3, <4>1, <4>2
    <3> QED BY <3>1, <3>2
  <2>5. \A u, v \in Callers : cur'[u] = cur'[v] /\ cur'[u] # 0 => u = v
    BY <2>1, <2>2, ZenonT(40) DEF IInv, CallersFit
  <2>6. dup_req' # 0 => calls'[dup_req'].st = "over"
    BY <1>0, <1>3, <2>3, Facts, ZenonT(40) DEF IInv, CallersFit
  <2> QED BY <2>4, <2>5, <2>6 DEF CallersFit
<1>5. ASSUME NEW x \in Xids PROVE CallFits(x)' /\ Pending(x)'
  <2>1. Remembered(x)' = Remembered(x)
    BY <1>0 DEF Remembered
  <2>2. CASE x = xid
    <3>1. xid' > x /\ xid_rep_window[1] <= xid_rep_window[1]
      BY <1>0, <2>2, Facts, SMT
    <3>2. CallFits(x) /\ calls'[x] = [st |-> "pending", ret |-> "none",
                                      xid_rep |-> xid_rep_window[1]]
      BY <1>3, <2>2 DEF IInv
    <3>3. ~(x >= xid')
      BY <1>0, <3>1, Facts, SMT
    <3>4. Unused(x)
      BY <1>1, <2>2
    <3>5. CallFits(x)'
      <4>1. /\ calls'[x].st = "pending" /\ calls'[x].ret = "none"
            /\ calls'[x].xid_rep <= xid_rep_window'[1]
        BY <1>0, <3>1, <3>2, SMT
      <4> QED BY <1>0, <2>1, <3>2, <3>3, <4>1 DEF CallFits
    <3>6. Pending(x)'
      BY <1>0, <3>4, SMT DEF Pending, Unused
    <3> QED BY <3>5, <3>6
  <2>3. CASE x # xid
    <3>1. calls[x].st = "unused" <=> x >= xid
      BY  DEF IInv, CallFits
    <3>2. x >= xid <=> x >= xid'
      <4>1. x \in Int /\ xid \in Int
        BY Facts, SMT
      <4>2. xid' = xid + 1
        BY <1>0
      <4> QED BY <2>3, <4>1, <4>2, SMTT(30)
    <3>3. calls[x].st = "unused" => requests'[x] = requests[x]
      <4>1. dup_req # 0 => calls[dup_req].st = "over"
        BY  DEF IInv, CallersFit
      <4>2. x # 0
        BY Facts, SMT
      <4> QED BY <1>3, <2>3, <4>1, <4>2
    <3>4. Pending(x)'
      BY <1>0, <1>3, <2>1, <2>3 DEF Pending, IInv
    <3>5. CallFits(x)'
      BY <1>0, <1>3, <2>1, <2>3, <3>1, <3>2, <3>3, ZenonT(40) DEF CallFits, Unused, IInv
    <3> QED BY <3>4, <3>5
  <2> QED BY <2>2, <2>3
<1> QED BY <1>0, <1>2, <1>4, <1>5 DEF IInv

(* call1() sends the request again.                                        *)
LEMMA RetransmitStep ==
  ASSUME IInv, NEW t \in Callers, Retransmit(t)
  PROVE IInv'
<1>0. /\ cur[t] \in Xids /\ calls[cur[t]].st = "pending"
      /\ requests' = [requests EXCEPT ![cur[t]] = @ + 1]
      /\ UNCHANGED <<xid, xid_rep_window, calls, cur, destroy_wait, cancel,
                     dup_req, xid_rep_done, finished, replies, reply_window,
                     window_bound, running, restarts, execs>>
  BY Facts DEF Retransmit, serverVars
<1>1. resends' \in 0..MaxResend
  <2>1. resends \in 0..MaxResend /\ MaxResend \in Nat
    BY RpcAssumption DEF IInv, TypeOK
  <2> QED BY <2>1, SMT DEF Retransmit
<1>2. requests' \in [Xids -> Nat]
  <2>1. requests \in [Xids -> Nat]
    BY  DEF IInv, TypeOK
  <2> QED BY <1>0, <2>1, SMT
<1>3. TypeOK'
  BY <1>0, <1>1, <1>2 DEF IInv, TypeOK
<1>4. ASSUME NEW x \in Xids PROVE CallFits(x)' /\ Pending(x)'
  <2>1. Remembered(x)' = Remembered(x)
    BY <1>0 DEF Remembered
  <2>2. calls[x].st = "unused" => requests'[x] = requests[x]
    BY <1>0 DEF IInv, TypeOK
  <2>3. CallFits(x) /\ Pending(x)
    BY  DEF IInv
  <2> QED BY <1>0, <2>1, <2>2, <2>3 DEF CallFits, Pending, Unused
<1> QED BY <1>0, <1>3, <1>4 DEF IInv, CallersFit

(* A call that a step which finishes x leaves alone still fits.            *)
LEMMA FinishFrame ==
  ASSUME IInv, NEW x \in Xids, Finish(x), NEW y \in Xids,
         UNCHANGED <<xid, requests, reply_window, running, restarts, execs>>,
         calls'[y] = calls[y], y # x \/ calls[y].st \in {"done", "over"},
         \A kind \in Kinds : replies'[<<y, kind>>] = replies[<<y, kind>>]
                             \/ replies[<<y, kind>>] > 0
  PROVE CallFits(y)' /\ Pending(y)'
<1>1. CallFits(y) /\ Pending(y)
  BY DEF IInv
<1>2. Remembered(y)' = Remembered(y)
  BY DEF Remembered
<1>3. finished' = finished \cup {x}
  BY FinishStep
<1>4. calls[y].xid_rep <= xid_rep_window'[1]
  <2>1. calls[y].xid_rep \in 0..MaxXid /\ calls[y].xid_rep <= xid_rep_window[1]
    BY <1>1, Facts DEF CallFits
  <2>2. xid_rep_window[1] \in 0..MaxXid /\ MaxXid \in Nat
    BY Facts
  <2>3. xid_rep_window[1] <= xid_rep_window'[1] /\ xid_rep_window'[1] \in 0..MaxXid
    BY FinishStep
  <2> QED BY <2>1, <2>2, <2>3, SMT
<1>5. Pending(y)'
  BY <1>1, <1>2, <1>3 DEF Pending
<1>6. calls[y].st = "unused" => Unused(y)'
  <2>1. ASSUME calls[y].st = "unused"
        PROVE \A kind \in Kinds : replies'[<<y, kind>>] = 0
    BY <1>1, <2>1, SMT DEF CallFits, Unused
  <2> QED BY <1>1, <1>3, <2>1 DEF CallFits, Unused
<1>7. /\ replies'[<<y, "ok">>] > 0 => replies[<<y, "ok">>] > 0
      /\ replies'[<<y, "atmostonce_failure">>] > 0
         => replies[<<y, "atmostonce_failure">>] > 0
  BY  DEF Kinds
<1>8. CallFits(y)'
  BY <1>1, <1>2, <1>3, <1>4, <1>6, <1>7 DEF CallFits
<1> QED BY <1>5, <1>8

(* The end of call1(), with a result that is right.                        *)
LEMMA OverStep ==
  ASSUME IInv, NEW t \in Callers, NEW r \in Results, cur[t] # 0, Over(t, r),
         r # "atmostonce_failure", r = "ok" => execs[cur[t]] >= 1
  PROVE IInv'
<1>x. PICK x \in Xids : x = cur[t]
  BY Facts
<1>0. /\ x \in Xids /\ Finish(x)
      /\ calls' = [calls EXCEPT ![x].st = "over", ![x].ret = r]
      /\ cur' = [cur EXCEPT ![t] = 0]
      /\ dup_req' \in {dup_req, x}
      /\ UNCHANGED <<xid, destroy_wait, cancel, resends, requests, replies,
                     reply_window, window_bound, running, restarts, execs>>
  BY <1>x DEF Over, serverVars
<1>1. /\ x \in 1..MaxXid /\ calls[x].st \in {"pending", "done"}
      /\ calls[x] \in CallRec /\ calls \in [Xids -> CallRec]
      /\ cur \in [Callers -> 0..MaxXid]
  BY <1>x, Facts DEF IInv, CallersFit, TypeOK
<1>2. xid_rep_done' \in -1..MaxXid
  <2>1. xid_rep_done' \in {xid_rep_done, calls[x].xid_rep}
    BY <1>x DEF Over
  <2>2. xid_rep_done \in -1..MaxXid /\ calls[x].xid_rep \in 0..MaxXid /\ MaxXid \in Nat
    BY <1>0, Facts DEF IInv, TypeOK
  <2> QED BY <2>1, <2>2, SMT
<1>3. /\ calls'[x].st = "over" /\ calls'[x].ret = r
      /\ calls'[x].xid_rep = calls[x].xid_rep
      /\ calls'[x] \in CallRec
      /\ \A y \in Xids : y # x => calls'[y] = calls[y]
  BY <1>0, <1>1 DEF CallRec
<1>4. calls' \in [Xids -> CallRec]
  BY <1>0, <1>1, <1>3
<1>5. cur' \in [Callers -> 0..MaxXid]
      /\ \A u \in Callers : cur'[u] = IF u = t THEN 0 ELSE cur[u]
  BY <1>0, <1>1, Facts, SMT
<1>6. dup_req' \in 0..MaxXid
  <2>1. dup_req \in 0..MaxXid /\ MaxXid \in Nat
    BY RpcAssumption DEF IInv, TypeOK
  <2> QED BY <1>0, <1>1, <2>1, SMT
<1>7. TypeOK'
  BY <1>0, <1>2, <1>4, <1>5, <1>6, FinishStep DEF IInv, TypeOK
<1>8. CallersFit'
  <2>1. CallersFit
    BY DEF IInv
  <2>2. ASSUME NEW u \in Callers, cur'[u] # 0
        PROVE calls'[cur'[u]].st \in {"pending", "done"}
    <3>1. u # t /\ cur'[u] = cur[u] /\ cur[u] \in Xids
      BY <1>5, <2>2, Facts
    <3>2. cur[u] # x
      BY <1>x, <2>1, <3>1, <2>2 DEF CallersFit
    <3> QED BY <1>3, <2>1, <2>2, <3>1, <3>2, SMT DEF CallersFit
  <2>3. \A u, v \in Callers : cur'[u] = cur'[v] /\ cur'[u] # 0 => u = v
    BY <1>5, <2>1, SMT DEF CallersFit
  <2>4. dup_req' # 0 => calls'[dup_req'].st = "over"
    <3>1. dup_req # 0 => dup_req \in Xids /\ calls[dup_req].st = "over"
      BY <2>1, Facts DEF CallersFit
    <3> QED BY <1>0, <1>3, <3>1
  <2> QED BY <2>2, <2>3, <2>4 DEF CallersFit
<1>9. ASSUME NEW y \in Xids PROVE CallFits(y)' /\ Pending(y)'
  <2>1. CASE y # x
    BY <1>0, <1>3, <2>1, FinishFrame
  <2>2. CASE y = x
    <3>1. CallFits(x)
      BY <1>0 DEF IInv
    <3>2. Remembered(x)' = Remembered(x)
      BY <1>0 DEF Remembered
    <3>3. finished' = finished \cup {x} /\ calls[x].xid_rep <= xid_rep_window'[1]
      <4>1. calls[x].xid_rep \in 0..MaxXid /\ calls[x].xid_rep <= xid_rep_window[1]
        BY <3>1, Facts DEF CallFits
      <4>2. xid_rep_window[1] \in 0..MaxXid /\ MaxXid \in Nat
        BY Facts
      <4>3. /\ xid_rep_window[1] <= xid_rep_window'[1]
            /\ xid_rep_window'[1] \in 0..MaxXid /\ finished' = finished \cup {x}
        BY <1>0, FinishStep
      <4> QED BY <4>1, <4>2, <4>3, SMT
    <3>4. r = "ok" => execs[x] >= 1
      BY <1>x
    <3>5. CallFits(x)'
      BY <1>0, <1>1, <1>3, <3>1, <3>2, <3>3, <3>4 DEF CallFits
    <3> QED BY <1>3, <2>2, <3>5 DEF Pending
  <2> QED BY <2>1, <2>2
<1>10. window_bound' <= xid_rep_window'[1]
  <2>1. window_bound <= xid_rep_window[1]
    BY DEF IInv
  <2> QED BY <1>0, <2>1, FinishStep, Facts, SMTT(20)
<1> QED BY <1>0, <1>7, <1>8, <1>9, <1>10, FinishStep DEF IInv

(* call1() returns or gives up: the call is over.                          *)
LEMMA ReturnStep ==
  ASSUME IInv, NEW t \in Callers, Return(t) \/ Timeout(t)
  PROVE IInv'
<1>1. CASE Return(t)
  <2>1. cur[t] # 0 /\ cur[t] \in Xids /\ Over(t, calls[cur[t]].ret)
    BY <1>1, Facts DEF Return
  <2>2. CallFits(cur[t]) /\ calls[cur[t]] \in CallRec
    BY <2>1, Facts DEF IInv
  <2>3. calls[cur[t]].ret \in Results
    BY <2>2 DEF CallRec
  <2> QED BY <2>1, <2>2, <2>3, OverStep DEF CallFits
<1>2. CASE Timeout(t)
  <2>1. cur[t] # 0 /\ Over(t, "timeout_failure") /\ "timeout_failure" \in Results
    BY <1>2 DEF Timeout, Results
  <2> QED BY <2>1, OverStep
<1> QED BY <1>1, <1>2

(* got_pdu(): a pending call is not forgotten, so its result is no         *)
(* atmostonce_failure.                                                     *)
LEMMA ReplyStep ==
  ASSUME IInv, NEW x \in Xids, NEW kind \in Kinds, got_pdu(x, kind)
  PROVE IInv'
<1>0. /\ replies[<<x, kind>>] > 0 /\ Finish(x)
      /\ replies' = [replies EXCEPT ![<<x, kind>>] = @ - 1]
      /\ calls' = IF calls[x].st = "pending"
                  THEN [calls EXCEPT ![x].st = "done", ![x].ret = kind]
                  ELSE calls
      /\ UNCHANGED <<xid, cur, destroy_wait, cancel, dup_req, xid_rep_done,
                     resends, requests, reply_window, window_bound, running,
                     restarts, execs>>
  BY  DEF got_pdu, serverVars
<1>1. /\ calls[x] \in CallRec /\ calls \in [Xids -> CallRec] /\ CallFits(x) /\ Pending(x)
      /\ replies \in [Xids \X Kinds -> Nat] /\ replies[<<x, kind>>] \in Nat
  BY Facts DEF IInv, TypeOK
<1>2. calls[x].st # "unused"
  BY <1>0, <1>1, SMT DEF CallFits, Unused
<1>3. calls[x].st = "pending" => kind # "atmostonce_failure"
  BY <1>0, <1>1 DEF CallFits, Pending
<1>4. kind = "ok" => execs[x] >= 1
  BY <1>0, <1>1 DEF CallFits
<1>5. \A y \in Xids : y # x => calls'[y] = calls[y]
  BY <1>0, <1>1
<1>7. calls'[x].st # "pending" /\ calls'[x].st # "unused"
      /\ calls'[x].xid_rep = calls[x].xid_rep
      /\ calls'[x].ret \in {calls[x].ret, kind}
      /\ (calls'[x].ret = kind => calls'[x] = calls[x] \/ calls[x].st = "pending")
  <2>1. CASE calls[x].st = "pending"
    BY <1>0, <1>1, <2>1 DEF CallRec
  <2>2. CASE calls[x].st # "pending"
    BY <1>0, <1>2, <2>2
  <2> QED BY <2>1, <2>2
<1>8. TypeOK'
  <2>1. calls' \in [Xids -> CallRec]
    <3>1. CASE calls[x].st = "pending"
      <4>1. [[calls[x] EXCEPT !.st = "done"] EXCEPT !.ret = kind] \in CallRec
        BY <1>1 DEF CallRec, Results
      <4> QED BY <1>0, <1>1, <3>1, <4>1, SMT DEF CallRec, Results
    <3> QED BY <1>0, <1>1, <3>1
  <2>2. replies' \in [Xids \X Kinds -> Nat]
    BY <1>0, <1>1, SMT
  <2> QED BY <1>0, <2>1, <2>2, FinishStep DEF IInv, TypeOK
<1>9. CallersFit'
  <2>1. CallersFit
    BY DEF IInv
  <2>2. ASSUME NEW u \in Callers, cur[u] # 0
        PROVE calls'[cur[u]].st \in {"pending", "done"}
    <3>1. cur[u] \in Xids /\ calls[cur[u]].st \in {"pending", "done"}
      BY <2>1, <2>2, Facts DEF CallersFit
    <3>2. CASE cur[u] = x
      BY <1>0, <1>1, <3>1, <3>2 DEF CallRec
    <3> QED BY <1>5, <3>1, <3>2
  <2>3. dup_req # 0 => calls'[dup_req].st = "over"
    <3>1. dup_req # 0 => dup_req \in Xids /\ calls[dup_req].st = "over"
      BY <2>1, Facts DEF CallersFit
    <3> QED BY <1>0, <1>5, <3>1
  <2> QED BY <1>0, <2>1, <2>2, <2>3 DEF CallersFit
<1>10. ASSUME NEW y \in Xids PROVE CallFits(y)' /\ Pending(y)'
  <2>1. CASE y # x
    <3>1. \A k \in Kinds : replies'[<<y, k>>] = replies[<<y, k>>]
      BY <1>0, <1>1, <2>1
    <3> QED BY <1>0, <1>5, <2>1, <3>1, FinishFrame
  <2>2. CASE y = x
    <3>2. Remembered(x)' = Remembered(x)
      BY <1>0 DEF Remembered
    <3>3. finished' = finished \cup {x} /\ calls[x].xid_rep <= xid_rep_window'[1]
      <4>1. calls[x].xid_rep \in 0..MaxXid /\ calls[x].xid_rep <= xid_rep_window[1]
        BY <1>1, Facts DEF CallFits
      <4>2. xid_rep_window[1] \in 0..MaxXid /\ MaxXid \in Nat
        BY Facts
      <4>3. /\ xid_rep_window[1] <= xid_rep_window'[1]
            /\ xid_rep_window'[1] \in 0..MaxXid /\ finished' = finished \cup {x}
        BY <1>0, FinishStep
      <4> QED BY <4>1, <4>2, <4>3, SMT
    <3>4. replies'[<<x, "ok">>] > 0 => replies[<<x, "ok">>] > 0
      <4>1. <<x, "ok">> \in Xids \X Kinds
        BY DEF Kinds
      <4>2. replies[<<x, "ok">>] \in Nat
        BY <1>1, <4>1
      <4> QED BY <1>0, <1>1, <4>1, <4>2
    <3>5. /\ calls'[x].ret # "atmostonce_failure"
          /\ calls'[x].ret = "ok" => execs[x] >= 1
      <4>1. CASE calls[x].st = "pending"
        BY <1>0, <1>1, <1>3, <1>4, <1>7, <4>1 DEF CallFits
      <4>2. CASE calls[x].st # "pending"
        BY <1>0, <1>1, <4>2 DEF CallFits
      <4> QED BY <4>1, <4>2
    <3>6. CallFits(x)'
      BY <1>0, <1>1, <1>2, <1>7, <3>2, <3>3, <3>4, <3>5 DEF CallFits
    <3> QED BY <1>7, <2>2, <3>6 DEF Pending
  <2> QED BY <2>1, <2>2
<1>11. window_bound' <= xid_rep_window'[1]
  <2>1. window_bound <= xid_rep_window[1]
    BY DEF IInv
  <2> QED BY <1>0, <2>1, FinishStep, Facts, SMTT(30)
<1> QED BY <1>0, <1>8, <1>9, <1>10, <1>11, FinishStep DEF IInv

(* cancel() and its return.                                                *)
LEMMA CancelStep ==
  ASSUME IInv, Cancel \/ CancelReturns
  PROVE IInv'
<1>0. UNCHANGED <<xid, xid_rep_window, cur, dup_req, xid_rep_done, resends,
                  finished, requests, replies, reply_window, window_bound,
                  running, restarts, execs>>
  BY  DEF Cancel, CancelReturns, serverVars
<1>1. calls \in [Xids -> CallRec]
  BY  DEF IInv, TypeOK
<1>2. \A x \in Xids : \/ calls'[x] = calls[x]
                      \/ /\ calls[x].st \in {"pending", "done"}
                         /\ calls'[x] = [st |-> "done", ret |-> "cancel_failure",
                                         xid_rep |-> calls[x].xid_rep]
  BY <1>1, ZenonT(40) DEF Cancel, CancelReturns, InCalls, CallRec
<1>3. ASSUME NEW x \in Xids
      PROVE [st |-> "done", ret |-> "cancel_failure", xid_rep |-> calls[x].xid_rep]
               \in CallRec
  BY <1>1 DEF CallRec, Results
<1>4. calls' \in [Xids -> CallRec]
  <2>1. DOMAIN calls' = Xids /\ calls' = [x \in Xids |-> calls'[x]]
    BY <1>1 DEF Cancel, CancelReturns
  <2> QED BY <1>1, <1>2, <1>3, <2>1, ZenonT(40)
<1>5. TypeOK'
  <2>1. destroy_wait' \in BOOLEAN /\ cancel' \in {"not called", "waiting", "returned"}
    BY  DEF IInv, TypeOK, Cancel, CancelReturns
  <2> QED BY <1>0, <1>4, <2>1 DEF IInv, TypeOK
<1>6. CallersFit'
  <2>1. CallersFit
    BY DEF IInv
  <2>2. ASSUME NEW u \in Callers, cur[u] # 0
        PROVE calls'[cur[u]].st \in {"pending", "done"}
    <3>1. cur[u] \in Xids /\ calls[cur[u]].st \in {"pending", "done"}
      BY <2>1, <2>2, Facts DEF CallersFit
    <3>2. ASSUME NEW x \in Xids PROVE calls'[x] = calls[x] \/ calls'[x].st = "done"
      <4>1. CASE calls'[x] = calls[x]
        BY <4>1
      <4>2. CASE calls'[x] = [st |-> "done", ret |-> "cancel_failure",
                              xid_rep |-> calls[x].xid_rep]
        BY <4>2, SMT
      <4> QED BY <1>2, <4>1, <4>2
    <3> QED BY <3>1, <3>2
  <2>3. ASSUME dup_req # 0 PROVE calls'[dup_req].st = "over"
    <3>1. dup_req \in Xids /\ calls[dup_req].st = "over"
      BY <2>1, <2>3, Facts DEF CallersFit
    <3> QED BY <1>2, <3>1
  <2> QED BY <1>0, <2>1, <2>2, <2>3 DEF CallersFit
<1>7. ASSUME NEW x \in Xids PROVE CallFits(x)' /\ Pending(x)'
  <2>1. Remembered(x)' = Remembered(x)
    BY <1>0 DEF Remembered
  <2>2. CallFits(x) /\ Pending(x)
    BY  DEF IInv
  <2>3. CASE calls'[x] = calls[x]
    BY <1>0, <2>1, <2>2, <2>3 DEF CallFits, Pending, Unused
  <2>4. CASE /\ calls[x].st \in {"pending", "done"}
             /\ calls'[x] = [st |-> "done", ret |-> "cancel_failure",
                             xid_rep |-> calls[x].xid_rep]
    BY <1>0, <2>1, <2>2, <2>4, SMT DEF CallFits, Pending
  <2> QED BY <1>2, <2>3, <2>4
<1> QED BY <1>0, <1>5, <1>6, <1>7 DEF IInv

(* Receiving a request: it is one that has been sent, so its call is made. *)
LEMMA Received ==
  ASSUME IInv, NEW x \in Xids, Receive(x)
  PROVE /\ requests' \in [Xids -> Nat] /\ calls[x].st # "unused"
        /\ \A y \in Xids : y # x => requests'[y] = requests[y]
<1>1. requests \in [Xids -> Nat] /\ CallFits(x) /\ requests[x] \in Nat /\ requests[x] > 0
  BY  DEF IInv, TypeOK, Receive
<1>2. calls[x].st # "unused"
  BY <1>1, SMT DEF CallFits, Unused
<1> QED BY <1>1, <1>2, SMT DEF Receive

(* A message more changes nothing but its own count.                       *)
LEMMA Sent ==
  ASSUME IInv, NEW x \in Xids, NEW kind \in Kinds, Send(x, kind)
  PROVE /\ replies' \in [Xids \X Kinds -> Nat]
        /\ \A y \in Xids, k \in Kinds :
             <<y, k>> # <<x, kind>> => replies'[<<y, k>>] = replies[<<y, k>>]
<1>1. replies \in [Xids \X Kinds -> Nat]
  BY  DEF IInv, TypeOK
<1> QED BY <1>1, SMT DEF Send

(* A step of the server that remembers what it did and runs nothing new    *)
(* leaves call y fitting, if a reply it sends says what is so.             *)
LEMMA ServerFrame ==
  ASSUME IInv, NEW y \in Xids, UNCHANGED clientVars, UNCHANGED <<restarts, execs>>,
         calls[y].st = "unused" =>
           /\ requests'[y] = requests[y] /\ running'[y] = running[y]
           /\ \A k \in Kinds : replies'[<<y, k>>] = replies[<<y, k>>],
         running'[y] > 0 => running[y] > 0,
         (Remembered(y)' = {}) <=> (Remembered(y) = {}),
         replies'[<<y, "ok">>] # replies[<<y, "ok">>] => execs[y] >= 1,
         replies'[<<y, "atmostonce_failure">>] # replies[<<y, "atmostonce_failure">>]
           => y \in finished
  PROVE CallFits(y)' /\ Pending(y)'
<1>1. CallFits(y) /\ Pending(y)
  BY  DEF IInv
<1>2. UNCHANGED <<xid, xid_rep_window, calls, finished>>
  BY  DEF clientVars
<1>3. calls[y].st = "unused" => Unused(y)'
  BY <1>1, <1>2 DEF CallFits, Unused
<1>4. CallFits(y)'
  BY <1>1, <1>2, <1>3 DEF CallFits
<1>5. Pending(y)'
  BY <1>1, <1>2 DEF Pending
<1> QED BY <1>4, <1>5

(* dispatch() of a request that does not run.                              *)
LEMMA DispatchOldStep ==
  ASSUME IInv, NEW x \in Xids, DispatchOld(x)
  PROVE IInv'
<1>0. /\ Receive(x) /\ UNCHANGED clientVars
      /\ UNCHANGED <<reply_window, window_bound, running, restarts, execs>>
  BY DEF DispatchOld, serverVars
<1>1. \/ UNCHANGED replies
      \/ Send(x, "oldsrv_failure")
      \/ Send(x, "ok") /\ Remembered(x) # {}
      \/ Send(x, "atmostonce_failure") /\ x <= window_bound
  BY DEF DispatchOld, StatusOf
<1>2. x <= window_bound => x \in finished
  BY Facts, SMT
<1>3. /\ replies' \in [Xids \X Kinds -> Nat]
      /\ \A y \in Xids, k \in Kinds : y # x => replies'[<<y, k>>] = replies[<<y, k>>]
      /\ replies'[<<x, "ok">>] # replies[<<x, "ok">>] => Remembered(x) # {}
      /\ replies'[<<x, "atmostonce_failure">>] # replies[<<x, "atmostonce_failure">>]
           => x \in finished
  <2>0. replies \in [Xids \X Kinds -> Nat]
    BY  DEF IInv, TypeOK
  <2>1. CASE UNCHANGED replies
    BY <2>0, <2>1
  <2>2. CASE Send(x, "oldsrv_failure")
    BY <2>0, <2>2, SMT DEF Send, Kinds
  <2>3. CASE Send(x, "ok") /\ Remembered(x) # {}
    BY <2>0, <2>3, SMT DEF Send, Kinds
  <2>4. CASE Send(x, "atmostonce_failure") /\ x <= window_bound
    BY <1>2, <2>0, <2>4, SMT DEF Send, Kinds
  <2> QED BY <1>1, <2>1, <2>2, <2>3, <2>4
<1>4. TypeOK'
  BY <1>0, <1>3, Received DEF IInv, TypeOK, clientVars
<1>5. ASSUME NEW y \in Xids PROVE CallFits(y)' /\ Pending(y)'
  <2>1. Remembered(y)' = Remembered(y)
    BY <1>0 DEF Remembered
  <2>2. Remembered(x) # {} => execs[x] >= 1
    BY  DEF IInv, CallFits
  <2>3. y # x => requests'[y] = requests[y]
    BY <1>0, Received
  <2>4. calls[x].st # "unused"
    BY <1>0, Received
  <2>5. /\ replies'[<<y, "ok">>] # replies[<<y, "ok">>] => execs[y] >= 1
        /\ replies'[<<y, "atmostonce_failure">>] # replies[<<y, "atmostonce_failure">>]
             => y \in finished
    BY <1>3, <2>2 DEF Kinds
  <2> QED BY <1>0, <1>3, <2>1, <2>3, <2>4, <2>5, ServerFrame
<1> QED BY <1>0, <1>4, <1>5 DEF IInv, CallersFit, clientVars

(* The handler returns.                                                    *)
LEMMA HandlerReturnsStep ==
  ASSUME IInv, NEW x \in Xids, HandlerReturns(x)
  PROVE IInv'
<1>0. /\ running[x] > 0 /\ running' = [running EXCEPT ![x] = @ - 1]
      /\ reply_window' = {IF r.xid = x THEN [xid |-> x, cb_present |-> TRUE] ELSE r :
                             r \in reply_window}
      /\ Send(x, "ok") /\ UNCHANGED clientVars
      /\ UNCHANGED <<requests, window_bound, restarts, execs>>
  BY  DEF HandlerReturns
<1>1. CallFits(x) /\ execs[x] >= 1 /\ calls[x].st # "unused" /\ running[x] \in Nat
  <2>1. CallFits(x) /\ running[x] \in Nat
    BY Facts DEF IInv
  <2>2. running[x] # 0
    BY <1>0, <2>1, SMT
  <2>3. execs[x] >= 1
    BY <1>0, <2>1 DEF CallFits
  <2>4. calls[x].st # "unused"
    BY <2>1, <2>2 DEF CallFits, Unused
  <2> QED BY <2>1, <2>3, <2>4
<1>2. reply_window \subseteq [xid : Xids, cb_present : BOOLEAN]
      /\ running \in [Xids -> Nat]
  BY  DEF IInv, TypeOK
<1>3. reply_window' \subseteq [xid : Xids, cb_present : BOOLEAN]
  <2>1. [xid |-> x, cb_present |-> TRUE] \in [xid : Xids, cb_present : BOOLEAN]
    OBVIOUS 
  <2> QED BY <1>0, <1>2, <2>1
<1>4. running' \in [Xids -> Nat] /\ \A y \in Xids : y # x => running'[y] = running[y]
  BY <1>0, <1>1, <1>2, SMT
<1>5. TypeOK'
  BY <1>0, <1>3, <1>4, Sent DEF IInv, TypeOK, clientVars, Kinds
<1>6. ASSUME NEW y \in Xids PROVE (Remembered(y)' = {}) <=> (Remembered(y) = {})
  <2>1. ASSUME NEW r \in Remembered(y) PROVE Remembered(y)' # {}
    <3>1. r \in reply_window /\ r.xid = y
      BY DEF Remembered
    <3>2. CASE r.xid = x
      <4>1. [xid |-> x, cb_present |-> TRUE] \in reply_window'
        BY <1>0, <3>1, <3>2
      <4> QED BY <3>1, <3>2, <4>1, SMTT(30) DEF Remembered
    <3>3. CASE r.xid # x
      <4>1. r \in reply_window'
        BY <1>0, <3>1, <3>3
      <4> QED BY <3>1, <4>1 DEF Remembered
    <3> QED BY <3>2, <3>3
  <2>2. ASSUME NEW s \in Remembered(y)' PROVE Remembered(y) # {}
    <3>1. s \in reply_window' /\ s.xid = y
      BY  DEF Remembered
    <3>2. PICK r \in reply_window :
                 s = IF r.xid = x THEN [xid |-> x, cb_present |-> TRUE] ELSE r
      BY <1>0, <3>1
    <3>3. r.xid = y
      BY <3>1, <3>2
    <3> QED BY <3>3 DEF Remembered
  <2> QED BY <2>1, <2>2
<1>7. ASSUME NEW y \in Xids PROVE CallFits(y)' /\ Pending(y)'
  <2>1. \A k \in Kinds : y # x \/ k # "ok" => replies'[<<y, k>>] = replies[<<y, k>>]
    BY <1>0, Sent, ZenonT(40) DEF Kinds
  <2>2. running'[y] > 0 => running[y] > 0
    BY <1>0, <1>4
  <2>3. replies'[<<y, "ok">>] # replies[<<y, "ok">>] => execs[y] >= 1
    BY <1>1, <2>1 DEF Kinds
  <2>4. replies'[<<y, "atmostonce_failure">>] = replies[<<y, "atmostonce_failure">>]
    BY <2>1 DEF Kinds
  <2>5. calls[y].st = "unused" => y # x
    BY <1>1
  <2> QED BY <1>0, <1>4, <1>6, <2>1, <2>2, <2>3, <2>4, <2>5, ServerFrame
<1> QED BY <1>0, <1>5, <1>7 DEF IInv, CallersFit, clientVars

(* dispatch() of a new request.  A request that waits for its result is    *)
(* new only if it has not run: were it run, it would be remembered.  It is *)
(* above the xid_rep of any request, so that it is kept.                   *)
LEMMA DispatchNewStep ==
  ASSUME IInv, NEW x \in Xids, DispatchNew(x)
  PROVE IInv'
<1>0. /\ Receive(x) /\ restarts = 0 /\ StatusOf(x) = "NEW"
      /\ reply_window' = Remember(x) /\ window_bound' = calls[x].xid_rep
      /\ running' = [running EXCEPT ![x] = @ + 1]
      /\ execs' = [execs EXCEPT ![x] = @ + 1]
      /\ UNCHANGED clientVars /\ UNCHANGED <<replies, restarts>>
  BY DEF DispatchNew
<1>1. /\ running \in [Xids -> Nat] /\ execs \in [Xids -> Nat]
      /\ reply_window \subseteq [xid : Xids, cb_present : BOOLEAN]
  BY  DEF IInv, TypeOK
<1>2. UNCHANGED <<xid, xid_rep_window, calls, finished>>
  BY <1>0 DEF clientVars
<1>3. /\ requests' \in [Xids -> Nat] /\ calls[x].st # "unused"
      /\ \A y \in Xids : y # x => requests'[y] = requests[y]
  BY <1>0, Received
<1>4. /\ running' \in [Xids -> Nat] /\ execs' \in [Xids -> Nat]
      /\ \A y \in Xids : y # x => running'[y] = running[y] /\ execs'[y] = execs[y]
      /\ execs'[x] = execs[x] + 1 /\ execs[x] \in Nat
  BY <1>0, <1>1, SMT
<1>5. reply_window' \subseteq [xid : Xids, cb_present : BOOLEAN]
  <2>1. [xid |-> x, cb_present |-> FALSE] \in [xid : Xids, cb_present : BOOLEAN]
    OBVIOUS 
  <2> QED BY <1>0, <1>1, <2>1 DEF Remember
<1>6. TypeOK'
  BY <1>0, <1>3, <1>4, <1>5, Facts DEF IInv, TypeOK, clientVars
<1>7. window_bound' <= xid_rep_window'[1]
  BY <1>0, <1>2 DEF IInv, CallFits
<1>8. ASSUME NEW y \in Xids
      PROVE /\ y # x /\ Remembered(y)' # {} => Remembered(y) # {}
            /\ y # x /\ Remembered(y) # {} /\ y > calls[x].xid_rep => Remembered(y)' # {}
            /\ x > calls[x].xid_rep => Remembered(x)' # {}
  <2>1. ASSUME y # x, NEW r \in Remembered(y)' PROVE r \in Remembered(y)
    <3>1. r \in reply_window' /\ r.xid = y
      BY DEF Remembered
    <3> QED BY <1>0, <2>1, <3>1, SMT DEF Remember, Remembered
  <2>2. ASSUME NEW r \in Remembered(y), y > calls[x].xid_rep PROVE r \in Remembered(y)'
    <3>1. r \in reply_window /\ r.xid = y
      BY DEF Remembered
    <3>2. r \in reply_window'
      BY <1>0, <2>2, <3>1 DEF Remember
    <3> QED BY <3>1, <3>2 DEF Remembered
  <2>3. ASSUME x > calls[x].xid_rep PROVE Remembered(x)' # {}
    <3>1. [xid |-> x, cb_present |-> FALSE] \in reply_window'
      BY <1>0, <2>3 DEF Remember
    <3> QED BY <3>1, SMTT(30) DEF Remembered
  <2> QED BY <2>1, <2>2, <2>3
<1>9. ASSUME NEW y \in Xids PROVE CallFits(y)' /\ Pending(y)'
  <2>1. CallFits(y) /\ Pending(y)
    BY  DEF IInv
  <2>2. y \notin finished => y > calls[x].xid_rep /\ y > window_bound
    BY Facts
  <2>3. CASE y # x
    <3>1. CallFits(y)'
      BY <1>0, <1>2, <1>3, <1>4, <1>8, <2>1, <2>3 DEF CallFits, Unused
    <3>2. Pending(y)'
      BY <1>0, <1>2, <1>4, <1>8, <2>1, <2>2, <2>3 DEF Pending
    <3> QED BY <3>1, <3>2
  <2>4. CASE y = x
    <3>1. execs'[x] >= 1
      BY <1>4, SMT
    <3>2. CallFits(x)'
      BY <1>0, <1>2, <1>3, <2>1, <2>4, <3>1 DEF CallFits
    <3>3. ASSUME calls[x].st = "pending"
          PROVE execs'[x] <= 1 /\ x \notin finished /\ Remembered(x)' # {}
      <4>1. x \notin finished /\ execs[x] <= 1
            /\ (execs[x] = 1 => Remembered(x) # {})
        BY <1>0, <2>1, <2>4, <3>3 DEF Pending
      <4>a. x \in Int /\ window_bound \in Int /\ execs[x] \in Nat
        <5>1. x \in 1..MaxXid /\ window_bound \in 0..MaxXid /\ execs[x] \in Nat
          BY Facts DEF IInv, TypeOK
        <5> QED BY <5>1, SMT
      <4>2. Remembered(x) = {}
        <5>1. ~(x <= window_bound)
          <6>1. x \in Int /\ window_bound \in Int /\ x > window_bound
            BY <2>2, <2>4, <4>1, <4>a
          <6> QED BY <6>1, SMT
        <5> QED BY <1>0, <5>1 DEF StatusOf, Remembered
      <4>3. execs[x] = 0 /\ execs'[x] = execs[x] + 1
        <5>1. execs[x] # 1 /\ execs'[x] = execs[x] + 1
          BY <1>4, <4>1, <4>2
        <5> QED BY <4>1, <4>a, <5>1, SMT
      <4>4. Remembered(x)' # {}
        BY <1>8, <2>2, <2>4, <4>1
      <4>5. execs'[x] <= 1
        BY <4>3, SMT
      <4> QED BY <4>1, <4>4, <4>5
    <3> QED BY <1>2, <2>4, <3>2, <3>3 DEF Pending
  <2> QED BY <2>3, <2>4
<1> QED BY <1>0, <1>6, <1>7, <1>9 DEF IInv, CallersFit, clientVars

(* The server started anew runs no request of this client.                 *)
LEMMA RestartStep ==
  ASSUME IInv, Restart
  PROVE IInv'
<1>0. /\ restarts' = restarts + 1 /\ reply_window' = {} /\ window_bound' = 0
      /\ running' = [x \in Xids |-> 0]
      /\ UNCHANGED clientVars /\ UNCHANGED <<requests, replies, execs>>
  BY DEF Restart
<1>1. restarts' \in 0..MaxRestart /\ restarts' # 0
  <2>1. restarts \in 0..MaxRestart /\ MaxRestart \in Nat /\ restarts < MaxRestart
    BY RpcAssumption DEF IInv, TypeOK, Restart
  <2> QED BY <1>0, <2>1, SMT
<1>2. window_bound' \in 0..MaxXid /\ window_bound' <= xid_rep_window'[1]
  <2>1. window_bound' = 0 /\ xid_rep_window' = xid_rep_window
    BY <1>0 DEF clientVars
  <2>2. xid_rep_window[1] \in 0..MaxXid /\ MaxXid \in Nat
    BY Facts
  <2> QED BY <2>1, <2>2, SMT
<1>3. TypeOK'
  BY <1>0, <1>1, <1>2 DEF IInv, TypeOK, clientVars
<1>4. ASSUME NEW x \in Xids PROVE CallFits(x)' /\ Pending(x)'
  <2>1. CallFits(x) /\ Pending(x)
    BY DEF IInv
  <2>2. Remembered(x)' = {} /\ running'[x] = 0
    BY <1>0 DEF Remembered
  <2>3. UNCHANGED <<xid, xid_rep_window, calls, finished>>
    BY <1>0 DEF clientVars
  <2>4. ~(running'[x] > 0)
    BY <2>2, SMT
  <2>5. CallFits(x)'
    BY <1>0, <2>1, <2>2, <2>3, <2>4 DEF CallFits, Unused
  <2>6. Pending(x)'
    BY <1>0, <1>1, <2>1, <2>3 DEF Pending
  <2> QED BY <2>5, <2>6
<1> QED BY <1>0, <1>2, <1>3, <1>4 DEF IInv, CallersFit, clientVars
-----------------------------------------------------------------------------
(* The first state.                                                        *)
LEMMA Initially == Init => IInv
<1> SUFFICES ASSUME Init PROVE IInv
  OBVIOUS
<1>1. MaxXid \in Nat /\ MaxResend \in Nat /\ MaxRestart \in Nat
  BY RpcAssumption
<1>2. /\ xid_rep_window = <<0>> /\ xid_rep_window \in Seq(0..MaxXid)
      /\ xid_rep_window[1] = 0 /\ Len(xid_rep_window) = 1 /\ finished = {}
  <2>1. xid_rep_window = <<0>> /\ finished = {}
    BY  DEF Init
  <2>2. 0 \in 0..MaxXid
    BY <1>1, SMT
  <2> QED BY <2>1, <2>2, SMT
<1>3. TypeOK
  <2>1. calls \in [Xids -> CallRec]
    <3>1. calls = [x \in Xids |-> [st |-> "unused", ret |-> "none", xid_rep |-> 0]]
      BY  DEF Init
    <3>2. [st |-> "unused", ret |-> "none", xid_rep |-> 0] \in CallRec
      BY <1>1, SMT DEF CallRec, Results
    <3> QED BY <3>1, <3>2
  <2>2. /\ requests \in [Xids -> Nat] /\ running \in [Xids -> Nat]
        /\ execs \in [Xids -> Nat] /\ replies \in [Xids \X Kinds -> Nat]
        /\ cur \in [Callers -> 0..MaxXid]
    <3>1. /\ requests = [x \in Xids |-> 0] /\ running = [x \in Xids |-> 0]
          /\ execs = [x \in Xids |-> 0] /\ replies = [m \in Xids \X Kinds |-> 0]
          /\ cur = [t \in Callers |-> 0]
      BY  DEF Init
    <3>2. 0 \in 0..MaxXid
      BY <1>1, SMT
    <3> QED BY <3>1, <3>2
  <2>3. /\ xid \in 1..(MaxXid + 1) /\ dup_req \in 0..MaxXid
        /\ xid_rep_done \in -1..MaxXid /\ resends \in 0..MaxResend
        /\ window_bound \in 0..MaxXid /\ restarts \in 0..MaxRestart
    <3>1. /\ xid = 1 /\ dup_req = 0 /\ xid_rep_done = -1 /\ resends = 0
          /\ window_bound = 0 /\ restarts = 0
      BY  DEF Init
    <3> QED BY <1>1, <3>1, SMT
  <2>4. /\ destroy_wait \in BOOLEAN /\ finished \subseteq Xids
        /\ cancel \in {"not called", "waiting", "returned"}
        /\ reply_window \subseteq [xid : Xids, cb_present : BOOLEAN]
    BY  DEF Init
  <2>5. xid_rep_window \in Seq(0..MaxXid) /\ xid_rep_window # <<>>
    BY <1>2
  <2> QED BY <2>1, <2>2, <2>3, <2>4, <2>5 DEF TypeOK
<1>4. Window(xid_rep_window, finished)
  <2>1. \A i \in 1..1 : i = 1
    BY SMT
  <2>2. Sorted(xid_rep_window)
    BY <1>2, <2>1, SMT DEF Sorted
  <2>3. \A x \in Xids : ~(x <= 0) /\ x # 0
    BY <1>1, SMT DEF Xids
  <2>4. Exact(xid_rep_window, finished)
    BY <1>2, <2>1, <2>3, SMT DEF Exact, In
  <2>5. \A i \in 2..1 : FALSE
    BY SMT
  <2>6. xid_rep_window # <<>>
    BY <1>2
  <2> QED BY <1>2, <2>2, <2>4, <2>5, <2>6 DEF Window
<1>5. ASSUME NEW x \in Xids PROVE CallFits(x) /\ Pending(x)
  <2>1. x >= 1
    BY <1>1, SMT DEF Xids
  <2>2. /\ calls[x] = [st |-> "unused", ret |-> "none", xid_rep |-> 0] /\ xid = 1
        /\ requests[x] = 0 /\ running[x] = 0 /\ execs[x] = 0 /\ reply_window = {}
        /\ \A kind \in Kinds : replies[<<x, kind>>] = 0
    BY  DEF Init
  <2>3. replies[<<x, "ok">>] = 0 /\ replies[<<x, "atmostonce_failure">>] = 0
    BY <2>2 DEF Kinds
  <2>4. Remembered(x) = {}
    BY <2>2 DEF Remembered
  <2> QED BY <1>2, <2>1, <2>2, <2>3, <2>4, SMT DEF CallFits, Pending, Unused
<1>6. CallersFit /\ window_bound <= xid_rep_window[1]
  <2>1. cur = [t \in Callers |-> 0] /\ dup_req = 0 /\ window_bound = 0
    BY  DEF Init
  <2> QED BY <1>2, <2>1, SMT DEF CallersFit
<1> QED BY <1>3, <1>4, <1>5, <1>6 DEF IInv

(* All steps.                                                              *)
LEMMA Inductive == IInv /\ [Next]_vars => IInv'
<1> SUFFICES ASSUME IInv, [Next]_vars PROVE IInv'
  OBVIOUS
<1>1. CASE UNCHANGED vars
  <2>0. UNCHANGED <<xid, xid_rep_window, calls, cur, destroy_wait, cancel,
                    dup_req, xid_rep_done, resends, requests, replies,
                    reply_window, window_bound, running, restarts, execs, finished>>
    BY <1>1 DEF vars, clientVars, serverVars
  <2>1. TypeOK'
    BY <2>0 DEF IInv, TypeOK
  <2>2. CallersFit'
    BY <2>0 DEF IInv, CallersFit
  <2>3. ASSUME NEW x \in Xids PROVE CallFits(x)' /\ Pending(x)'
    <3>1. Remembered(x)' = Remembered(x)
      BY <2>0 DEF Remembered
    <3>2. CallFits(x) /\ Pending(x)
      BY DEF IInv
    <3> QED BY <2>0, <3>1, <3>2 DEF CallFits, Pending, Unused
  <2> QED BY <2>0, <2>1, <2>2, <2>3 DEF IInv
<1>2. CASE \E t \in Callers : Call(t) \/ Retransmit(t) \/ Return(t) \/ Timeout(t)
  BY <1>2, CallStep, RetransmitStep, ReturnStep
<1>3. CASE \E x \in Xids, kind \in Kinds : got_pdu(x, kind)
  BY <1>3, ReplyStep
<1>4. CASE Cancel \/ CancelReturns
  BY <1>4, CancelStep
<1>5. CASE \E x \in Xids : DispatchOld(x) \/ DispatchNew(x) \/ HandlerReturns(x)
  BY <1>5, DispatchOldStep, DispatchNewStep, HandlerReturnsStep
<1>6. CASE Restart
  BY <1>6, RestartStep
<1> QED BY <1>1, <1>2, <1>3, <1>4, <1>5, <1>6 DEF Next

(* The client's window is exact, a request that may still arrive has not   *)
(* been told forgotten while its call waits, and each xid is in one call,  *)
(* whatever call1(), got_pdu() and dispatch() do in whatever order.        *)
THEOREM Invariant == Spec => []IInv
BY Initially, Inductive, PTL DEF Spec

(* Every variable keeps its type, the window of finished xids among them,  *)
(* however many calls are outstanding.                                     *)
THEOREM TypeCorrect == Spec => []TypeOK
<1>1. IInv => TypeOK
  BY DEF IInv
<1> QED BY <1>1, Invariant, PTL

(* While call1() waits for its result, dispatch() runs the request at most *)
(* once, whatever is sent again, lost or late, and whatever other calls    *)
(* have told the server to forget.                                         *)
THEOREM RunsOnce == Spec => []LiveCallRunsOnce
<1>1. IInv => LiveCallRunsOnce
  BY  DEF IInv, Pending, LiveCallRunsOnce
<1> QED BY <1>1, Invariant, PTL

(* call1() never returns atmostonce_failure, and returns ok only for a     *)
(* request that was run.                                                   *)
THEOREM ResultRight == Spec => []ResultIsRight
<1>1. IInv => ResultIsRight
  BY  DEF IInv, CallFits, ResultIsRight
<1> QED BY <1>1, Invariant, PTL

(* update_xid_rep(), called twice for the same xid or once, in any order,  *)
(* keeps exactly the finished xids.                                        *)
THEOREM Exactness == Spec => []WindowIsExact
<1>1. IInv => WindowIsExact
  <2> SUFFICES ASSUME IInv PROVE WindowIsExact
    OBVIOUS
  <2> DEFINE w == xid_rep_window
             front == w[1]
  <2>1. /\ w \in Seq(0..MaxXid) /\ w # <<>> /\ Sorted(w) /\ Exact(w, finished)
        /\ \A i \in 2..Len(w) : w[i] >= 1
        /\ finished \subseteq Xids
    BY  DEF IInv, Window, TypeOK
  <2>2. MaxXid \in Nat /\ front \in 0..MaxXid /\ Head(w) = front
    BY Facts
  <2>3. Len(w) \in Nat \ {0} /\ \A i \in 1..Len(w) : w[i] \in 0..MaxXid
    BY <2>1, <2>2, SMT
  <2> HIDE DEF w
  <2>4. \A x \in 1..front : x \in finished
    BY <2>1, <2>2, SMT DEF Exact, Xids
  <2>5. front + 1 \notin finished
    <3>1. ~(front + 1 <= front) /\ ~In(w, front + 1)
      BY <2>1, <2>2, SMT DEF Exact
    <3> QED BY <2>1, <3>1 DEF Exact
  <2>6. ASSUME NEW x \in finished
        PROVE x \in 1..front \/ \E i \in 2..Len(w) : w[i] = x
    <3>1. x \in Xids /\ (x <= front \/ In(w, x))
      BY <2>1 DEF Exact
    <3>2. x <= front => x \in 1..front
      BY <2>2, <3>1, SMT DEF Xids
    <3>3. ASSUME In(w, x) PROVE x <= front \/ \E i \in 2..Len(w) : w[i] = x
      <4>1. PICK i \in 1..Len(w) : w[i] = x
        BY <3>3 DEF In
      <4>2. i = 1 \/ i \in 2..Len(w)
        BY <2>3, SMT
      <4>3. front <= front
        BY <2>2, SMT
      <4> QED BY <4>1, <4>2, <4>3
    <3> QED BY <3>1, <3>2, <3>3
  <2>7. ASSUME NEW i \in 2..Len(w) PROVE w[i] \in finished
    <3>1. i \in 1..Len(w) /\ w[i] >= 1
      BY <2>1, <2>3, SMT
    <3>2. w[i] \in Xids
      BY <2>3, <3>1, SMT DEF Xids
    <3> QED BY <2>1, <3>1, <3>2 DEF Exact, In
  <2>8. finished = (1..front) \cup {w[i] : i \in 2..Len(w)}
    BY <2>4, <2>6, <2>7
  <2> QED BY <2>2, <2>4, <2>5, <2>8 DEF WindowIsExact, w
<1> QED BY <1>1, Invariant, PTL
=============================================================================
