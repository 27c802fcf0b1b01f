-------------------------- MODULE YfsClientProofs --------------------------
(***************************************************************************)
(* Proofs about YfsClient, for any clients, inums, plain names and number  *)
(* of requests: every entry has its extent, and the words of the           *)
(* directories implement the maps of Namespace.                            *)
(***************************************************************************)
EXTENDS YfsClient, WellFoundedInduction, TLAPS

Words == Inums \cup {n[1] : n \in Names}

NewName(w, x) == \A p \in NamePlaces(w) : w[p] # x
NamesDiffer(w) == \A p, q \in NamePlaces(w) : w[p] = w[q] => p = q

(* The words of a directory: inums and names in turn, no name twice.       *)
WordsFit(w) ==
  /\ w \in Seq(Words) /\ Len(w) % 2 = 0
  /\ \A p \in NamePlaces(w) : <<w[p]>> \in Names
  /\ NamesDiffer(w)

(* In store s there is an entry at place p of directory d.                 *)
Entry(s, d, p) == d \in Dirs /\ s[d] # NoEntry /\ p \in NamePlaces(s[d])

(* Entries exist, and no inum has two.                                     *)
EntriesFit(s) ==
  \A d, p : Entry(s, d, p) => s[d][p - 1] \in Inums \ {Root} /\ s[s[d][p - 1]] # NoEntry

OneEntry(s) ==
  \A d, e, p, q : Entry(s, d, p) /\ Entry(s, e, q) /\ s[d][p - 1] = s[e][q - 1]
                    => d = e /\ p = q

StoreFits(s) ==
  /\ s \in [Inums -> Seq(Words) \cup {NoEntry, Data}]
  /\ \A i \in Files : s[i] \in {NoEntry, <<>>, Data}
  /\ s[Root] # NoEntry
  /\ \A d \in Dirs : s[d] # NoEntry => WordsFit(s[d])
  /\ EntriesFit(s) /\ OneEntry(s)

(* No extent goes, and only the inums of S get one.                        *)
Grows(s, t, S) ==
  /\ \A i \in Inums : s[i] # NoEntry => t[i] # NoEntry
  /\ \A i \in Inums : t[i] # NoEntry => s[i] # NoEntry \/ i \in S

(* The place in w of what is at name place q once the entry at p is gone.  *)
From(p, q) == IF q < p THEN q ELSE q + 2

(* unlink's loop drops the words at p - 1 and p of w alone; v is left.     *)
DropsEntry(w, p) ==
  \A k \in 1..Len(w) : Dropped(w, <<w[p]>>, w[k]) <=> k = p - 1 \/ k = p

LeftBy(v, w, p) ==
  /\ v \in Seq(Words) /\ Len(v) % 2 = 0
  /\ \A q \in NamePlaces(v) : /\ From(p, q) \in NamePlaces(w) \ {p}
                              /\ v[q] = w[From(p, q)] /\ v[q - 1] = w[From(p, q) - 1]
  /\ \A q, r \in NamePlaces(v) : From(p, q) = From(p, r) => q = r
  /\ \A r \in NamePlaces(w) \ {p} : \E q \in NamePlaces(v) : From(p, q) = r

(* The steps of the store from s to t: a file is written, resized or       *)
(* emptied; directory d gets an entry for a new inum i; d loses the entry  *)
(* at place p.                                                             *)
WritesAt(s, t, f, x) ==
  f \in Files /\ x \in {<<>>, Data} /\ s[f] # NoEntry /\ t = [s EXCEPT ![f] = x]

EntersAt(s, t, d, x, i) ==
  /\ d \in Dirs /\ s[d] # NoEntry /\ x \in Words /\ <<x>> \in Names
  /\ i \in Inums /\ s[i] = NoEntry /\ NewName(s[d], x)
  /\ t = [s EXCEPT ![i] = <<>>, ![d] = AddEntry(s[d], <<x>>, i)]

RemovesAt(s, t, d, p) ==
  /\ d \in Dirs /\ s[d] # NoEntry /\ p \in NamePlaces(s[d])
  /\ t = [s EXCEPT ![d] = RemoveEntry(s[d], <<s[d][p]>>)]

(* The other extents stay as they are.                                     *)
AfterEnter(s, t, d, x, i) ==
  /\ d # i /\ i # Root /\ WordsFit(s[d])
  /\ t[d] = AddEntry(s[d], <<x>>, i) /\ t[i] = <<>>
  /\ \A j \in Inums : j # d /\ j # i => t[j] = s[j]

AfterRemove(s, t, d, p) ==
  /\ LeftBy(t[d], s[d], p)
  /\ \A j \in Inums : j # d => t[j] = s[j]

(* A map with a name more, or one less.                                    *)
AddName(f, n, i) == [m \in DOMAIN f \cup {n} |-> IF m = n THEN i ELSE f[m]]
DropName(f, n) == [m \in DOMAIN f \ {n} |-> f[m]]

(* An inum has an extent only if generate_inum has given it out, once.     *)
InumsFit(s, sets) ==
  /\ \A c \in Clients : Root \notin sets[c]
  /\ \A c, d \in Clients : sets[c] \cap sets[d] # {} => c = d
  /\ \A i \in Inums : s[i] # NoEntry => i = Root \/ \E c \in Clients : i \in sets[c]

(* A request r, with n replies made, of a client that has been given the   *)
(* inums of S: its inum exists, the one for a new entry is not used yet,   *)
(* and no reply was made before the last step but an error of mkdir's or   *)
(* lookup's.                                                               *)
Fresh(s, S, i) == i \in S /\ s[i] = NoEntry

ReqFits(s, S, r, n) ==
  r # None =>
    /\ s[r.ino] # NoEntry
    /\ r.st # "attr" => n = 0
    /\ r.st = "attr" => r.new \in Inums /\ n \in {0, 1} /\ (n = 0 => s[r.new] # NoEntry)
    /\ r.op \in TwoLocks => r.ino \in Dirs /\ r.name \in Names
    /\ r.op \in {"setattr", "read", "write"} => r.ino \in Files
    /\ r.st \in {"call", "second"} /\ r.op = "create" => r.new \in Files /\ Fresh(s, S, r.new)
    /\ r.st \in {"call", "second"} /\ r.op = "mkdir" => r.new \in Dirs /\ Fresh(s, S, r.new)
    /\ r.st = "second" /\ r.op = "lookup" => r.new \in Inums
    /\ r.st = "second" /\ r.op = "unlink" => r.new \in Files /\ s[r.new] # NoEntry

ClientFits(c) ==
  /\ ReqFits(store, inum_set[c], req[c], replies[c])
  /\ \A i \in known[c] : store[i] # NoEntry

(* The inductive invariant.                                                *)
IInv ==
  /\ PlainNames /\ TypeOK /\ StoreFits(store) /\ InumsFit(store, inum_set)
  /\ \A c \in Clients : ClientFits(c)
-----------------------------------------------------------------------------
(* Every other place of the words is a name's.                             *)
LEMMA Parity ==
  /\ 0 % 2 = 0
  /\ \A i \in Nat : /\ i % 2 # 0 <=> (i + 1) % 2 = 0
                    /\ (i + 2) % 2 = i % 2
                    /\ i % 2 = 0 /\ i # 0 => i >= 2
OBVIOUS

(* The constants.                                                          *)
LEMMA Consts ==
  /\ Root \in Dirs /\ Dirs \cap Files = {} /\ MaxRequests \in Nat
  /\ Dirs \subseteq Inums /\ Files \subseteq Inums /\ Root \in Inums
  /\ NoEntry # Data /\ NoEntry \notin Seq(Words) /\ <<>> \in Seq(Words)
  /\ NoEntry # <<>>
<1>1. <<>> \in Seq(Words)
  OBVIOUS
<1>2. NoEntry \notin Seq(Words)
  BY YfsAssumption, Zenon DEF Words, Inums
<1> QED BY <1>1, <1>2, YfsAssumption, Zenon DEF Inums

(* A name place, its parity aside, is a place with one before it.          *)
LEMMA PlaceIs ==
  ASSUME NEW w, Len(w) \in Nat, NEW p
  PROVE /\ p \in NamePlaces(w) <=> p \in 2..Len(w) /\ p % 2 = 0
        /\ p \in NamePlaces(w) => /\ p \in 1..Len(w) /\ p - 1 \in 1..Len(w)
                                  /\ p \in Nat /\ p >= 2 /\ p <= Len(w)
BY DEF NamePlaces

(* One more entry at the end.                                              *)
LEMMA AddIs ==
  ASSUME NEW w \in Seq(Words), Len(w) % 2 = 0, NEW x \in Words, NEW i \in Words
  PROVE LET v == AddEntry(w, <<x>>, i)
            n == Len(w) + 2
        IN  /\ v \in Seq(Words) /\ Len(v) = n /\ n % 2 = 0 /\ n \in NamePlaces(v)
            /\ v[n] = x /\ v[n - 1] = i /\ n \notin NamePlaces(w)
            /\ \A p \in NamePlaces(v) : p = n \/ p \in NamePlaces(w)
            /\ \A p \in NamePlaces(w) : /\ p \in NamePlaces(v)
                                        /\ v[p] = w[p] /\ v[p - 1] = w[p - 1]
<1> DEFINE v == AddEntry(w, <<x>>, i)
           n == Len(w) + 2
<1>1. v \in Seq(Words) /\ Len(v) = n /\ Len(w) \in Nat
  BY DEF AddEntry
<1>2. /\ \A k \in 1..Len(w) : v[k] = w[k]
      /\ v[Len(w) + 1] = i /\ v[Len(w) + 2] = x
  BY DEF AddEntry
<1> HIDE DEF v
<1>3. n % 2 = 0 /\ n - 1 = Len(w) + 1
  BY <1>1, Parity
<1>4. ASSUME NEW p \in NamePlaces(v) PROVE p = n \/ p \in NamePlaces(w)
  <2>1. p \in 2..n /\ p % 2 = 0 /\ (Len(w) + 1) % 2 # 0
    BY <1>1, PlaceIs, Parity
  <2>2. p # Len(w) + 1
    BY <2>1
  <2>3. p = n \/ p \in 2..Len(w)
    BY <1>1, <2>1, <2>2
  <2> QED BY <1>1, <2>1, <2>3, PlaceIs
<1>5. ASSUME NEW p \in NamePlaces(w)
      PROVE p \in NamePlaces(v) /\ v[p] = w[p] /\ v[p - 1] = w[p - 1]
  <2>1. p \in 2..Len(w) /\ p % 2 = 0 /\ p \in 1..Len(w) /\ p - 1 \in 1..Len(w)
    BY <1>1, PlaceIs
  <2>2. p \in 2..n
    BY <1>1, <2>1
  <2> QED BY <1>1, <1>2, <2>1, <2>2, PlaceIs
<1>6. n \in NamePlaces(v) /\ n \notin NamePlaces(w)
  <2>1. n \in 2..n /\ n \notin 2..Len(w)
    BY <1>1
  <2> QED BY <1>1, <1>3, <2>1, PlaceIs
<1> QED BY <1>1, <1>2, <1>3, <1>4, <1>5, <1>6 DEF v

(* Every set of naturals has a least element.                              *)
LEMMA Least ==
  ASSUME NEW T, T \subseteq Nat, T # {}
  PROVE \E m \in T : \A n \in T : m <= n
<1>1. PICK m \in T : \A n \in T : <<n, m>> \notin OpToRel(<, Nat)
  BY WFMin, NatLessThanWellFounded, Zenon
<1>2. \A n \in T : ~(n < m)
  BY <1>1, Zenon DEF OpToRel
<1> QED BY <1>2

(* What unlink's loop keeps of i words is got from what it keeps of i - 1. *)
LEMMA KeptIs ==
  ASSUME NEW w, NEW name, Len(w) \in Nat
  PROVE Kept(w, name) = [i \in 0..Len(w) |->
                           IF i = 0 THEN <<>>
                           ELSE IF Dropped(w, name, w[i]) THEN Kept(w, name)[i - 1]
                           ELSE Append(Kept(w, name)[i - 1], w[i])]
<1> DEFINE Def(n, k) == [i \in 0..n |-> IF i = 0 THEN <<>>
                                        ELSE IF Dropped(w, name, w[i]) THEN k[i - 1]
                                        ELSE Append(k[i - 1], w[i])]
           T == {n \in Nat : ~\E k : k = Def(n, k)}
<1>1. T = {}
  <2> SUFFICES ASSUME T # {} PROVE FALSE
    BY Zenon
  <2>1. PICK m \in T : \A n \in T : m <= n
    BY Least, Zenon
  <2>0. m \in Nat /\ ~\E k : k = Def(m, k)
    OBVIOUS
  <2>2. m # 0
    <3>1. [i \in 0..0 |-> <<>>] = Def(0, [i \in 0..0 |-> <<>>])
      OBVIOUS
    <3> QED BY <2>0, <3>1, Zenon
  <2>3. m - 1 \in Nat /\ m - 1 \notin T
    <3> HIDE DEF T
    <3>1. m - 1 \in Nat
      BY <2>0, <2>2
    <3>2. m - 1 \in T => m <= m - 1
      BY <2>1
    <3> QED BY <2>0, <3>1, <3>2
  <2>4. PICK k : k = Def(m - 1, k)
    BY <2>3, Zenon
  <2> DEFINE g == Def(m, k)
  <2>5. \A i \in 0..(m - 1) : i \in 0..m /\ g[i] = k[i]
    <3>1. \A i \in 0..(m - 1) : i \in 0..m
      BY <2>0
    <3>2. \A i \in 0..(m - 1) : k[i] = Def(m - 1, k)[i]
      BY <2>4, Zenon
    <3> QED BY <3>1, <3>2, Zenon
  <2>6. \A i \in 0..m : i # 0 => g[i - 1] = k[i - 1]
    <3>1. \A i \in 0..m : i # 0 => i - 1 \in 0..(m - 1)
      BY <2>0
    <3> QED BY <2>5, <3>1, Zenon
  <2>7. g = Def(m, g)
    BY <2>6, Zenon
  <2> QED BY <2>0, <2>7, Zenon
<1>2. \E k : k = Def(Len(w), k)
  BY <1>1, Zenon
<1>3. Kept(w, name) = CHOOSE k : k = Def(Len(w), k)
  BY Zenon DEF Kept
<1> QED BY <1>2, <1>3, Zenon

(* If exactly the words at p - 1 and p are to go, the others move up.      *)
LEMMA RemoveIs ==
  ASSUME NEW w \in Seq(Words), NEW name, NEW p \in NamePlaces(w),
         \A k \in 1..Len(w) : Dropped(w, name, w[k]) <=> k = p - 1 \/ k = p
  PROVE LET v == RemoveEntry(w, name)
        IN  /\ v \in Seq(Words) /\ Len(v) = Len(w) - 2
            /\ \A k \in 1..Len(v) : v[k] = w[IF k < p - 1 THEN k ELSE k + 2]
<1> DEFINE n == Len(w)
           K == Kept(w, name)
           Size(i) == IF i < p - 1 THEN i ELSE IF i = p - 1 THEN i - 1 ELSE i - 2
           J(i) == /\ K[i] \in Seq(Words) /\ Len(K[i]) = Size(i)
                   /\ \A k \in 1..Len(K[i]) : K[i][k] = w[IF k < p - 1 THEN k ELSE k + 2]
           T == {i \in 0..n : ~J(i)}
<1>0. n \in Nat /\ p \in 2..n
  BY PlaceIs
<1>1. /\ K[0] = <<>>
      /\ \A i \in 0..n : i # 0 => K[i] = IF Dropped(w, name, w[i]) THEN K[i - 1]
                                         ELSE Append(K[i - 1], w[i])
  <2>1. \A i \in 0..n : K[i] = IF i = 0 THEN <<>>
                               ELSE IF Dropped(w, name, w[i]) THEN K[i - 1]
                               ELSE Append(K[i - 1], w[i])
    BY <1>0, KeptIs, ZenonT(40)
  <2>2. 0 \in 0..n
    BY <1>0
  <2> QED BY <2>1, <2>2, Zenon
<1> HIDE DEF n, K
<1>2. J(0)
  BY <1>0, <1>1
<1>3. ASSUME NEW i \in 1..n, J(i - 1) PROVE J(i)
  <2>0. i \in 0..n /\ i # 0 /\ i - 1 \in Nat /\ i \in Nat
    BY <1>0
  <2>1. CASE i = p - 1 \/ i = p
    <3>1. K[i] = K[i - 1]
      BY <1>1, <2>0, <2>1 DEF n
    <3>2. Size(i) = Size(i - 1)
      BY <1>0, <2>0, <2>1
    <3> QED BY <1>3, <3>1, <3>2, Zenon
  <2>2. CASE ~(i = p - 1 \/ i = p)
    <3>1. K[i] = Append(K[i - 1], w[i])
      BY <1>1, <2>0, <2>2, Zenon DEF n
    <3>2. Size(i) = Size(i - 1) + 1 /\ Size(i - 1) \in Nat
      BY <1>0, <2>0, <2>2
    <3>3. i = IF Size(i) < p - 1 THEN Size(i) ELSE Size(i) + 2
      BY <1>0, <2>0, <2>2
    <3>4. w[i] \in Words
      BY DEF n
    <3> DEFINE a == K[i - 1]
    <3>5. a \in Seq(Words) /\ Len(a) = Size(i - 1)
      BY <1>3
    <3>6. \A k \in 1..Len(a) : a[k] = w[IF k < p - 1 THEN k ELSE k + 2]
      BY <1>3
    <3> HIDE DEF a, Size
    <3>7. /\ Append(a, w[i]) \in Seq(Words) /\ Len(Append(a, w[i])) = Size(i)
          /\ \A k \in 1..Len(a) : Append(a, w[i])[k] = a[k]
          /\ Append(a, w[i])[Size(i)] = w[i]
      BY <3>2, <3>4, <3>5
    <3>8. \A k \in 1..Size(i) : k = Size(i) \/ k \in 1..Len(a)
      BY <3>2, <3>5
    <3> QED BY <3>1, <3>3, <3>6, <3>7, <3>8 DEF a
  <2> QED BY <2>1, <2>2
<1>4. T = {}
  <2> SUFFICES ASSUME T # {} PROVE FALSE
    OBVIOUS
  <2>1. T \subseteq Nat
    BY <1>0
  <2>2. PICK m \in T : \A k \in T : m <= k
    BY <2>1, Least, Zenon
  <2>3. m \in 0..n /\ ~J(m)
    OBVIOUS
  <2> HIDE DEF J
  <2>4. m # 0
    BY <1>2, <2>3
  <2>5. m \in 1..n /\ m - 1 \in 0..n /\ ~(m <= m - 1)
    BY <1>0, <2>3, <2>4
  <2>6. J(m - 1)
    BY <2>2, <2>5
  <2> QED BY <1>3, <2>3, <2>5, <2>6
<1>5. /\ K[n] \in Seq(Words) /\ Len(K[n]) = n - 2
      /\ \A k \in 1..Len(K[n]) : K[n][k] = w[IF k < p - 1 THEN k ELSE k + 2]
  <2>1. n \in 0..n /\ Size(n) = n - 2
    BY <1>0
  <2>2. J(n)
    BY <1>4, <2>1, Zenon
  <2> QED BY <2>1, <2>2
<1> QED BY <1>5, Zenon DEF RemoveEntry, n, K

(* The entries left are those of the other places, in their order.         *)
LEMMA RemovePlaces ==
  ASSUME NEW w \in Seq(Words), Len(w) % 2 = 0, NEW p \in NamePlaces(w), DropsEntry(w, p)
  PROVE LeftBy(RemoveEntry(w, <<w[p]>>), w, p)
<1> DEFINE v == RemoveEntry(w, <<w[p]>>)
           n == Len(w)
<1>1. /\ v \in Seq(Words) /\ Len(v) = n - 2
      /\ \A k \in 1..Len(v) : v[k] = w[IF k < p - 1 THEN k ELSE k + 2]
  BY RemoveIs, Zenon DEF DropsEntry
<1>2. n \in Nat /\ p \in 2..n /\ p % 2 = 0
  BY PlaceIs
<1>3. Len(v) % 2 = 0 /\ Len(v) \in Nat
  <2>1. n - 2 \in Nat /\ (n - 2) + 2 = n
    BY <1>2
  <2> QED BY <1>1, <2>1, Parity, Zenon
<1> HIDE DEF v, n
<1>4. ASSUME NEW q \in NamePlaces(v)
      PROVE /\ From(p, q) \in NamePlaces(w) \ {p}
            /\ v[q] = w[From(p, q)] /\ v[q - 1] = w[From(p, q) - 1]
  <2>1. q \in 2..Len(v) /\ q % 2 = 0 /\ q \in 1..Len(v) /\ q - 1 \in 1..Len(v)
    BY <1>3, PlaceIs
  <2>2. (q + 2) % 2 = 0 /\ q # p - 1
    <3>1. q \in Nat /\ p - 1 \in Nat /\ (p - 1) + 1 = p
      BY <1>2, <2>1
    <3> QED BY <1>2, <2>1, <3>1, Parity
  <2>3. CASE q < p
    <3>1. From(p, q) = q /\ q < p - 1 /\ q - 1 < p - 1 /\ q \in 2..n /\ q # p
      BY <1>1, <1>2, <2>1, <2>2, <2>3 DEF From
    <3>2. v[q] = w[q] /\ v[q - 1] = w[q - 1]
      BY <1>1, <2>1, <3>1
    <3> QED BY <1>2, <2>1, <3>1, <3>2, PlaceIs, Zenon DEF n
  <2>4. CASE ~(q < p)
    <3>1. /\ From(p, q) = q + 2 /\ ~(q < p - 1) /\ ~(q - 1 < p - 1) /\ q + 2 \in 2..n
          /\ q + 2 # p /\ (q - 1) + 2 = (q + 2) - 1
      BY <1>1, <1>2, <2>1, <2>4 DEF From
    <3>2. v[q] = w[q + 2] /\ v[q - 1] = w[(q + 2) - 1]
      BY <1>1, <2>1, <3>1, Zenon
    <3> QED BY <1>2, <2>2, <3>1, <3>2, PlaceIs, Zenon DEF n
  <2> QED BY <2>3, <2>4
<1>5. ASSUME NEW q \in NamePlaces(v), NEW r \in NamePlaces(v), From(p, q) = From(p, r)
      PROVE q = r
  <2>1. /\ q \in Nat /\ r \in Nat /\ p \in Nat /\ q % 2 = 0 /\ r % 2 = 0 /\ p % 2 = 0
    BY <1>2, <1>3, PlaceIs, SMTT(20)
  <2>2. ASSUME NEW x \in Nat, NEW y \in Nat, x < p, ~(y < p), x % 2 = 0
        PROVE x # y + 2
    BY <2>1, <2>2
  <2> QED BY <1>5, <2>1, <2>2 DEF From
<1>6. ASSUME NEW r \in NamePlaces(w), r # p
      PROVE \E q \in NamePlaces(v) : From(p, q) = r
  <2>1. r \in 2..n /\ r % 2 = 0 /\ r \in Nat
    BY <1>2, PlaceIs DEF n
  <2>2. CASE r < p
    <3>1. r \in 2..Len(v) /\ From(p, r) = r
      <4>1. r # p - 1
        <5>1. p - 1 \in Nat /\ (p - 1) + 1 = p
          BY <1>2
        <5> QED BY <1>2, <2>1, <5>1, Parity
      <4> QED BY <1>1, <1>2, <2>1, <2>2, <4>1 DEF From
    <3>2. r \in NamePlaces(v)
      BY <1>3, <2>1, <3>1, PlaceIs, Zenon
    <3> QED BY <3>1, <3>2
  <2>3. CASE ~(r < p)
    <3>0. r # p + 1
      BY <1>2, <2>1, Parity
    <3>1. r - 2 \in 2..Len(v) /\ From(p, r - 2) = r /\ r - 2 \in Nat /\ (r - 2) + 2 = r
      BY <1>1, <1>2, <1>6, <2>1, <2>3, <3>0 DEF From
    <3>2. (r - 2) % 2 = 0
      BY <2>1, <3>1, Parity
    <3>3. r - 2 \in NamePlaces(v)
      BY <1>3, <3>1, <3>2, PlaceIs
    <3> QED BY <3>1, <3>3
  <2> QED BY <2>2, <2>3
<1> QED BY <1>1, <1>3, <1>4, <1>5, <1>6, Zenon DEF LeftBy, v

-----------------------------------------------------------------------------
(* Directories as maps.                                                    *)

(* The only entry of a name is found.                                      *)
LEMMA InumIs ==
  ASSUME NEW w, NamesDiffer(w), NEW p \in NamePlaces(w)
  PROVE /\ Places(w, <<w[p]>>) = {p} /\ InumOf(w, <<w[p]>>) = w[p - 1]
        /\ <<w[p]>> \in DOMAIN MapOf(w) /\ MapOf(w)[<<w[p]>>] = w[p - 1]
<1>1. ASSUME NEW i \in NamePlaces(w) PROVE <<w[i]>> = <<w[p]>> <=> i = p
  <2>1. <<w[i]>> = <<w[p]>> => w[i] = w[p]
    OBVIOUS
  <2> QED BY <2>1, Zenon DEF NamesDiffer
<1>2. Places(w, <<w[p]>>) = {p}
  BY <1>1, Zenon DEF Places
<1>3. p <= p
  BY DEF NamePlaces
<1>4. FirstPlace(w, <<w[p]>>) = p
  BY <1>2, <1>3 DEF FirstPlace
<1>5. InumOf(w, <<w[p]>>) = w[p - 1]
  BY <1>4, Zenon DEF InumOf
<1>6. <<w[p]>> \in {<<w[q]>> : q \in NamePlaces(w)}
  BY Zenon
<1> QED BY <1>2, <1>5, <1>6, Zenon DEF MapOf

-----------------------------------------------------------------------------
(* The store.                                                              *)

(* The empty directory has no entries.                                     *)
LEMMA EmptyFits == NamePlaces(<<>>) = {} /\ WordsFit(<<>>)
<1>1. NamePlaces(<<>>) = {}
  BY DEF NamePlaces
<1>2. <<>> \in Seq(Words) /\ Len(<<>>) % 2 = 0
  BY Parity
<1> QED BY <1>1, <1>2, Zenon DEF WordsFit, NamesDiffer

(* A new name.                                                             *)
LEMMA AddFits ==
  ASSUME NEW w, WordsFit(w), NEW x \in Words, <<x>> \in Names, NEW i \in Words,
         NewName(w, x)
  PROVE WordsFit(AddEntry(w, <<x>>, i))
<1> DEFINE v == AddEntry(w, <<x>>, i)
           n == Len(w) + 2
<1>1. w \in Seq(Words) /\ Len(w) % 2 = 0
  BY Zenon DEF WordsFit
<1>2. /\ v \in Seq(Words) /\ Len(v) = n /\ n % 2 = 0 /\ n \in NamePlaces(v)
      /\ v[n] = x /\ v[n - 1] = i /\ n \notin NamePlaces(w)
      /\ \A p \in NamePlaces(v) : p = n \/ p \in NamePlaces(w)
      /\ \A p \in NamePlaces(w) : /\ p \in NamePlaces(v)
                                  /\ v[p] = w[p] /\ v[p - 1] = w[p - 1]
  BY <1>1, AddIs, Zenon
<1> HIDE DEF v, n
<1>3. ASSUME NEW p \in NamePlaces(v) PROVE <<v[p]>> \in Names
  BY <1>2, Zenon DEF WordsFit
<1>4. ASSUME NEW p \in NamePlaces(v), NEW q \in NamePlaces(v), v[p] = v[q] PROVE p = q
  BY <1>2, <1>4, ZenonT(40) DEF WordsFit, NamesDiffer, NewName
<1>5. Len(v) % 2 = 0
  BY <1>2, Zenon
<1> QED BY <1>2, <1>3, <1>4, <1>5, Zenon DEF WordsFit, NamesDiffer, v

(* A file is written, resized or emptied.                                  *)
LEMMA FileStep ==
  ASSUME NEW s, NEW t, NEW f, NEW x, StoreFits(s), WritesAt(s, t, f, x)
  PROVE /\ StoreFits(t) /\ Grows(s, t, {})
        /\ \A d \in Dirs : t[d] = s[d]
<1>a. f \in Files /\ x \in {<<>>, Data} /\ s[f] # NoEntry /\ t = [s EXCEPT ![f] = x]
  BY Zenon DEF WritesAt
<1> USE <1>a
<1>0. s \in [Inums -> Seq(Words) \cup {NoEntry, Data}] /\ f \in Inums
      /\ x \in Seq(Words) \cup {Data} /\ x # NoEntry
  BY Consts, Zenon DEF StoreFits
<1>1. /\ t \in [Inums -> Seq(Words) \cup {NoEntry, Data}] /\ t[f] = x
      /\ \A i \in Inums : i # f => t[i] = s[i]
  BY <1>0
<1>2. \A d \in Dirs : d \in Inums /\ d # f
  BY Consts, Zenon
<1>3. \A d \in Dirs : t[d] = s[d]
  BY <1>1, <1>2, Zenon
<1>4. \A i \in Inums : t[i] # NoEntry <=> s[i] # NoEntry
  BY <1>0, <1>1, Zenon
<1>5. \A i \in Files : t[i] \in {NoEntry, <<>>, Data}
  <2>1. \A i \in Files : i \in Inums
    BY Consts, Zenon
  <2> QED BY <1>1, <2>1, Zenon DEF StoreFits
<1>6. ASSUME NEW d, NEW p PROVE Entry(t, d, p) => Entry(s, d, p) /\ t[d] = s[d]
  BY <1>3, Zenon DEF Entry
<1>7. t[Root] # NoEntry /\ \A d \in Dirs : t[d] # NoEntry => WordsFit(t[d])
  BY <1>3, Consts, Zenon DEF StoreFits
<1>8. ASSUME NEW d, NEW p, Entry(t, d, p)
      PROVE t[d][p - 1] \in Inums \ {Root} /\ t[t[d][p - 1]] # NoEntry
  <2>1. s[d][p - 1] \in Inums \ {Root} /\ s[s[d][p - 1]] # NoEntry
    BY <1>6, <1>8, Zenon DEF StoreFits, EntriesFit
  <2>2. t[d][p - 1] = s[d][p - 1]
    BY <1>6, <1>8, Zenon
  <2> QED BY <1>4, <2>1, <2>2
<1>9. ASSUME NEW d, NEW e, NEW p, NEW q, Entry(t, d, p), Entry(t, e, q),
             t[d][p - 1] = t[e][q - 1]
      PROVE d = e /\ p = q
  <2>1. Entry(s, d, p) /\ Entry(s, e, q) /\ s[d][p - 1] = s[e][q - 1]
    BY <1>6, <1>9, Zenon
  <2> QED BY <2>1, Zenon DEF StoreFits, OneEntry
<1>10. EntriesFit(t)
  BY <1>8, Zenon DEF EntriesFit
<1>11. OneEntry(t)
  BY <1>9, Zenon DEF OneEntry
<1>12. StoreFits(t)
  BY <1>1, <1>5, <1>7, <1>10, <1>11, Zenon DEF StoreFits
<1> QED BY <1>3, <1>4, <1>12, Zenon DEF Grows

(* create and mkdir: directory d gets an entry for i, which is new.        *)
LEMMA EnterStep ==
  ASSUME NEW s, NEW t, NEW d, NEW x, NEW i, StoreFits(s), EntersAt(s, t, d, x, i)
  PROVE StoreFits(t) /\ Grows(s, t, {i}) /\ AfterEnter(s, t, d, x, i)
<1>a. /\ d \in Dirs /\ s[d] # NoEntry /\ x \in Words /\ <<x>> \in Names
      /\ i \in Inums /\ s[i] = NoEntry /\ NewName(s[d], x)
      /\ t = [s EXCEPT ![i] = <<>>, ![d] = AddEntry(s[d], <<x>>, i)]
  BY Zenon DEF EntersAt
<1> USE <1>a
<1> DEFINE w == s[d]
           v == AddEntry(w, <<x>>, i)
           n == Len(w) + 2
<1>0. /\ s \in [Inums -> Seq(Words) \cup {NoEntry, Data}] /\ d \in Inums /\ d # i
      /\ i # Root /\ i \in Words /\ WordsFit(w) /\ w \in Seq(Words) /\ Len(w) % 2 = 0
  BY Consts, Zenon DEF StoreFits, Words, WordsFit
<1>1. /\ v \in Seq(Words) /\ Len(v) = n /\ n % 2 = 0 /\ n \in NamePlaces(v)
      /\ v[n] = x /\ v[n - 1] = i /\ n \notin NamePlaces(w)
      /\ \A p \in NamePlaces(v) : p = n \/ p \in NamePlaces(w)
      /\ \A p \in NamePlaces(w) : /\ p \in NamePlaces(v)
                                  /\ v[p] = w[p] /\ v[p - 1] = w[p - 1]
  BY <1>0, AddIs, Zenon
<1>2. WordsFit(v)
  BY <1>0, AddFits, Zenon
<1> HIDE DEF v, n
<1>3. t = [s EXCEPT ![i] = <<>>, ![d] = v]
  BY Zenon DEF v
<1>4. /\ t[d] = v /\ t[i] = <<>>
      /\ \A j \in Inums : j # d /\ j # i => t[j] = s[j]
      /\ t \in [Inums -> Seq(Words) \cup {NoEntry, Data}]
  <2> DEFINE R == Seq(Words) \cup {NoEntry, Data}
  <2>1. v \in R /\ <<>> \in R /\ s \in [Inums -> R]
    BY <1>0, <1>1, Consts, Zenon
  <2> HIDE DEF R
  <2>2. t \in [Inums -> R] /\ t[d] = v /\ t[i] = <<>>
    BY <1>0, <1>3, <2>1
  <2>3. \A j \in Inums : j # d /\ j # i => t[j] = s[j]
    BY <1>3, <2>1
  <2> QED BY <2>2, <2>3, Zenon DEF R
<1>5. \A j \in Inums : t[j] # NoEntry <=> s[j] # NoEntry \/ j = i
  BY <1>0, <1>1, <1>4, Consts, ZenonT(40)
<1>6. \A j \in Files : t[j] \in {NoEntry, <<>>, Data}
  <2>1. \A j \in Files : j \in Inums /\ j # d
    BY Consts, Zenon
  <2> QED BY <1>4, <2>1, Zenon DEF StoreFits
<1>7. ASSUME NEW e \in Dirs, t[e] # NoEntry PROVE WordsFit(t[e])
  <2>1. e \in Inums
    BY Consts, Zenon
  <2> QED BY <1>2, <1>4, <1>7, <2>1, EmptyFits, Zenon DEF StoreFits
(* An entry there is now is the new one, or was there before.              *)
<1>8. ASSUME NEW e, NEW p, Entry(t, e, p)
      PROVE \/ e = d /\ p = n /\ t[e][p - 1] = i
            \/ Entry(s, e, p) /\ t[e][p - 1] = s[e][p - 1]
  <2>0. e \in Inums /\ e \in Dirs /\ t[e] # NoEntry /\ p \in NamePlaces(t[e])
    BY <1>8, Consts, Zenon DEF Entry
  <2>1. CASE e = d
    BY <1>1, <1>4, <2>0, <2>1, ZenonT(40) DEF Entry
  <2>2. CASE e = i
    BY <1>4, <2>0, <2>2, EmptyFits, Zenon
  <2>3. CASE e # d /\ e # i
    <3>1. t[e] = s[e]
      BY <1>4, <2>0, <2>3, Zenon
    <3> QED BY <2>0, <3>1, Zenon DEF Entry
  <2> QED BY <2>1, <2>2, <2>3, Zenon
<1>9. ASSUME NEW e, NEW p, Entry(s, e, p)
      PROVE s[e][p - 1] \in Inums \ {Root} /\ t[s[e][p - 1]] # NoEntry /\ s[e][p - 1] # i
  <2>1. s[e][p - 1] \in Inums \ {Root} /\ s[s[e][p - 1]] # NoEntry
    BY <1>9, Zenon DEF StoreFits, EntriesFit
  <2> QED BY <1>5, <2>1, Zenon
<1>10. ASSUME NEW e, NEW p, Entry(t, e, p)
       PROVE t[e][p - 1] \in Inums \ {Root} /\ t[t[e][p - 1]] # NoEntry
  <2>1. CASE t[e][p - 1] = i
    BY <1>0, <1>5, <2>1
  <2>2. CASE Entry(s, e, p) /\ t[e][p - 1] = s[e][p - 1]
    BY <1>9, <2>2, Zenon
  <2> QED BY <1>8, <1>10, <2>1, <2>2, ZenonT(40)
<1>11. ASSUME NEW e, NEW f, NEW p, NEW q, Entry(t, e, p), Entry(t, f, q),
              t[e][p - 1] = t[f][q - 1]
       PROVE e = f /\ p = q
  <2>1. Entry(s, e, p) /\ Entry(s, f, q) /\ s[e][p - 1] = s[f][q - 1] => e = f /\ p = q
    BY Zenon DEF StoreFits, OneEntry
  <2>2. \/ e = d /\ p = n /\ t[e][p - 1] = i
        \/ Entry(s, e, p) /\ t[e][p - 1] = s[e][p - 1] /\ s[e][p - 1] # i
    BY <1>8, <1>9, <1>11, Zenon
  <2>3. \/ f = d /\ q = n /\ t[f][q - 1] = i
        \/ Entry(s, f, q) /\ t[f][q - 1] = s[f][q - 1] /\ s[f][q - 1] # i
    BY <1>8, <1>9, <1>11, Zenon
  <2> QED BY <1>11, <2>1, <2>2, <2>3, Zenon
<1>12. t[Root] # NoEntry
  BY <1>5, Consts, Zenon DEF StoreFits
<1>13. EntriesFit(t)
  BY <1>10, Zenon DEF EntriesFit
<1>14. OneEntry(t)
  BY <1>11, Zenon DEF OneEntry
<1>15. StoreFits(t)
  BY <1>4, <1>6, <1>7, <1>12, <1>13, <1>14, Zenon DEF StoreFits
<1>16. Grows(s, t, {i})
  BY <1>5, Zenon DEF Grows
<1>17. AfterEnter(s, t, d, x, i)
  BY <1>0, <1>4, Zenon DEF AfterEnter, v
<1> QED BY <1>15, <1>16, <1>17, Zenon

(* Of the words of a directory, the loop of unlink drops the entry's two:  *)
(* no other entry has its inum or its name, and no name is an inum's word. *)
LEMMA DropsOne ==
  ASSUME NEW s, StoreFits(s), PlainNames, NEW d \in Dirs, s[d] # NoEntry,
         NEW p \in NamePlaces(s[d])
  PROVE s[d] \in Seq(Words) /\ Len(s[d]) % 2 = 0 /\ DropsEntry(s[d], p)
<1> DEFINE w == s[d]
<1>1. /\ w \in Seq(Words) /\ Len(w) % 2 = 0 /\ NamesDiffer(w)
      /\ \A q \in NamePlaces(w) : <<w[q]>> \in Names
  BY Zenon DEF StoreFits, WordsFit
<1>2. \A q \in NamePlaces(w) : w[q] \notin Inums
  <2> TAKE q \in NamePlaces(w)
  <2>1. <<w[q]>> \in Names /\ <<w[q]>>[1] = w[q]
    BY <1>1
  <2> QED BY <2>1, Zenon DEF PlainNames, Inums
<1>3. \A q \in NamePlaces(w) : w[q - 1] \in Inums /\ (w[q - 1] = w[p - 1] => q = p)
  <2>1. \A q \in NamePlaces(w) : Entry(s, d, q)
    BY Zenon DEF Entry
  <2>2. \A q : Entry(s, d, q) => s[d][q - 1] \in Inums
    BY Zenon DEF StoreFits, EntriesFit
  <2>3. \A q : Entry(s, d, q) /\ Entry(s, d, p) /\ s[d][q - 1] = s[d][p - 1] => q = p
    BY Zenon DEF StoreFits, OneEntry
  <2> QED BY <2>1, <2>2, <2>3, Zenon
<1>4. InumOf(w, <<w[p]>>) = w[p - 1]
  BY <1>1, InumIs, Zenon
<1> HIDE DEF w
<1>5. Len(w) \in Nat /\ p \in 2..Len(w) /\ p % 2 = 0 /\ p \in NamePlaces(w)
  <2>1. Len(w) \in Nat
    BY <1>1
  <2> QED BY <2>1, PlaceIs DEF w
<1>6. ASSUME NEW k \in 1..Len(w) PROVE Dropped(w, <<w[p]>>, w[k]) <=> k = p - 1 \/ k = p
  <2>0. <<w[k]>> = <<w[p]>> <=> w[k] = w[p]
    OBVIOUS
  <2>1. CASE k % 2 = 0
    <3>1. k \in 2..Len(w) /\ k # p - 1
      <4>1. k \in Nat /\ p - 1 \in Nat /\ (p - 1) + 1 = p
        BY <1>5
      <4>2. k # 1
        BY <2>1
      <4>3. k # p - 1
        BY <1>5, <2>1, <4>1, Parity
      <4> QED BY <1>5, <4>2, <4>3
    <3>2. k \in NamePlaces(w)
      BY <1>5, <2>1, <3>1, PlaceIs
    <3>3. w[k] # w[p - 1]
      BY <1>2, <1>3, <1>5, <3>2, Zenon
    <3>4. w[k] = w[p] <=> k = p
      BY <1>1, <1>5, <3>2, Zenon DEF NamesDiffer
    <3> QED BY <1>4, <2>0, <3>1, <3>3, <3>4, Zenon DEF Dropped
  <2>2. CASE k % 2 # 0
    <3>1. k \in Nat /\ (k + 1) % 2 = 0 /\ k # Len(w) /\ (k + 1) - 1 = k
      BY <1>1, <2>2, Parity
    <3>2. k + 1 \in 2..Len(w) /\ (k = p - 1 <=> k + 1 = p) /\ k # p
      BY <1>5, <2>2, <3>1
    <3>3. k + 1 \in NamePlaces(w)
      BY <1>5, <3>1, <3>2, PlaceIs, Zenon
    <3>4. w[k] \in Inums /\ (w[k] = w[p - 1] => k + 1 = p)
      BY <1>3, <3>1, <3>3, Zenon
    <3>5. w[k] # w[p]
      BY <1>2, <1>5, <3>4, Zenon
    <3>6. k = p - 1 => w[k] = w[p - 1]
      BY Zenon
    <3> QED BY <1>4, <2>0, <3>2, <3>4, <3>5, <3>6, Zenon DEF Dropped
  <2> QED BY <2>1, <2>2
<1> QED BY <1>1, <1>6, Zenon DEF DropsEntry, w

(* An entry is removed from directory d.                                   *)
LEMMA RemoveStep ==
  ASSUME NEW s, NEW t, NEW d, NEW p, StoreFits(s), PlainNames, RemovesAt(s, t, d, p)
  PROVE StoreFits(t) /\ Grows(s, t, {}) /\ AfterRemove(s, t, d, p)
<1>a. /\ d \in Dirs /\ s[d] # NoEntry /\ p \in NamePlaces(s[d])
      /\ t = [s EXCEPT ![d] = RemoveEntry(s[d], <<s[d][p]>>)]
  BY Zenon DEF RemovesAt
<1> USE <1>a
<1> DEFINE w == s[d]
           v == RemoveEntry(w, <<w[p]>>)
<1>1. /\ s \in [Inums -> Seq(Words) \cup {NoEntry, Data}] /\ d \in Inums
      /\ NamesDiffer(w) /\ \A q \in NamePlaces(w) : <<w[q]>> \in Names
  <2>1. WordsFit(w)
    BY Zenon DEF StoreFits
  <2>2. s \in [Inums -> Seq(Words) \cup {NoEntry, Data}] /\ d \in Inums
    BY Consts, Zenon DEF StoreFits
  <2> HIDE DEF w
  <2> QED BY <2>1, <2>2, Zenon DEF WordsFit
<1>2. LeftBy(v, w, p)
  <2>1. w \in Seq(Words) /\ Len(w) % 2 = 0 /\ DropsEntry(w, p)
    BY DropsOne, Zenon
  <2> QED BY <2>1, RemovePlaces, Zenon
<1>3. /\ v \in Seq(Words) /\ Len(v) % 2 = 0
      /\ \A q \in NamePlaces(v) :
           /\ From(p, q) \in NamePlaces(w)
           /\ v[q] = w[From(p, q)] /\ v[q - 1] = w[From(p, q) - 1]
      /\ \A q, r \in NamePlaces(v) : From(p, q) = From(p, r) => q = r
  <2> HIDE DEF v, w
  <2> QED BY <1>2, Zenon DEF LeftBy
<1> HIDE DEF v
<1>4. t = [s EXCEPT ![d] = v]
  BY Zenon DEF v
<1>5. /\ t[d] = v /\ \A j \in Inums : j # d => t[j] = s[j]
      /\ t \in [Inums -> Seq(Words) \cup {NoEntry, Data}]
  <2> DEFINE R == Seq(Words) \cup {NoEntry, Data}
  <2>1. v \in R /\ s \in [Inums -> R]
    BY <1>1, <1>3, Zenon
  <2> HIDE DEF R
  <2> QED BY <1>1, <1>4, <2>1 DEF R
<1>6. \A j \in Inums : t[j] # NoEntry <=> s[j] # NoEntry
  BY <1>3, <1>5, Consts, Zenon
<1>7. \A j \in Files : t[j] \in {NoEntry, <<>>, Data}
  <2>1. \A j \in Files : j \in Inums /\ j # d
    BY Consts, Zenon
  <2> QED BY <1>5, <2>1, Zenon DEF StoreFits
<1>8. WordsFit(v)
  <2>1. \A q \in NamePlaces(v) : <<v[q]>> \in Names
    BY <1>1, <1>3, Zenon
  <2>2. NamesDiffer(v)
    <3> SUFFICES ASSUME NEW q \in NamePlaces(v), NEW r \in NamePlaces(v), v[q] = v[r]
                 PROVE q = r
      BY Zenon DEF NamesDiffer
    <3>1. From(p, q) = From(p, r)
      <4> HIDE DEF w
      <4>1. /\ From(p, q) \in NamePlaces(w) /\ From(p, r) \in NamePlaces(w)
            /\ w[From(p, q)] = w[From(p, r)]
        BY <1>3, Zenon
      <4> QED BY <1>1, <4>1, Zenon DEF NamesDiffer
    <3> QED BY <1>3, <3>1, Zenon
  <2> QED BY <1>3, <2>1, <2>2, Zenon DEF WordsFit
<1>9. ASSUME NEW e \in Dirs, t[e] # NoEntry PROVE WordsFit(t[e])
  <2>1. e \in Inums
    BY Consts, Zenon
  <2> QED BY <1>5, <1>8, <1>9, <2>1, Zenon DEF StoreFits
<1> DEFINE At(e, q) == IF e = d THEN From(p, q) ELSE q
<1>10. ASSUME NEW e, NEW q, Entry(t, e, q)
       PROVE Entry(s, e, At(e, q)) /\ t[e][q - 1] = s[e][At(e, q) - 1]
  <2>1. e \in Dirs /\ e \in Inums /\ t[e] # NoEntry /\ q \in NamePlaces(t[e])
    BY <1>10, Consts, Zenon DEF Entry
  <2>2. CASE e = d
    <3>1. q \in NamePlaces(v) /\ At(e, q) = From(p, q)
      BY <1>5, <2>1, <2>2, Zenon
    <3>2. From(p, q) \in NamePlaces(s[d]) /\ v[q - 1] = s[d][From(p, q) - 1]
      BY <1>3, <3>1, Zenon
    <3> QED BY <1>5, <2>2, <3>1, <3>2, Zenon DEF Entry
  <2>3. CASE e # d
    BY <1>5, <2>1, <2>3, Zenon DEF Entry
  <2> QED BY <2>2, <2>3
<1>11. EntriesFit(t)
  <2> SUFFICES ASSUME NEW e, NEW q, Entry(t, e, q)
               PROVE t[e][q - 1] \in Inums \ {Root} /\ t[t[e][q - 1]] # NoEntry
    BY Zenon DEF EntriesFit
  <2> DEFINE i == s[e][At(e, q) - 1]
  <2>1. i \in Inums \ {Root} /\ s[i] # NoEntry
    <3>1. Entry(s, e, At(e, q))
      BY <1>10, Zenon
    <3> HIDE DEF At
    <3> QED BY <3>1, Zenon DEF StoreFits, EntriesFit
  <2>2. t[e][q - 1] = i
    BY <1>10, Zenon
  <2> HIDE DEF i
  <2> QED BY <1>6, <2>1, <2>2, Zenon
<1>12. OneEntry(t)
  <2> SUFFICES ASSUME NEW e, NEW f, NEW q, NEW r, Entry(t, e, q), Entry(t, f, r),
                      t[e][q - 1] = t[f][r - 1]
               PROVE e = f /\ q = r
    BY Zenon DEF OneEntry
  <2>1. e = f /\ At(e, q) = At(f, r)
    <3>1. /\ Entry(s, e, At(e, q)) /\ Entry(s, f, At(f, r))
          /\ s[e][At(e, q) - 1] = s[f][At(f, r) - 1]
      BY <1>10, ZenonT(60)
    <3> HIDE DEF At
    <3> QED BY <3>1, Zenon DEF StoreFits, OneEntry
  <2>2. e = d => q \in NamePlaces(v) /\ r \in NamePlaces(v)
    BY <1>5, <2>1, Zenon DEF Entry
  <2> QED BY <1>3, <2>1, <2>2, Zenon
<1>13. t[Root] # NoEntry
  BY <1>6, Consts, Zenon DEF StoreFits
<1>14. StoreFits(t)
  BY <1>5, <1>7, <1>9, <1>11, <1>12, <1>13, Zenon DEF StoreFits
<1>15. Grows(s, t, {}) /\ AfterRemove(s, t, d, p)
  BY <1>2, <1>5, <1>6, Zenon DEF Grows, AfterRemove
<1> QED BY <1>14, <1>15, Zenon

(* The map of a directory's words, entry by entry.                         *)
LEMMA MapIs ==
  ASSUME NEW w
  PROVE /\ MapOf(w) = [m \in DOMAIN MapOf(w) |-> MapOf(w)[m]]
        /\ \A m : m \in DOMAIN MapOf(w) <=> \E p \in NamePlaces(w) : m = <<w[p]>>
BY Zenon DEF MapOf

(* A new name in the words is a new name in the map.                       *)
LEMMA MapAdd ==
  ASSUME NEW w, WordsFit(w), NEW x \in Words, <<x>> \in Names, NEW i \in Words,
         NewName(w, x)
  PROVE MapOf(AddEntry(w, <<x>>, i)) = AddName(MapOf(w), <<x>>, i)
<1> DEFINE v == AddEntry(w, <<x>>, i)
           n == Len(w) + 2
           D == DOMAIN MapOf(w) \cup {<<x>>}
<1>1. w \in Seq(Words) /\ Len(w) % 2 = 0 /\ NamesDiffer(w)
  BY Zenon DEF WordsFit
<1>2. /\ v \in Seq(Words) /\ Len(v) = n /\ n % 2 = 0 /\ n \in NamePlaces(v)
      /\ v[n] = x /\ v[n - 1] = i /\ n \notin NamePlaces(w)
      /\ \A p \in NamePlaces(v) : p = n \/ p \in NamePlaces(w)
      /\ \A p \in NamePlaces(w) : /\ p \in NamePlaces(v)
                                  /\ v[p] = w[p] /\ v[p - 1] = w[p - 1]
  BY <1>1, AddIs, Zenon
<1>3. NamesDiffer(v)
  BY AddFits, Zenon DEF WordsFit
<1> HIDE DEF v, n
<1>4. MapOf(v)[<<x>>] = i
  BY <1>2, <1>3, InumIs, Zenon
<1>5. \A p \in NamePlaces(w) : /\ <<w[p]>> # <<x>> /\ MapOf(w)[<<w[p]>>] = w[p - 1]
                               /\ MapOf(v)[<<w[p]>>] = w[p - 1]
  <2> TAKE p \in NamePlaces(w)
  <2>1. <<w[p]>> # <<x>>
    <3>1. w[p] # x
      BY Zenon DEF NewName
    <3> QED BY <3>1
  <2>2. MapOf(w)[<<w[p]>>] = w[p - 1]
    BY <1>1, InumIs, Zenon
  <2>3. MapOf(v)[<<v[p]>>] = v[p - 1] /\ v[p] = w[p] /\ v[p - 1] = w[p - 1]
    BY <1>2, <1>3, InumIs, Zenon
  <2> QED BY <2>1, <2>2, <2>3, Zenon
<1>6. DOMAIN MapOf(v) = D
  <2>1. ASSUME NEW m \in DOMAIN MapOf(v) PROVE m \in D
    <3>1. PICK p \in NamePlaces(v) : m = <<v[p]>>
      BY MapIs, Zenon
    <3>2. p = n => m = <<x>>
      BY <1>2, <3>1, Zenon
    <3>3. p \in NamePlaces(w) => m = <<w[p]>>
      BY <1>2, <3>1, Zenon
    <3>4. p \in NamePlaces(w) => m \in DOMAIN MapOf(w)
      BY <3>3, MapIs, Zenon
    <3> QED BY <1>2, <3>2, <3>4, Zenon
  <2>2. ASSUME NEW m \in DOMAIN MapOf(w) PROVE m \in DOMAIN MapOf(v)
    <3>1. PICK p \in NamePlaces(w) : m = <<w[p]>>
      BY MapIs, Zenon
    <3>2. p \in NamePlaces(v) /\ m = <<v[p]>>
      BY <1>2, <3>1, Zenon
    <3> QED BY <3>2, MapIs, Zenon
  <2>3. <<x>> \in DOMAIN MapOf(v)
    <3>1. n \in NamePlaces(v) /\ <<x>> = <<v[n]>>
      BY <1>2, Zenon
    <3> QED BY <3>1, MapIs, Zenon
  <2> QED BY <2>1, <2>2, <2>3, Zenon
<1>7. \A m \in D : MapOf(v)[m] = IF m = <<x>> THEN i ELSE MapOf(w)[m]
  <2> TAKE m \in D
  <2>1. CASE m = <<x>>
    BY <1>4, <2>1, Zenon
  <2>2. CASE m # <<x>>
    <3>1. m \in DOMAIN MapOf(w)
      BY <2>2, Zenon
    <3>2. PICK p \in NamePlaces(w) : m = <<w[p]>>
      BY <3>1, MapIs, Zenon
    <3> QED BY <1>5, <2>2, <3>2, Zenon
  <2> QED BY <2>1, <2>2
<1>8. MapOf(v) = [m \in DOMAIN MapOf(v) |-> MapOf(v)[m]]
  BY MapIs, Zenon
<1>9. MapOf(v) = [m \in D |-> IF m = <<x>> THEN i ELSE MapOf(w)[m]]
  <2> DEFINE f == MapOf(v)
             g == MapOf(w)
  <2>1. f = [m \in D |-> f[m]] /\ \A m \in D : f[m] = IF m = <<x>> THEN i ELSE g[m]
    BY <1>6, <1>7, <1>8, Zenon
  <2> HIDE DEF D, f, g
  <2>2. f = [m \in D |-> IF m = <<x>> THEN i ELSE g[m]]
    BY <2>1, Zenon
  <2> QED BY <2>2, Zenon DEF f, g
<1> QED BY <1>9, Zenon DEF v, AddName

(* An entry that goes is a name that goes, and no other.                   *)
LEMMA MapRemove ==
  ASSUME NEW w, NamesDiffer(w), NEW v, NamesDiffer(v), NEW p \in NamePlaces(w),
         LeftBy(v, w, p)
  PROVE MapOf(v) = DropName(MapOf(w), <<w[p]>>)
<1> DEFINE D == DOMAIN MapOf(w) \ {<<w[p]>>}
<1>1. ASSUME NEW m \in DOMAIN MapOf(v) PROVE m \in D /\ MapOf(v)[m] = MapOf(w)[m]
  <2>1. PICK q \in NamePlaces(v) : m = <<v[q]>>
    BY <1>1, MapIs, Zenon
  <2> DEFINE r == From(p, q)
  <2>2. r \in NamePlaces(w) /\ r # p /\ v[q] = w[r] /\ v[q - 1] = w[r - 1]
    BY Zenon DEF LeftBy
  <2> HIDE DEF r
  <2>3. MapOf(v)[m] = v[q - 1]
    BY <2>1, InumIs, Zenon
  <2>4. m = <<w[r]>> /\ MapOf(w)[m] = w[r - 1] /\ m \in DOMAIN MapOf(w)
    BY <2>1, <2>2, InumIs, ZenonT(40)
  <2>5. m # <<w[p]>>
    <3>1. w[r] # w[p]
      BY <2>2, Zenon DEF NamesDiffer
    <3> QED BY <2>4, <3>1
  <2> QED BY <2>2, <2>3, <2>4, <2>5, Zenon
<1>2. ASSUME NEW m \in D PROVE m \in DOMAIN MapOf(v)
  <2>1. PICK r \in NamePlaces(w) : m = <<w[r]>>
    BY <1>2, MapIs, Zenon
  <2>2. r # p
    BY <1>2, <2>1, Zenon
  <2>3. PICK q \in NamePlaces(v) : From(p, q) = r
    BY <2>2, Zenon DEF LeftBy
  <2>4. v[q] = w[r]
    BY <2>3, Zenon DEF LeftBy
  <2> QED BY <2>1, <2>4, MapIs, Zenon
<1>3. DOMAIN MapOf(v) = D
  BY <1>1, <1>2, Zenon
<1> DEFINE f == MapOf(v)
           g == MapOf(w)
<1>4. f = [m \in DOMAIN f |-> f[m]]
  BY MapIs, Zenon
<1>5. f = [m \in D |-> f[m]] /\ \A m \in D : f[m] = g[m]
  BY <1>1, <1>3, <1>4, Zenon
<1> HIDE DEF D, f, g
<1>6. f = [m \in D |-> g[m]]
  BY <1>5, Zenon
<1> QED BY <1>6, Zenon DEF f, g, D, DropName

(* A directory that is just made is empty.                                 *)
LEMMA MapEmpty == MapOf(<<>>) = [n \in {} |-> Root]
<1>1. {<< <<>>[p] >> : p \in NamePlaces(<<>>)} = {}
  BY EmptyFits, Zenon
<1> QED BY <1>1, Zenon DEF MapOf

-----------------------------------------------------------------------------
(* What a step of a client does to the store, S being its inums: nothing,  *)
(* or a file changes, or an entry is entered or removed.                   *)
Moves(s, t, S) ==
  \/ t = s
  \/ \E f, x : WritesAt(s, t, f, x)
  \/ \E d, x : \E i \in S : EntersAt(s, t, d, x, i)
  \/ \E d, p : RemovesAt(s, t, d, p) /\ s[d][p - 1] \in Files

(* A move keeps the store as it should be: extents stay, and only an inum  *)
(* of S gets one.                                                          *)
LEMMA MoveFits ==
  ASSUME NEW s, NEW t, NEW S, StoreFits(s), PlainNames, Moves(s, t, S)
  PROVE StoreFits(t) /\ Grows(s, t, S)
<1>1. CASE t = s
  BY <1>1, Zenon DEF Grows
<1>2. CASE \E f, x : WritesAt(s, t, f, x)
  <2>1. PICK f, x : WritesAt(s, t, f, x)
    BY <1>2, Zenon
  <2>2. StoreFits(t) /\ Grows(s, t, {})
    BY <2>1, FileStep, Zenon
  <2> QED BY <2>2, Zenon DEF Grows
<1>3. CASE \E d, x : \E i \in S : EntersAt(s, t, d, x, i)
  <2>1. PICK d, x, i : i \in S /\ EntersAt(s, t, d, x, i)
    BY <1>3, Zenon
  <2>2. StoreFits(t)
    BY <2>1, EnterStep, Zenon
  <2>3. Grows(s, t, {i})
    BY <2>1, EnterStep, Zenon
  <2> QED BY <2>1, <2>2, <2>3, Zenon DEF Grows
<1>4. CASE \E d, p : RemovesAt(s, t, d, p)
  <2>1. PICK d, p : RemovesAt(s, t, d, p)
    BY <1>4, Zenon
  <2>2. StoreFits(t) /\ Grows(s, t, {})
    BY <2>1, RemoveStep, Zenon
  <2> QED BY <2>2, Zenon DEF Grows
<1> QED BY <1>1, <1>2, <1>3, <1>4, Zenon DEF Moves

(* create and mkdir: if the name is not there, it is entered.              *)
LEMMA EnteredIs ==
  ASSUME NEW d \in Dirs, NEW n \in Names, NEW i \in Inums, NEW S, i \in S,
         StoreFits(store), PlainNames, store[d] # NoEntry, store[i] = NoEntry,
         store' = Entered(d, n, i)
  PROVE /\ Moves(store, store', S) /\ (Enters(d, n) => store'[i] # NoEntry)
<1>1. CASE isExist(d, n)
  BY <1>1, Zenon DEF Entered, Enters, Moves
<1>2. CASE ~isExist(d, n)
  <2> DEFINE x == n[1]
  <2>1. n = <<x>> /\ x \in Words
    BY Zenon DEF PlainNames, Words
  <2> HIDE DEF x
  <2>2. NewName(store[d], x)
    BY <1>2, <2>1, Zenon DEF isExist, Places, NewName
  <2>3. store' = [store EXCEPT ![i] = <<>>, ![d] = AddEntry(store[d], n, i)]
    <3>1. store' = [store EXCEPT ![i] = <<>>,
                                 ![d] = IF @ = NoEntry THEN @ ELSE AddEntry(@, n, i)]
      BY <1>2, Zenon DEF Entered
    <3>2. d # i
      BY Zenon
    <3> QED BY <3>1, <3>2
  <2>4. EntersAt(store, store', d, x, i)
    BY <2>1, <2>2, <2>3, Zenon DEF EntersAt
  <2>5. store'[i] = <<>>
    <3>1. DOMAIN store = Inums /\ d # i
      BY Zenon DEF StoreFits
    <3> QED BY <2>3, <3>1
  <2> QED BY <2>4, <2>5, Consts, Zenon DEF Moves
<1> QED BY <1>1, <1>2

(* The entry that lookup and unlink find.                                  *)
LEMMA FoundIs ==
  ASSUME NEW d \in Dirs, NEW n \in Names, StoreFits(store), isExist(d, n)
  PROVE /\ InumOf(store[d], n) \in Inums /\ store[InumOf(store[d], n)] # NoEntry
        /\ \E p \in NamePlaces(store[d]) :
             <<store[d][p]>> = n /\ InumOf(store[d], n) = store[d][p - 1]
<1>1. PICK p \in NamePlaces(store[d]) : <<store[d][p]>> = n
  BY Zenon DEF isExist, Places
<1>2. NamesDiffer(store[d]) /\ Entry(store, d, p)
  BY Zenon DEF StoreFits, WordsFit, isExist, Entry
<1>3. InumOf(store[d], n) = store[d][p - 1]
  BY <1>1, <1>2, InumIs, Zenon
<1>4. store[d][p - 1] \in Inums /\ store[store[d][p - 1]] # NoEntry
  BY <1>2, Zenon DEF StoreFits, EntriesFit
<1> QED BY <1>1, <1>3, <1>4, Zenon

(* The types of the extents follow.                                        *)
LEMMA StoreTyped ==
  ASSUME NEW s, StoreFits(s), PlainNames
  PROVE /\ DOMAIN s = Inums
        /\ \A i \in Files : s[i] \in {NoEntry, <<>>, Data}
        /\ \A d \in Dirs : s[d] # NoEntry =>
             \A p \in 1..Len(s[d]) : s[d][p] \in Inums \/ <<s[d][p]>> \in Names
<1>1. ASSUME NEW d \in Dirs, s[d] # NoEntry, NEW p \in 1..Len(s[d])
      PROVE s[d][p] \in Inums \/ <<s[d][p]>> \in Names
  <2> DEFINE w == s[d]
  <2>1. w \in Seq(Words)
    BY <1>1, Zenon DEF StoreFits, WordsFit
  <2> HIDE DEF w
  <2>2. p \in 1..Len(w)
    BY Zenon DEF w
  <2>3. w[p] \in Words
    BY <2>1, <2>2
  <2>4. \A n \in Names : n[1] = w[p] => <<w[p]>> \in Names
    BY Zenon DEF PlainNames
  <2> QED BY <2>3, <2>4, Zenon DEF Words, w
<1> QED BY <1>1, Zenon DEF StoreFits

-----------------------------------------------------------------------------
(* The steps.                                                              *)

(* Other clients' requests, and known inums, are as they should be when    *)
(* the store grows by inums that are not this client's.                    *)
LEMMA ReqStays ==
  ASSUME NEW s, NEW t, NEW S, NEW I, NEW r \in Request \cup {None}, NEW n,
         ReqFits(s, S, r, n), Grows(s, t, I), S \cap I = {}, S \subseteq Inums
  PROVE ReqFits(t, S, r, n)
<1> SUFFICES ASSUME r # None PROVE ReqFits(t, S, r, n)
  BY Zenon DEF ReqFits
<1>1. r.ino \in Inums /\ r.new \in Inums \cup {None}
  BY DEF Request
<1>2. \A i \in Inums : s[i] # NoEntry => t[i] # NoEntry
  BY Zenon DEF Grows
<1>3. \A i \in Inums : Fresh(s, S, i) => Fresh(t, S, i)
  BY Zenon DEF Grows, Fresh
<1>4. Dirs \subseteq Inums /\ Files \subseteq Inums
  BY Consts, Zenon
<1> QED BY <1>1, <1>2, <1>3, <1>4, Zenon DEF ReqFits

(* The variables but the store and inum_set have their types, and of those *)
(* by client only c's change.                                              *)
OnlyOf(c) ==
  /\ owner' \in [Inums -> Clients \cup {None}]
  /\ req' \in [Clients -> Request \cup {None}]
  /\ replies' \in [Clients -> 0..2]
  /\ known' \in [Clients -> SUBSET Inums]
  /\ requests' \in [Clients -> 0..MaxRequests]
  /\ \A d \in Clients \ {c} :
       req'[d] = req[d] /\ replies'[d] = replies[d] /\ known'[d] = known[d]

(* A step of c in its request keeps the invariant if the store moves by    *)
(* c's inums and c's own request goes on as it should.                     *)
LEMMA Frame ==
  ASSUME IInv, NEW c \in Clients, Moves(store, store', inum_set[c]), OnlyOf(c),
         UNCHANGED inum_set, ReqFits(store', inum_set[c], req'[c], replies'[c]),
         \A i \in known'[c] : store'[i] # NoEntry
  PROVE IInv'
<1>0. /\ PlainNames /\ StoreFits(store) /\ InumsFit(store, inum_set)
      /\ \A d \in Clients : ClientFits(d)
  BY Zenon DEF IInv
<1>1. StoreFits(store') /\ Grows(store, store', inum_set[c])
  BY <1>0, MoveFits, Zenon
<1>2. TypeOK'
  <2>1. inum_set' \in [Clients -> SUBSET Inums]
    BY Zenon DEF IInv, TypeOK
  <2>2. /\ DOMAIN store' = Inums
        /\ \A i \in Files : store'[i] \in {NoEntry, <<>>, Data}
        /\ \A d \in Dirs : store'[d] # NoEntry =>
             \A p \in 1..Len(store'[d]) : store'[d][p] \in Inums \/ <<store'[d][p]>> \in Names
    BY <1>0, <1>1, StoreTyped, Zenon
  <2> QED BY <2>1, <2>2, Zenon DEF TypeOK, OnlyOf
<1>3. InumsFit(store', inum_set')
  BY <1>0, <1>1, Zenon DEF InumsFit, Grows
<1>4. ASSUME NEW d \in Clients PROVE ClientFits(d)'
  <2>1. CASE d = c
    BY <2>1, Zenon DEF ClientFits
  <2>2. CASE d # c
    <3>1. req'[d] = req[d] /\ replies'[d] = replies[d] /\ known'[d] = known[d]
      BY <2>2, Zenon DEF OnlyOf
    <3>2. /\ inum_set[d] \cap inum_set[c] = {} /\ inum_set[d] \subseteq Inums
          /\ req[d] \in Request \cup {None} /\ known[d] \subseteq Inums
      BY <1>0, <2>2, Zenon DEF InumsFit, IInv, TypeOK
    <3>3. ReqFits(store, inum_set[d], req[d], replies[d])
      BY <1>0, Zenon DEF ClientFits
    <3>4. ReqFits(store', inum_set[d], req[d], replies[d])
      BY <1>1, <3>2, <3>3, ReqStays, Zenon
    <3>5. \A i \in known[d] : store'[i] # NoEntry
      BY <1>0, <1>1, <3>2, Zenon DEF ClientFits, Grows
    <3> QED BY <3>1, <3>4, <3>5, Zenon DEF ClientFits
  <2> QED BY <2>1, <2>2
<1> QED BY <1>0, <1>1, <1>2, <1>3, <1>4, Zenon DEF IInv

(* The request of c while it is served.                                    *)
LEMMA Serving ==
  ASSUME IInv, NEW c \in Clients, req[c] # None
  PROVE LET r == req[c] IN
        /\ r \in Request /\ r.ino \in Inums /\ StoreFits(store) /\ PlainNames
        /\ ReqFits(store, inum_set[c], r, replies[c]) /\ store[r.ino] # NoEntry
        /\ replies[c] \in 0..2 /\ inum_set[c] \subseteq Inums /\ known[c] \subseteq Inums
        /\ \A i \in known[c] : store[i] # NoEntry
<1>1. req[c] \in Request /\ StoreFits(store) /\ PlainNames /\ replies[c] \in 0..2
      /\ inum_set[c] \subseteq Inums /\ known[c] \subseteq Inums /\ ClientFits(c)
  BY Zenon DEF IInv, TypeOK
<1>2. req[c].ino \in Inums
  BY <1>1 DEF Request
<1>3. ReqFits(store, inum_set[c], req[c], replies[c]) /\ \A i \in known[c] : store[i] # NoEntry
  BY <1>1, Zenon DEF ClientFits
<1>4. store[req[c].ino] # NoEntry
  BY <1>3, Zenon DEF ReqFits
<1> QED BY <1>1, <1>2, <1>3, <1>4, Zenon

(* The request goes on.                                                    *)
LEMMA GoesOnIs ==
  ASSUME TypeOK, NEW c \in Clients, req[c] # None, NEW i \in Inums \cup {None},
         NEW st \in {"call", "second", "resize", "attr"}, GoesOn(c, st, i)
  PROVE /\ req' \in [Clients -> Request \cup {None}]
        /\ \A d \in Clients \ {c} : req'[d] = req[d]
        /\ req'[c].op = req[c].op /\ req'[c].ino = req[c].ino
        /\ req'[c].name = req[c].name /\ req'[c].st = st /\ req'[c].new = i
<1> DEFINE r == req[c]
           q == [r EXCEPT !.st = st, !.new = i]
<1>1. req \in [Clients -> Request \cup {None}] /\ r \in Request
  BY Zenon DEF TypeOK
<1>2. req' = [req EXCEPT ![c] = q]
  <2>1. req' = [req EXCEPT ![c].st = st, ![c].new = i]
    BY Zenon DEF GoesOn
  <2> QED BY <1>1, <2>1, Zenon
<1> HIDE DEF r
<1>3. /\ q \in Request /\ q.op = r.op /\ q.ino = r.ino /\ q.name = r.name
      /\ q.st = st /\ q.new = i
  BY <1>1, Zenon DEF Request
<1> HIDE DEF q
<1>4. req'[c] = q /\ \A d \in Clients \ {c} : req'[d] = req[d]
  BY <1>1, <1>2, Zenon
<1>5. req' \in [Clients -> Request \cup {None}]
  BY <1>1, <1>2, <1>3, Zenon
<1> QED BY <1>3, <1>4, <1>5, Zenon DEF r

(* The request is over, with n more replies.                               *)
LEMMA OverIs ==
  ASSUME TypeOK, NEW c \in Clients, NEW n, replies[c] + n \in 0..2, Over(c, n)
  PROVE /\ req' \in [Clients -> Request \cup {None}] /\ req'[c] = None
        /\ replies' \in [Clients -> 0..2]
        /\ \A d \in Clients \ {c} : req'[d] = req[d] /\ replies'[d] = replies[d]
<1>1. req \in [Clients -> Request \cup {None}] /\ replies \in [Clients -> 0..2]
  BY Zenon DEF TypeOK
<1>2. req' = [req EXCEPT ![c] = None] /\ replies' = [replies EXCEPT ![c] = replies[c] + n]
  BY Zenon DEF Over
<1>3. req' \in [Clients -> Request \cup {None}] /\ req'[c] = None
      /\ \A d \in Clients \ {c} : req'[d] = req[d]
  BY <1>1, <1>2, Zenon
<1>4. replies' \in [Clients -> 0..2] /\ \A d \in Clients \ {c} : replies'[d] = replies[d]
  BY <1>1, <1>2, Zenon
<1> QED BY <1>3, <1>4, Zenon

(* The kernel of c is told of the inums of S.                              *)
LEMMA LearnsIs ==
  ASSUME TypeOK, NEW c \in Clients, NEW S, S \subseteq Inums, Learns(c, S)
  PROVE /\ known' \in [Clients -> SUBSET Inums] /\ known'[c] = known[c] \cup S
        /\ \A d \in Clients \ {c} : known'[d] = known[d]
<1>1. known \in [Clients -> SUBSET Inums]
  BY Zenon DEF TypeOK
<1> QED BY <1>1, Zenon DEF Learns

(* A step of c is good: the invariant holds after it, and the store moved  *)
(* by c's inums.                                                           *)
Good(c) == IInv' /\ Moves(store, store', inum_set[c])

(* The request of c goes on at st with inum i, or is over.                 *)
LEMMA StillServing ==
  ASSUME IInv, NEW c \in Clients, req[c] # None, NEW i \in Inums \cup {None},
         NEW st \in {"call", "second", "resize", "attr"}, GoesOn(c, st, i),
         owner' \in [Inums -> Clients \cup {None}], replies' \in [Clients -> 0..2],
         \A d \in Clients \ {c} : replies'[d] = replies[d],
         UNCHANGED <<known, inum_set, requests>>, Moves(store, store', inum_set[c]),
         st # "attr" => replies'[c] = 0,
         st = "attr" => i \in Inums /\ replies'[c] \in {0, 1}
                        /\ (replies'[c] = 0 => store'[i] # NoEntry),
         st \in {"call", "second"} /\ req[c].op = "create" =>
           i \in Files /\ Fresh(store', inum_set[c], i),
         st \in {"call", "second"} /\ req[c].op = "mkdir" =>
           i \in Dirs /\ Fresh(store', inum_set[c], i),
         st = "second" /\ req[c].op = "lookup" => i \in Inums,
         st = "second" /\ req[c].op = "unlink" => i \in Files /\ store'[i] # NoEntry
  PROVE Good(c)
<1> DEFINE r == req[c]
           q == req'[c]
<1>1. /\ r \in Request /\ r.ino \in Inums /\ StoreFits(store) /\ PlainNames
      /\ ReqFits(store, inum_set[c], r, replies[c]) /\ store[r.ino] # NoEntry
      /\ replies[c] \in 0..2 /\ inum_set[c] \subseteq Inums /\ known[c] \subseteq Inums
      /\ \A j \in known[c] : store[j] # NoEntry
  BY Serving, Zenon
<1>0. TypeOK
  BY Zenon DEF IInv
<1>2. /\ req' \in [Clients -> Request \cup {None}]
      /\ \A d \in Clients \ {c} : req'[d] = req[d]
      /\ q.op = r.op /\ q.ino = r.ino /\ q.name = r.name /\ q.st = st /\ q.new = i
  BY <1>0, GoesOnIs, ZenonT(60)
<1>3. \A j \in Inums : store[j] # NoEntry => store'[j] # NoEntry
  <2>1. Grows(store, store', inum_set[c])
    BY <1>1, MoveFits, Zenon
  <2> QED BY <2>1, Zenon DEF Grows
<1>4. OnlyOf(c)
  BY <1>0, <1>2, Zenon DEF OnlyOf, TypeOK
<1>5. \A j \in known'[c] : store'[j] # NoEntry
  BY <1>1, <1>3, Zenon
<1>6. r.op \in TwoLocks => r.ino \in Dirs /\ r.name \in Names
  BY <1>1, Zenon DEF ReqFits
<1>7. r.op \in {"setattr", "read", "write"} => r.ino \in Files
  BY <1>1, Zenon DEF ReqFits
<1> HIDE DEF q, r
<1>8. store'[q.ino] # NoEntry
  BY <1>1, <1>2, <1>3, Zenon
<1>9. ReqFits(store', inum_set[c], q, replies'[c])
  BY <1>2, <1>6, <1>7, <1>8, Zenon DEF ReqFits, r
<1> QED BY <1>4, <1>5, <1>9, Frame, Zenon DEF Good, q

(* The request that a handler works on fits what the stores have.          *)
LEMMA Served ==
  ASSUME IInv, NEW c \in Clients, NEW n, replies[c] + n \in 0..2, Over(c, n),
         owner' \in [Inums -> Clients \cup {None}], known' \in [Clients -> SUBSET Inums],
         \A d \in Clients \ {c} : known'[d] = known[d],
         UNCHANGED <<inum_set, requests>>, Moves(store, store', inum_set[c]),
         \A i \in known'[c] : i \in known[c] \/ store'[i] # NoEntry
  PROVE Good(c)
<1>0. TypeOK /\ StoreFits(store) /\ PlainNames /\ ClientFits(c)
  BY Zenon DEF IInv
<1>1. /\ req' \in [Clients -> Request \cup {None}] /\ req'[c] = None
      /\ replies' \in [Clients -> 0..2]
      /\ \A d \in Clients \ {c} : req'[d] = req[d] /\ replies'[d] = replies[d]
  BY <1>0, OverIs, Zenon
<1>2. OnlyOf(c)
  BY <1>0, <1>1, Zenon DEF OnlyOf, TypeOK
<1>3. known[c] \subseteq Inums /\ \A i \in known[c] : store[i] # NoEntry
  BY <1>0, Zenon DEF ClientFits, TypeOK
<1>4. \A j \in Inums : store[j] # NoEntry => store'[j] # NoEntry
  <2>1. Grows(store, store', inum_set[c])
    BY <1>0, MoveFits, Zenon
  <2> QED BY <2>1, Zenon DEF Grows
<1>5. \A i \in known'[c] : store'[i] # NoEntry
  BY <1>3, <1>4, Zenon
<1>6. ReqFits(store', inum_set[c], req'[c], replies'[c])
  BY <1>1, Zenon DEF ReqFits
<1> QED BY <1>2, <1>5, <1>6, Frame, Zenon DEF Good

(* The locks.                                                              *)
LEMMA OwnerIs ==
  ASSUME TypeOK
  PROVE /\ owner \in [Inums -> Clients \cup {None}]
        /\ \A i, x : x \in Clients \cup {None} =>
             [owner EXCEPT ![i] = x] \in [Inums -> Clients \cup {None}]
BY Zenon DEF TypeOK

(* The store as it is.                                                     *)
LEMMA StoreSame ==
  ASSUME IInv, NEW c \in Clients, UNCHANGED store
  PROVE Moves(store, store', inum_set[c])
BY Zenon DEF Moves

(* create's and mkdir's first step.                                        *)
LEMMA Parent ==
  ASSUME IInv, NEW c \in Clients, CreateParent(c) \/ MkdirParent(c)
  PROVE Good(c)
<1> DEFINE r == req[c]
<1>1. /\ r # None /\ r.op \in {"create", "mkdir"} /\ r.st = "call"
      /\ owner' = [owner EXCEPT ![r.ino] = c] /\ GoesOn(c, "second", r.new)
      /\ UNCHANGED <<store, replies, known, inum_set, requests>>
  BY Zenon DEF CreateParent, MkdirParent, Does
<1>2. /\ ReqFits(store, inum_set[c], r, replies[c])
      /\ TypeOK /\ replies \in [Clients -> 0..2]
  BY <1>1, Serving, Zenon DEF IInv, TypeOK
<1>3. replies[c] = 0
  BY <1>1, <1>2 DEF ReqFits
<1>4. /\ r.op = "create" => r.new \in Files /\ Fresh(store, inum_set[c], r.new)
      /\ r.op = "mkdir" => r.new \in Dirs /\ Fresh(store, inum_set[c], r.new)
  BY <1>1, <1>2, Zenon DEF ReqFits
<1>5. r.new \in Inums \cup {None}
  BY <1>1, <1>4, Consts, Zenon
<1>6. owner' \in [Inums -> Clients \cup {None}] /\ Moves(store, store', inum_set[c])
  BY <1>1, <1>2, OwnerIs, StoreSame, Zenon
<1>7. r.op # "lookup" /\ r.op # "unlink"
  BY <1>1
<1> HIDE DEF r
<1>8. replies' \in [Clients -> 0..2] /\ (\A d \in Clients \ {c} : replies'[d] = replies[d])
      /\ replies'[c] = 0 /\ store' = store
  BY <1>1, <1>2, <1>3, Zenon
<1> QED BY <1>1, <1>4, <1>5, <1>6, <1>7, <1>8, StillServing, Zenon DEF r

(* The entry: create replies and is over, mkdir goes on to the attributes. *)
LEMMA Enter ==
  ASSUME IInv, NEW c \in Clients, req[c] # None, req[c].op \in {"create", "mkdir"},
         req[c].st = "second", store' = Entered(req[c].ino, req[c].name, req[c].new)
  PROVE /\ Moves(store, store', inum_set[c]) /\ req[c].new \in Inums /\ replies[c] = 0
        /\ Enters(req[c].ino, req[c].name) => store'[req[c].new] # NoEntry
<1> DEFINE r == req[c]
<1>1. /\ StoreFits(store) /\ PlainNames /\ store[r.ino] # NoEntry
      /\ ReqFits(store, inum_set[c], r, replies[c])
  BY Serving, Zenon
<1>2. r.op \in TwoLocks /\ r.st # "attr" /\ r.st \in {"call", "second"}
  BY DEF TwoLocks
<1> HIDE DEF r
<1>3. r # None /\ r.op \in {"create", "mkdir"}
  BY Zenon DEF r
<1>4. /\ r.ino \in Dirs /\ r.name \in Names /\ replies[c] = 0
      /\ r.new \in Files \cup Dirs /\ Fresh(store, inum_set[c], r.new)
  BY <1>1, <1>2, <1>3, Zenon DEF ReqFits
<1>5. r.new \in Inums /\ r.new \in inum_set[c] /\ store[r.new] = NoEntry
  BY <1>4, Zenon DEF Fresh, Inums
<1>6. store' = Entered(r.ino, r.name, r.new)
  BY Zenon DEF r
<1>7. Moves(store, store', inum_set[c]) /\ (Enters(r.ino, r.name) => store'[r.new] # NoEntry)
  BY <1>1, <1>4, <1>5, <1>6, EnteredIs, Zenon
<1> QED BY <1>4, <1>5, <1>7, Zenon DEF r

(* create enters the new file in the directory.                            *)
LEMMA CreateEntryGood ==
  ASSUME IInv, NEW c \in Clients, CreateEntry(c)
  PROVE Good(c)
<1> DEFINE r == req[c]
           S == IF Enters(r.ino, r.name) THEN {r.new} ELSE {}
<1>1. /\ r # None /\ r.op = "create" /\ r.st = "second" /\ TypeOK
      /\ store' = Entered(r.ino, r.name, r.new) /\ Learns(c, S)
      /\ owner' = [owner EXCEPT ![r.ino] = None] /\ Over(c, 1)
      /\ UNCHANGED <<inum_set, requests>>
  BY Zenon DEF CreateEntry, Does, IInv
<1>2. /\ Moves(store, store', inum_set[c]) /\ r.new \in Inums /\ replies[c] = 0
      /\ Enters(r.ino, r.name) => store'[r.new] # NoEntry
  BY <1>1, Enter, Zenon
<1>3. S \subseteq Inums /\ \A i \in S : store'[i] # NoEntry
  BY <1>2, Zenon
<1> HIDE DEF S, r
<1>4. /\ known' \in [Clients -> SUBSET Inums] /\ known'[c] = known[c] \cup S
      /\ \A d \in Clients \ {c} : known'[d] = known[d]
  BY <1>1, <1>3, LearnsIs, Zenon
<1>5. \A i \in known'[c] : i \in known[c] \/ store'[i] # NoEntry
  BY <1>3, <1>4, Zenon
<1>6. owner' \in [Inums -> Clients \cup {None}]
  BY <1>1, OwnerIs, Zenon
<1>7. replies[c] + 1 \in 0..2
  BY <1>2, SMTT(20)
<1> QED BY <1>1, <1>2, <1>4, <1>5, <1>6, <1>7, Served, Zenon

(* The same for mkdir.                                                     *)
LEMMA MkdirEntryGood ==
  ASSUME IInv, NEW c \in Clients, MkdirEntry(c)
  PROVE Good(c)
<1> DEFINE r == req[c]
           n == IF Enters(r.ino, r.name) THEN 0 ELSE 1
<1>1. /\ r # None /\ r.op = "mkdir" /\ r.st = "second" /\ TypeOK
      /\ store' = Entered(r.ino, r.name, r.new) /\ replies' = [replies EXCEPT ![c] = n]
      /\ owner' = [owner EXCEPT ![r.ino] = None] /\ GoesOn(c, "attr", r.new)
      /\ UNCHANGED <<known, inum_set, requests>>
  BY Zenon DEF MkdirEntry, Does, IInv
<1>2. /\ Moves(store, store', inum_set[c]) /\ r.new \in Inums
      /\ Enters(r.ino, r.name) => store'[r.new] # NoEntry
  BY <1>1, Enter, Zenon
<1>3. n \in {0, 1} /\ n \in 0..2 /\ (n = 0 => store'[r.new] # NoEntry)
  BY <1>2
<1>4. replies \in [Clients -> 0..2]
  BY <1>1, Zenon DEF TypeOK
<1> HIDE DEF n, r
<1>5. /\ replies' \in [Clients -> 0..2] /\ replies'[c] = n
      /\ \A d \in Clients \ {c} : replies'[d] = replies[d]
  BY <1>1, <1>3, <1>4, Zenon
<1>6. owner' \in [Inums -> Clients \cup {None}]
  BY <1>1, OwnerIs, Zenon
<1> QED BY <1>1, <1>2, <1>3, <1>5, <1>6, StillServing DEF r

(* lookup finds the name, or replies that there is none.                   *)
LEMMA LookupNameGood ==
  ASSUME IInv, NEW c \in Clients, LookupName(c)
  PROVE Good(c)
<1> DEFINE r == req[c]
<1>1. /\ r # None /\ r.op = "lookup" /\ r.st = "call" /\ TypeOK
      /\ UNCHANGED <<store, known, inum_set, requests>>
      /\ \/ /\ ~isExist(r.ino, r.name)
            /\ Over(c, IF store[r.ino] = NoEntry THEN 2 ELSE 1)
            /\ UNCHANGED owner
         \/ /\ isExist(r.ino, r.name)
            /\ GoesOn(c, "second", InumOf(store[r.ino], r.name))
            /\ owner' = [owner EXCEPT ![r.ino] = c]
            /\ UNCHANGED replies
  BY Zenon DEF LookupName, Does, IInv
<1>2. StoreFits(store) /\ store[r.ino] # NoEntry /\ ReqFits(store, inum_set[c], r, replies[c])
  BY <1>1, Serving, Zenon
<1>3. r.op \in TwoLocks /\ r.st # "attr"
  BY <1>1 DEF TwoLocks
<1> HIDE DEF r
<1>4. r.ino \in Dirs /\ r.name \in Names /\ replies[c] = 0
  BY <1>1, <1>2, <1>3, Zenon DEF ReqFits
<1>5. Moves(store, store', inum_set[c])
  BY <1>1, StoreSame, Zenon
<1>t. owner \in [Inums -> Clients \cup {None}] /\ known \in [Clients -> SUBSET Inums]
      /\ replies \in [Clients -> 0..2]
  BY <1>1, Zenon DEF TypeOK
<1>6. CASE ~isExist(r.ino, r.name)
  <2>1. Over(c, 1) /\ UNCHANGED owner
    BY <1>1, <1>2, <1>6, Zenon
  <2>2. replies[c] + 1 \in 0..2
    BY <1>4, SMTT(20)
  <2> QED BY <1>1, <1>t, <1>5, <2>1, <2>2, Served, Zenon
<1>7. CASE isExist(r.ino, r.name)
  <2> DEFINE i == InumOf(store[r.ino], r.name)
  <2>1. GoesOn(c, "second", i) /\ owner' = [owner EXCEPT ![r.ino] = c] /\ UNCHANGED replies
    BY <1>1, <1>7, Zenon
  <2>2. i \in Inums
    BY <1>2, <1>4, <1>7, FoundIs, Zenon
  <2> HIDE DEF i
  <2>3. owner' \in [Inums -> Clients \cup {None}]
    BY <1>1, <2>1, OwnerIs, ZenonT(40)
  <2>4. r.op # "create" /\ r.op # "mkdir" /\ r.op # "unlink"
    BY <1>1, ZenonT(40)
  <2> QED BY <1>1, <1>t, <1>4, <1>5, <2>1, <2>2, <2>3, <2>4, StillServing, Zenon DEF r
<1> QED BY <1>6, <1>7

(* lookup asks for the attributes of what it found, and replies.           *)
LEMMA LookupAttrGood ==
  ASSUME IInv, NEW c \in Clients, LookupAttr(c)
  PROVE Good(c)
<1> DEFINE r == req[c]
           n == IF store[r.new] = NoEntry THEN 1 ELSE 0
<1>1. /\ r # None /\ r.op = "lookup" /\ r.st = "second" /\ TypeOK
      /\ replies' = [replies EXCEPT ![c] = n] /\ GoesOn(c, "attr", r.new)
      /\ owner' = [owner EXCEPT ![r.ino] = None]
      /\ UNCHANGED <<store, known, inum_set, requests>>
  BY Zenon DEF LookupAttr, Does, IInv
<1>2. ReqFits(store, inum_set[c], r, replies[c])
  BY <1>1, Serving, Zenon
<1>3. r.new \in Inums
  BY <1>1, <1>2, Zenon DEF ReqFits
<1>4. n \in {0, 1} /\ n \in 0..2 /\ (n = 0 => store[r.new] # NoEntry)
  OBVIOUS
<1>5. replies \in [Clients -> 0..2]
  BY <1>1, Zenon DEF TypeOK
<1> HIDE DEF n, r
<1>6. /\ replies' \in [Clients -> 0..2] /\ replies'[c] = n
      /\ \A d \in Clients \ {c} : replies'[d] = replies[d]
  BY <1>1, <1>4, <1>5, Zenon
<1>7. owner' \in [Inums -> Clients \cup {None}] /\ Moves(store, store', inum_set[c])
  BY <1>1, OwnerIs, StoreSame, Zenon
<1> QED BY <1>1, <1>3, <1>4, <1>6, <1>7, StillServing DEF r

(* create and mkdir reply with the attributes of what they made.           *)
LEMMA LastAttrGood ==
  ASSUME IInv, NEW c \in Clients, LastAttr(c)
  PROVE Good(c)
<1> DEFINE r == req[c]
           S == IF replies[c] = 0 THEN {r.new} ELSE {}
<1>1. /\ r # None /\ r.st = "attr" /\ TypeOK /\ Over(c, 1) /\ Learns(c, S)
      /\ UNCHANGED <<owner, store, inum_set, requests>>
  BY Zenon DEF LastAttr, IInv
<1>2. ReqFits(store, inum_set[c], r, replies[c])
  BY <1>1, Serving, Zenon
<1>3. r.new \in Inums /\ replies[c] \in {0, 1} /\ (replies[c] = 0 => store[r.new] # NoEntry)
  BY <1>1, <1>2, Zenon DEF ReqFits
<1>4. S \subseteq Inums /\ \A i \in S : store'[i] # NoEntry
  BY <1>1, <1>3, Zenon
<1> HIDE DEF S, r
<1>5. /\ known' \in [Clients -> SUBSET Inums] /\ known'[c] = known[c] \cup S
      /\ \A d \in Clients \ {c} : known'[d] = known[d]
  BY <1>1, <1>4, LearnsIs, Zenon
<1>6. \A i \in known'[c] : i \in known[c] \/ store'[i] # NoEntry
  BY <1>4, <1>5, Zenon
<1>7. owner' \in [Inums -> Clients \cup {None}] /\ Moves(store, store', inum_set[c])
  BY <1>1, OwnerIs, StoreSame, Zenon
<1>8. replies[c] + 1 \in 0..2
  BY <1>3
<1> QED BY <1>1, <1>5, <1>6, <1>7, <1>8, Served, Zenon

(* unlink takes the entry out of the directory.                            *)
LEMMA UnlinkEntryGood ==
  ASSUME IInv, NEW c \in Clients, UnlinkEntry(c)
  PROVE Good(c)
<1> DEFINE r == req[c]
           i == InumOf(store[r.ino], r.name)
<1>1. /\ r # None /\ r.op = "unlink" /\ r.st = "call" /\ TypeOK
      /\ UNCHANGED <<known, inum_set, requests>>
      /\ \/ ~CanUnlink(r.ino, r.name) /\ Over(c, 2) /\ UNCHANGED <<owner, store>>
         \/ /\ CanUnlink(r.ino, r.name)
            /\ store' = [store EXCEPT ![r.ino] = RemoveEntry(@, r.name)]
            /\ owner' = [owner EXCEPT ![r.ino] = c]
            /\ GoesOn(c, "second", i) /\ UNCHANGED replies
  BY Zenon DEF UnlinkEntry, Does, IInv
<1>2. /\ StoreFits(store) /\ PlainNames /\ store[r.ino] # NoEntry
      /\ ReqFits(store, inum_set[c], r, replies[c])
  BY <1>1, Serving, Zenon
<1>3. r.op \in TwoLocks /\ r.st # "attr"
  BY <1>1 DEF TwoLocks
<1> HIDE DEF r
<1>4. r.ino \in Dirs /\ r.name \in Names /\ replies[c] = 0
  BY <1>1, <1>2, <1>3, Zenon DEF ReqFits
<1>t. owner \in [Inums -> Clients \cup {None}] /\ known \in [Clients -> SUBSET Inums]
      /\ replies \in [Clients -> 0..2]
  BY <1>1, Zenon DEF TypeOK
<1>5. CASE ~CanUnlink(r.ino, r.name)
  <2>1. Over(c, 2) /\ UNCHANGED <<owner, store>>
    BY <1>1, <1>5, Zenon
  <2>2. replies[c] + 2 \in 0..2
    BY <1>4
  <2>3. Moves(store, store', inum_set[c])
    BY <2>1, StoreSame, Zenon
  <2> QED BY <1>1, <1>t, <2>1, <2>2, <2>3, Served, Zenon
<1>6. CASE CanUnlink(r.ino, r.name)
  <2>1. /\ GoesOn(c, "second", i) /\ owner' = [owner EXCEPT ![r.ino] = c] /\ UNCHANGED replies
        /\ store' = [store EXCEPT ![r.ino] = RemoveEntry(@, r.name)]
    BY <1>1, <1>6, Zenon
  <2>2. isExist(r.ino, r.name) /\ i \in Files
    BY <1>6, Zenon DEF CanUnlink, isdir
  <2>3. /\ store[i] # NoEntry
        /\ \E p \in NamePlaces(store[r.ino]) :
             <<store[r.ino][p]>> = r.name /\ i = store[r.ino][p - 1]
    BY <1>2, <1>4, <2>2, FoundIs, Zenon
  <2> HIDE DEF i
  <2> DEFINE d == r.ino
  <2>4. PICK p \in NamePlaces(store[d]) : <<store[d][p]>> = r.name /\ i = store[d][p - 1]
    BY <2>3, Zenon
  <2>5. store' = [store EXCEPT ![d] = RemoveEntry(store[d], <<store[d][p]>>)]
    BY <2>1, <2>4, Zenon
  <2>6. RemovesAt(store, store', d, p) /\ store[d][p - 1] \in Files
    BY <1>2, <1>4, <2>2, <2>4, <2>5, Zenon DEF RemovesAt
  <2>7. Moves(store, store', inum_set[c])
    BY <2>6, Zenon DEF Moves
  <2>8. i \in Inums /\ i \in Inums \cup {None}
    BY <2>2, Consts, Zenon
  <2>9. store'[i] # NoEntry
    <3>1. Grows(store, store', inum_set[c])
      BY <1>2, <2>7, MoveFits, Zenon
    <3> QED BY <2>3, <2>8, <3>1, Zenon DEF Grows
  <2>10. owner' \in [Inums -> Clients \cup {None}]
    BY <1>1, <2>1, OwnerIs, Zenon
  <2>11. r.op # "create" /\ r.op # "mkdir" /\ r.op # "lookup"
    BY <1>1
  <2> QED BY <1>1, <1>t, <1>4, <2>1, <2>2, <2>7, <2>8, <2>9, <2>10, <2>11, StillServing, Zenon
           DEF r
<1> QED BY <1>5, <1>6

(* A file is written, resized or emptied, and the request is over.         *)
LEMMA FileMoves ==
  ASSUME NEW f \in Files, store[f] # NoEntry, NEW x \in {<<>>, Data},
         store' = [store EXCEPT ![f] = x], NEW c
  PROVE Moves(store, store', inum_set[c])
<1>1. WritesAt(store, store', f, x)
  BY Zenon DEF WritesAt
<1> QED BY <1>1, Zenon DEF Moves

(* unlink removes the extent that the entry named.                         *)
LEMMA UnlinkExtentGood ==
  ASSUME IInv, NEW c \in Clients, UnlinkExtent(c)
  PROVE Good(c)
<1> DEFINE r == req[c]
<1>1. /\ r # None /\ r.op = "unlink" /\ r.st = "second" /\ TypeOK
      /\ store' = [store EXCEPT ![r.new] = <<>>] /\ Over(c, 1)
      /\ owner' = [owner EXCEPT ![r.ino] = None, ![r.new] = c]
      /\ UNCHANGED <<known, inum_set, requests>>
  BY Zenon DEF UnlinkExtent, Does, IInv
<1>2. ReqFits(store, inum_set[c], r, replies[c])
  BY <1>1, Serving, Zenon
<1>3. r.st # "attr"
  BY <1>1
<1> HIDE DEF r
<1>4. r.new \in Files /\ store[r.new] # NoEntry /\ replies[c] = 0
  BY <1>1, <1>2, <1>3, Zenon DEF ReqFits
<1>5. Moves(store, store', inum_set[c])
  BY <1>1, <1>4, FileMoves, Zenon
<1>6. owner' \in [Inums -> Clients \cup {None}]
  <2>1. owner \in [Inums -> Clients \cup {None}]
    BY <1>1, OwnerIs, Zenon
  <2>2. owner' = [[owner EXCEPT ![r.ino] = None] EXCEPT ![r.new] = c]
    BY <1>1, Zenon
  <2> QED BY <2>1, <2>2, Zenon
<1>7. replies[c] + 1 \in 0..2 /\ known \in [Clients -> SUBSET Inums]
  <2>1. known \in [Clients -> SUBSET Inums]
    BY <1>1, Zenon DEF TypeOK
  <2> QED BY <1>4, <2>1
<1> QED BY <1>1, <1>5, <1>6, <1>7, Served, Zenon

(* getattr replies once.                                                   *)
LEMMA GetAttrGood ==
  ASSUME IInv, NEW c \in Clients, GetAttr(c)
  PROVE Good(c)
<1> DEFINE r == req[c]
<1>1. /\ r # None /\ r.st = "call" /\ TypeOK /\ Over(c, 1)
      /\ UNCHANGED <<owner, store, known, inum_set, requests>>
  BY Zenon DEF GetAttr, Does, IInv
<1>2. ReqFits(store, inum_set[c], r, replies[c])
  BY <1>1, Serving, Zenon
<1>3. replies[c] + 1 \in 0..2
  BY <1>1, <1>2 DEF ReqFits
<1>4. owner' \in [Inums -> Clients \cup {None}] /\ Moves(store, store', inum_set[c])
  BY <1>1, OwnerIs, StoreSame, Zenon
<1>5. known \in [Clients -> SUBSET Inums]
  BY <1>1, Zenon DEF TypeOK
<1> QED BY <1>1, <1>3, <1>4, <1>5, Served, Zenon

(* readdir tells the kernel what the directory lists.                      *)
LEMMA ReadDirGood ==
  ASSUME IInv, NEW c \in Clients, ReadDir(c)
  PROVE Good(c)
<1> DEFINE r == req[c]
           E == {store[r.ino][i - 1] : i \in NamePlaces(store[r.ino])} \cap Inums
           S == IF ~isdir(r.ino) \/ store[r.ino] = NoEntry THEN {} ELSE E
<1>1. /\ r # None /\ r.st = "call" /\ TypeOK /\ Over(c, 1) /\ Learns(c, S)
      /\ UNCHANGED <<owner, store, inum_set, requests>>
  BY Zenon DEF ReadDir, Does, IInv
<1>2. /\ StoreFits(store) /\ r.ino \in Inums /\ store[r.ino] # NoEntry
      /\ ReqFits(store, inum_set[c], r, replies[c])
  BY <1>1, Serving, ZenonT(40)
<1>3. replies[c] + 1 \in 0..2
  <2>1. replies[c] = 0
    BY <1>1, <1>2, Zenon DEF ReqFits
  <2> QED BY <2>1
<1> HIDE DEF r
<1>4. S \subseteq Inums /\ \A i \in S : store'[i] # NoEntry
  <2>1. S \subseteq Inums
    BY Zenon
  <2>2. ASSUME NEW i \in S PROVE store[i] # NoEntry
    <3>1. r.ino \in Dirs /\ i \in E
      BY <1>2, <2>2, Zenon DEF isdir, Inums
    <3>2. PICK p \in NamePlaces(store[r.ino]) : i = store[r.ino][p - 1]
      BY <3>1, Zenon
    <3>3. Entry(store, r.ino, p)
      BY <1>2, <3>1, <3>2, Zenon DEF Entry
    <3> QED BY <1>2, <3>2, <3>3, Zenon DEF StoreFits, EntriesFit
  <2> QED BY <1>1, <2>1, <2>2, Zenon
<1> HIDE DEF S, E
<1>5. /\ known' \in [Clients -> SUBSET Inums] /\ known'[c] = known[c] \cup S
      /\ \A d \in Clients \ {c} : known'[d] = known[d]
  BY <1>1, <1>4, LearnsIs, Zenon
<1>6. \A i \in known'[c] : i \in known[c] \/ store'[i] # NoEntry
  BY <1>4, <1>5, Zenon
<1>7. owner' \in [Inums -> Clients \cup {None}] /\ Moves(store, store', inum_set[c])
  BY <1>1, OwnerIs, StoreSame, Zenon
<1> QED BY <1>1, <1>3, <1>5, <1>6, <1>7, Served, Zenon

(* read, write and the second half of setattr change no directory.         *)
LEMMA ReadWriteGood ==
  ASSUME IInv, NEW c \in Clients, ReadWrite(c) \/ SetAttrResize(c)
  PROVE Good(c)
<1> DEFINE r == req[c]
<1>1. /\ r # None /\ r.op \in {"setattr", "read", "write"} /\ r.st # "attr" /\ TypeOK
      /\ Over(c, IF store[r.ino] = NoEntry THEN 2 ELSE 1)
      /\ UNCHANGED <<owner, known, inum_set, requests>>
  BY DEF ReadWrite, SetAttrResize, Does, IInv
<1>2. /\ StoreFits(store) /\ store[r.ino] # NoEntry
      /\ ReqFits(store, inum_set[c], r, replies[c])
  BY <1>1, Serving, Zenon
<1>w. \/ store' = [store EXCEPT ![r.ino] = IF @ # NoEntry /\ r.op = "write" THEN Data ELSE @]
      \/ store' = [store EXCEPT ![r.ino] = IF @ # NoEntry THEN <<>> ELSE @]
  BY Zenon DEF ReadWrite, SetAttrResize
<1> HIDE DEF r
<1>3. r.ino \in Files /\ replies[c] = 0
  BY <1>1, <1>2, Zenon DEF ReqFits
<1>4. \/ store' = [store EXCEPT ![r.ino] = Data] \/ store' = [store EXCEPT ![r.ino] = <<>>]
      \/ store' = [store EXCEPT ![r.ino] = store[r.ino]]
  BY <1>2, <1>w, Zenon
<1>5. Moves(store, store', inum_set[c])
  <2>1. CASE store' = [store EXCEPT ![r.ino] = Data]
    BY <1>2, <1>3, <2>1, FileMoves, Zenon
  <2>2. CASE store' = [store EXCEPT ![r.ino] = <<>>]
    BY <1>2, <1>3, <2>2, FileMoves, Zenon
  <2>3. CASE store' = [store EXCEPT ![r.ino] = store[r.ino]]
    <3>1. store \in [Inums -> Seq(Words) \cup {NoEntry, Data}]
      BY <1>2, Zenon DEF StoreFits
    <3>2. store' = store
      BY <2>3, <3>1, Zenon
    <3> QED BY <3>2, StoreSame, Zenon
  <2> QED BY <1>4, <2>1, <2>2, <2>3, Zenon
<1>6. Over(c, 1) /\ replies[c] + 1 \in 0..2
  <2>1. Over(c, 1)
    BY <1>1, <1>2, Zenon
  <2> QED BY <1>3, <2>1
<1>7. owner' \in [Inums -> Clients \cup {None}] /\ known \in [Clients -> SUBSET Inums]
  BY <1>1, Zenon DEF TypeOK
<1> QED BY <1>1, <1>5, <1>6, <1>7, Served, ZenonT(40)

(* setattr reads the attributes first.                                     *)
LEMMA SetAttrGetGood ==
  ASSUME IInv, NEW c \in Clients, SetAttrGet(c)
  PROVE Good(c)
<1> DEFINE r == req[c]
<1>1. /\ r # None /\ r.op = "setattr" /\ r.st = "call" /\ TypeOK
      /\ GoesOn(c, "resize", None)
      /\ UNCHANGED <<owner, store, replies, known, inum_set, requests>>
  BY Zenon DEF SetAttrGet, Does, IInv
<1>2. ReqFits(store, inum_set[c], r, replies[c])
  BY <1>1, Serving, Zenon
<1>3. replies[c] = 0 /\ r.op # "create" /\ r.op # "mkdir"
  BY <1>1, <1>2 DEF ReqFits
<1>4. owner' \in [Inums -> Clients \cup {None}] /\ Moves(store, store', inum_set[c])
  BY <1>1, OwnerIs, StoreSame, Zenon
<1>5. replies' \in [Clients -> 0..2]
  BY <1>1, Zenon DEF TypeOK
<1> QED BY <1>1, <1>3, <1>4, <1>5, StillServing, Zenon

(* A request arrives, new being the inum for the entry it is to make.      *)
LEMMA Started ==
  ASSUME IInv, NEW c \in Clients, NEW op \in TwoLocks \cup OneLock, NEW ino \in Inums,
         NEW name \in Names \cup {None}, NEW new \in Inums \cup {None},
         Start(c, op, ino, name, new), op \in TwoLocks => name \in Names,
         inum_set' \in [Clients -> SUBSET Inums], InumsFit(store, inum_set'),
         \A d \in Clients \ {c} : inum_set'[d] = inum_set[d],
         op = "create" => new \in Files /\ Fresh(store, inum_set'[c], new),
         op = "mkdir" => new \in Dirs /\ Fresh(store, inum_set'[c], new)
  PROVE Good(c)
<1> DEFINE q == [op |-> op, st |-> "call", ino |-> ino, name |-> name, new |-> new]
<1>1. /\ requests[c] < MaxRequests /\ ino \in known[c]
      /\ op \in TwoLocks => ino \in Dirs
      /\ op \in {"setattr", "read", "write"} => ino \in Files
      /\ req' = [req EXCEPT ![c] = q] /\ replies' = [replies EXCEPT ![c] = 0]
      /\ requests' = [requests EXCEPT ![c] = @ + 1] /\ UNCHANGED <<owner, store, known>>
  BY Zenon DEF Start
<1>2. TypeOK /\ PlainNames /\ StoreFits(store) /\ \A d \in Clients : ClientFits(d)
  BY Zenon DEF IInv
<1>3. /\ q \in Request /\ q.op = op /\ q.st = "call" /\ q.ino = ino
      /\ q.name = name /\ q.new = new
  BY DEF Request
<1> HIDE DEF q
<1>4. /\ req' \in [Clients -> Request \cup {None}] /\ req'[c] = q
      /\ \A d \in Clients \ {c} : req'[d] = req[d]
  <2>1. req \in [Clients -> Request \cup {None}]
    BY <1>2, Zenon DEF TypeOK
  <2> QED BY <1>1, <1>3, <2>1, Zenon
<1>5. /\ replies' \in [Clients -> 0..2] /\ replies'[c] = 0
      /\ \A d \in Clients \ {c} : replies'[d] = replies[d]
  <2>1. replies \in [Clients -> 0..2]
    BY <1>2, Zenon DEF TypeOK
  <2> QED BY <1>1, <2>1
<1>6. requests' \in [Clients -> 0..MaxRequests]
  <2>1. requests \in [Clients -> 0..MaxRequests] /\ MaxRequests \in Nat
    BY <1>2, Consts, Zenon DEF TypeOK
  <2> QED BY <1>1, <2>1
<1>7. TypeOK'
  BY <1>1, <1>2, <1>4, <1>5, <1>6, Zenon DEF TypeOK
<1>8. store[ino] # NoEntry
  BY <1>1, <1>2, Zenon DEF ClientFits
<1>9. ReqFits(store, inum_set'[c], q, 0)
  BY <1>1, <1>3, <1>8, Zenon DEF ReqFits
<1>10. ASSUME NEW d \in Clients PROVE ClientFits(d)'
  <2>1. \A i \in known[d] : store[i] # NoEntry
    BY <1>2, Zenon DEF ClientFits
  <2>2. CASE d = c
    BY <1>1, <1>4, <1>5, <1>9, <2>1, <2>2, Zenon DEF ClientFits
  <2>3. CASE d # c
    BY <1>1, <1>2, <1>4, <1>5, <2>1, <2>3, Zenon DEF ClientFits
  <2> QED BY <2>2, <2>3, Zenon
<1>11. IInv'
  BY <1>1, <1>2, <1>7, <1>10, Zenon DEF IInv
<1> QED BY <1>1, <1>11, StoreSame, Zenon DEF Good

(* The inum that generate_inum gives out is nobody's and has no extent.    *)
LEMMA Generated ==
  ASSUME IInv, NEW c \in Clients, NEW kind, kind \subseteq Inums, NEW new,
         generate_inum(c, kind, new)
  PROVE /\ inum_set' \in [Clients -> SUBSET Inums] /\ InumsFit(store, inum_set')
        /\ \A d \in Clients \ {c} : inum_set'[d] = inum_set[d]
        /\ new \in kind /\ Fresh(store, inum_set'[c], new)
<1>1. /\ new \in kind /\ new # Root /\ \A d \in Clients : new \notin inum_set[d]
      /\ inum_set' = [inum_set EXCEPT ![c] = inum_set[c] \cup {new}]
  BY Zenon DEF generate_inum
<1>2. inum_set \in [Clients -> SUBSET Inums] /\ InumsFit(store, inum_set) /\ new \in Inums
  BY <1>1, Zenon DEF IInv, TypeOK
<1>3. /\ inum_set'[c] = inum_set[c] \cup {new}
      /\ \A d \in Clients \ {c} : inum_set'[d] = inum_set[d]
  BY <1>1, <1>2, Zenon
<1>4. inum_set' \in [Clients -> SUBSET Inums]
  BY <1>1, <1>2, Zenon
<1>5. store[new] = NoEntry
  BY <1>1, <1>2, Zenon DEF InumsFit
<1>6. InumsFit(store, inum_set')
  <2>1. \A d \in Clients : Root \notin inum_set'[d]
    BY <1>1, <1>2, <1>3, Zenon DEF InumsFit
  <2>2. ASSUME NEW d \in Clients, NEW e \in Clients, inum_set'[d] \cap inum_set'[e] # {}
        PROVE d = e
    <3>1. PICK i : i \in inum_set'[d] /\ i \in inum_set'[e]
      BY <2>2, Zenon
    <3>2. \A f \in Clients : i \in inum_set'[f] => i \in inum_set[f] \/ (i = new /\ f = c)
      BY <1>3, Zenon
    <3>3. \A f, g \in Clients : i \in inum_set[f] /\ i \in inum_set[g] => f = g
      BY <1>2, Zenon DEF InumsFit
    <3> QED BY <1>1, <3>1, <3>2, <3>3, Zenon
  <2>3. ASSUME NEW i \in Inums, store[i] # NoEntry
        PROVE i = Root \/ \E d \in Clients : i \in inum_set'[d]
    <3>1. i = Root \/ \E d \in Clients : i \in inum_set[d]
      BY <1>2, <2>3, Zenon DEF InumsFit
    <3>2. \A d \in Clients : i \in inum_set[d] => i \in inum_set'[d]
      BY <1>3, Zenon
    <3> QED BY <3>1, <3>2, Zenon
  <2> QED BY <2>1, <2>2, <2>3, Zenon DEF InumsFit
<1> QED BY <1>1, <1>3, <1>4, <1>5, <1>6, Zenon DEF Fresh

(* The kernel sends a request about what it knows.                         *)
LEMMA ArrivesGood ==
  ASSUME IInv, NEW c \in Clients, RequestArrives(c)
  PROVE Good(c)
<1>1. PICK op \in Ops, ino \in Inums :
        \/ /\ op \in {"create", "mkdir"}
           /\ \E name \in Names, new \in Inums :
                /\ generate_inum(c, IF op = "create" THEN Files ELSE Dirs, new)
                /\ Start(c, op, ino, name, new)
        \/ /\ op \in {"lookup", "unlink"}
           /\ \E name \in Names : Start(c, op, ino, name, None)
           /\ UNCHANGED inum_set
        \/ /\ op \in OneLock
           /\ Start(c, op, ino, None, None)
           /\ UNCHANGED inum_set
  BY Zenon DEF RequestArrives
<1>2. inum_set \in [Clients -> SUBSET Inums] /\ InumsFit(store, inum_set)
  BY Zenon DEF IInv, TypeOK
<1>3. CASE op \in {"create", "mkdir"}
  <2>0. op \in TwoLocks \cup OneLock /\ op \notin {"lookup", "unlink"} /\ op \notin OneLock
        /\ (op = "create" => op # "mkdir") /\ (op = "mkdir" => op # "create")
    BY <1>3 DEF TwoLocks, OneLock
  <2> DEFINE kind == IF op = "create" THEN Files ELSE Dirs
  <2>1. PICK name \in Names, new \in Inums :
          generate_inum(c, kind, new) /\ Start(c, op, ino, name, new)
    BY <1>1, <2>0, Zenon
  <2>2. kind \subseteq Inums /\ (op = "create" => kind = Files) /\ (op = "mkdir" => kind = Dirs)
    BY <2>0, Consts, Zenon
  <2> HIDE DEF kind
  <2>3. /\ inum_set' \in [Clients -> SUBSET Inums] /\ InumsFit(store, inum_set')
        /\ \A d \in Clients \ {c} : inum_set'[d] = inum_set[d]
        /\ new \in kind /\ Fresh(store, inum_set'[c], new)
    BY <2>1, <2>2, Generated, Zenon
  <2> QED BY <2>0, <2>1, <2>2, <2>3, Started, Zenon
<1>4. CASE op \in {"lookup", "unlink"}
  <2>0. op \in TwoLocks \cup OneLock /\ op \notin {"create", "mkdir"} /\ op \notin OneLock
        /\ op # "create" /\ op # "mkdir"
    BY <1>4 DEF TwoLocks, OneLock
  <2>1. PICK name \in Names : Start(c, op, ino, name, None)
    BY <1>1, <2>0, Zenon
  <2>2. UNCHANGED inum_set
    BY <1>1, <2>0, Zenon
  <2> QED BY <1>2, <2>0, <2>1, <2>2, Started, Zenon
<1>5. CASE op \in OneLock
  <2>0. /\ op \in TwoLocks \cup OneLock /\ op \notin TwoLocks /\ op \notin {"create", "mkdir"}
        /\ op \notin {"lookup", "unlink"} /\ op # "create" /\ op # "mkdir"
    BY <1>5 DEF TwoLocks, OneLock
  <2>1. Start(c, op, ino, None, None) /\ UNCHANGED inum_set
    BY <1>1, <2>0, Zenon
  <2> QED BY <1>2, <2>0, <2>1, Started, Zenon
<1> QED BY <1>1, <1>3, <1>4, <1>5, Zenon

(* Every step.                                                             *)
LEMMA NextGood ==
  ASSUME IInv, Next
  PROVE \E c \in Clients : Good(c)
<1>1. PICK c \in Clients : RequestArrives(c) \/ Serve(c)
  BY Zenon DEF Next
<1>2. CASE RequestArrives(c)
  BY <1>2, ArrivesGood, Zenon
<1>3. CASE CreateParent(c) \/ MkdirParent(c)
  BY <1>3, Parent, Zenon
<1>4. CASE CreateEntry(c) \/ MkdirEntry(c)
  BY <1>4, CreateEntryGood, MkdirEntryGood, Zenon
<1>5. CASE LookupName(c) \/ LookupAttr(c) \/ LastAttr(c)
  BY <1>5, LookupNameGood, LookupAttrGood, LastAttrGood, Zenon
<1>6. CASE UnlinkEntry(c) \/ UnlinkExtent(c)
  BY <1>6, UnlinkEntryGood, UnlinkExtentGood, Zenon
<1>7. CASE GetAttr(c) \/ ReadDir(c)
  BY <1>7, GetAttrGood, ReadDirGood, Zenon
<1>8. CASE ReadWrite(c) \/ SetAttrResize(c) \/ SetAttrGet(c)
  BY <1>8, ReadWriteGood, SetAttrGetGood, Zenon
<1> QED BY <1>1, <1>2, <1>3, <1>4, <1>5, <1>6, <1>7, <1>8, Zenon DEF Serve

(* The invariant is inductive.                                             *)
LEMMA Initially == PlainNames /\ Init => IInv
<1> SUFFICES ASSUME PlainNames, Init PROVE IInv
  OBVIOUS
<1>1. /\ store = [i \in Inums |-> IF i = Root THEN <<>> ELSE NoEntry]
      /\ Root \in Inums /\ NoEntry # <<>> /\ <<>> \in Seq(Words)
  BY Consts, Zenon DEF Init
<1>2. \A i \in Inums : store[i] = IF i = Root THEN <<>> ELSE NoEntry
  BY <1>1, Zenon
<1>3. \A d, p : ~Entry(store, d, p)
  <2>1. \A d \in Dirs : d \in Inums /\ (store[d] # NoEntry => store[d] = <<>>)
    BY <1>1, <1>2, Consts, Zenon
  <2> QED BY <2>1, EmptyFits, Zenon DEF Entry
<1>4. StoreFits(store)
  <2>1. store \in [Inums -> Seq(Words) \cup {NoEntry, Data}]
    BY <1>1, Zenon
  <2>2. /\ \A i \in Files : store[i] \in {NoEntry, <<>>, Data}
        /\ store[Root] # NoEntry
        /\ \A d \in Dirs : store[d] # NoEntry => WordsFit(store[d])
    BY <1>1, <1>2, EmptyFits, Consts, Zenon
  <2>3. EntriesFit(store) /\ OneEntry(store)
    BY <1>3, Zenon DEF EntriesFit, OneEntry
  <2> QED BY <2>1, <2>2, <2>3, Zenon DEF StoreFits
<1>5. TypeOK
  <2>1. /\ DOMAIN store = Inums
        /\ \A i \in Files : store[i] \in {NoEntry, <<>>, Data}
        /\ \A d \in Dirs : store[d] # NoEntry =>
             \A p \in 1..Len(store[d]) : store[d][p] \in Inums \/ <<store[d][p]>> \in Names
    BY <1>4, StoreTyped, Zenon
  <2>2. replies \in [Clients -> 0..2] /\ requests \in [Clients -> 0..MaxRequests]
    BY Consts DEF Init
  <2>3. /\ owner \in [Inums -> Clients \cup {None}] /\ req \in [Clients -> Request \cup {None}]
        /\ known \in [Clients -> SUBSET Inums] /\ inum_set \in [Clients -> SUBSET Inums]
    BY <1>1, Zenon DEF Init
  <2> QED BY <2>1, <2>2, <2>3, Zenon DEF TypeOK
<1>6. InumsFit(store, inum_set)
  BY <1>2, Zenon DEF InumsFit, Init
<1>7. ASSUME NEW c \in Clients PROVE ClientFits(c)
  <2>1. req[c] = None /\ known[c] = {Root}
    BY Zenon DEF Init
  <2> QED BY <1>1, <1>2, <2>1, Zenon DEF ClientFits, ReqFits
<1> QED BY <1>4, <1>5, <1>6, <1>7, Zenon DEF IInv

(* A step that changes nothing keeps the invariant.                        *)
LEMMA Stutters ==
  ASSUME IInv, UNCHANGED vars
  PROVE IInv'
BY Zenon DEF IInv, TypeOK, ClientFits, vars

(* No step breaks the invariant.                                           *)
LEMMA Inductive == IInv /\ [Next]_vars => IInv'
<1>1. ASSUME IInv, Next PROVE IInv'
  BY <1>1, NextGood, Zenon DEF Good
<1> QED BY <1>1, Stutters, Zenon

-----------------------------------------------------------------------------
(* Theorems.                                                               *)

(* The inductive invariant, with names without blanks that are no inums.   *)
THEOREM Invariant == PlainNames => (Spec => []IInv)
<1> QED BY Initially, Inductive, PTL DEF Spec

(* Every variable keeps its type.                                          *)
THEOREM TypeCorrect == PlainNames => (Spec => []TypeOK)
<1>1. IInv => TypeOK
  BY Zenon DEF IInv
<1> QED BY <1>1, Invariant, PTL

(* Every entry of a directory has its extent, whichever creates, mkdirs    *)
(* and unlinks of several clients overlap.                                 *)
THEOREM EntriesHold == PlainNames => (Spec => []EntriesExist)
<1>1. IInv => EntriesExist
  <2> SUFFICES ASSUME IInv, NEW d \in Dirs, store[d] # NoEntry,
                      NEW p \in NamePlaces(store[d])
               PROVE store[store[d][p - 1]] # NoEntry
    BY Zenon DEF EntriesExist
  <2>1. Entry(store, d, p)
    BY Zenon DEF Entry
  <2> QED BY <2>1, Zenon DEF IInv, StoreFits, EntriesFit
<1> QED BY <1>1, Invariant, PTL

-----------------------------------------------------------------------------
(* The refinement.                                                         *)

(* The maps of the directories of a store.                                 *)
Existing(s) == {x \in Dirs : s[x] # NoEntry}
DirsOf(s) == [d \in Existing(s) |-> MapOf(s[d])]

(* The directories that the stores show to the kernel.                     *)
LEMMA DirsIs ==
  ASSUME NEW s
  PROVE /\ DOMAIN DirsOf(s) = Existing(s)
        /\ \A d \in Existing(s) : DirsOf(s)[d] = MapOf(s[d])
BY Zenon DEF DirsOf

(* Files are not in the maps.                                              *)
LEMMA DirsSame ==
  ASSUME NEW s, NEW t, NEW f, NEW x, StoreFits(s), WritesAt(s, t, f, x)
  PROVE DirsOf(t) = DirsOf(s)
<1>1. \A d \in Dirs : t[d] = s[d]
  BY FileStep, Zenon
<1>2. Existing(t) = Existing(s)
  BY <1>1, Zenon DEF Existing
<1>3. \A d \in Existing(s) : MapOf(t[d]) = MapOf(s[d])
  BY <1>1, Zenon DEF Existing
<1> QED BY <1>2, <1>3, Zenon DEF DirsOf

(* An inum without an extent is in no map.                                 *)
ListedIn(D) == UNION {{D[d][n] : n \in DOMAIN D[d]} : d \in DOMAIN D}

(* No directory lists an extent that does not exist.                       *)
LEMMA NotListed ==
  ASSUME NEW s, StoreFits(s), NEW i, s[i] = NoEntry
  PROVE i \notin ListedIn(DirsOf(s))
<1> SUFFICES ASSUME NEW d \in DOMAIN DirsOf(s), NEW n \in DOMAIN DirsOf(s)[d]
             PROVE DirsOf(s)[d][n] # i
  BY Zenon DEF ListedIn
<1>1. d \in Dirs /\ s[d] # NoEntry /\ DirsOf(s)[d] = MapOf(s[d])
  BY DirsIs, Zenon DEF Existing
<1>2. PICK p \in NamePlaces(s[d]) : n = <<s[d][p]>>
  BY <1>1, MapIs, ZenonT(40)
<1>3. NamesDiffer(s[d]) /\ Entry(s, d, p)
  BY <1>1, <1>2, Zenon DEF StoreFits, WordsFit, Entry
<1>4. MapOf(s[d])[n] = s[d][p - 1]
  BY <1>2, <1>3, InumIs, Zenon
<1>5. s[s[d][p - 1]] # NoEntry
  BY <1>3, Zenon DEF StoreFits, EntriesFit
<1> QED BY <1>1, <1>4, <1>5, Zenon

(* An entry that is entered is a name that is entered.                     *)
EnterDirs(D, d, n, i) ==
  [y \in DOMAIN D \cup ({i} \cap Dirs) |->
     IF y = d THEN AddName(D[d], n, i)
     ELSE IF y = i THEN [m \in {} |-> Root] ELSE D[y]]

SimEnter(D, E, d, n, i) ==
  /\ d \in DOMAIN D /\ n \notin DOMAIN D[d] /\ i # Root
  /\ E = EnterDirs(D, d, n, i)

SimRemove(D, E, d, n, i) ==
  /\ d \in DOMAIN D /\ n \in DOMAIN D[d] /\ n \in Names /\ D[d][n] = i
  /\ E = [D EXCEPT ![d] = DropName(D[d], n)]

(* A new entry in the stores is a new name in the namespace.               *)
LEMMA DirsEnter ==
  ASSUME NEW s, NEW t, NEW d, NEW x, NEW i, StoreFits(s), EntersAt(s, t, d, x, i)
  PROVE SimEnter(DirsOf(s), DirsOf(t), d, <<x>>, i)
<1> DEFINE D == DirsOf(s)
           X == Existing(s) \cup ({i} \cap Dirs)
           F(y) == IF y = d THEN AddName(D[d], <<x>>, i)
                   ELSE IF y = i THEN [m \in {} |-> Root] ELSE D[y]
<1>1. /\ d \in Dirs /\ s[d] # NoEntry /\ x \in Words /\ <<x>> \in Names
      /\ i \in Inums /\ s[i] = NoEntry /\ NewName(s[d], x)
  BY Zenon DEF EntersAt
<1>2. Grows(s, t, {i}) /\ AfterEnter(s, t, d, x, i)
  BY EnterStep, Zenon
<1>a. /\ d # i /\ i # Root /\ t[d] = AddEntry(s[d], <<x>>, i) /\ t[i] = <<>>
      /\ WordsFit(s[d]) /\ \A j \in Inums : j # d /\ j # i => t[j] = s[j]
  BY <1>2, Zenon DEF AfterEnter
<1>3. d \in Existing(s) /\ DOMAIN D = Existing(s) /\ D[d] = MapOf(s[d])
  BY <1>1, DirsIs, Zenon DEF Existing
<1>4. <<x>> \notin DOMAIN MapOf(s[d])
  <2> SUFFICES ASSUME <<x>> \in DOMAIN MapOf(s[d]) PROVE FALSE
    OBVIOUS
  <2>1. PICK p \in NamePlaces(s[d]) : <<x>> = <<s[d][p]>>
    BY MapIs, ZenonT(40)
  <2>2. x = s[d][p]
    BY <2>1
  <2> QED BY <1>1, <2>2, ZenonT(40) DEF NewName
<1>5. Existing(t) = X
  <2>1. \A y \in Dirs : t[y] # NoEntry <=> s[y] # NoEntry \/ y = i
    BY <1>1, <1>2, <1>a, Consts, ZenonT(40) DEF Grows
  <2> QED BY <2>1, Zenon DEF Existing
<1>6. MapOf(t[d]) = F(d)
  <2>1. i \in Words
    BY <1>1, Zenon DEF Words
  <2>2. MapOf(AddEntry(s[d], <<x>>, i)) = AddName(MapOf(s[d]), <<x>>, i)
    BY <1>1, <1>a, <2>1, MapAdd, Zenon
  <2> QED BY <1>a, <1>3, <2>2, Zenon
<1>7. MapOf(t[i]) = F(i)
  BY <1>a, MapEmpty, Zenon
<1>8. ASSUME NEW y \in X, y # d, y # i PROVE MapOf(t[y]) = F(y)
  <2>1. y \in Existing(s) /\ y \in Inums
    BY <1>8, Consts, Zenon DEF Existing
  <2>2. D[y] = MapOf(s[y]) /\ t[y] = s[y]
    BY <1>a, <1>8, <2>1, DirsIs, Zenon
  <2> QED BY <1>8, <2>2, Zenon
<1> HIDE DEF D, F, X
<1>9. \A y \in X : MapOf(t[y]) = F(y)
  BY <1>6, <1>7, <1>8, Zenon
<1>10. DirsOf(t) = [y \in X |-> F(y)]
  BY <1>5, <1>9, Zenon DEF DirsOf
<1>11. DirsOf(t) = EnterDirs(D, d, <<x>>, i)
  BY <1>3, <1>10, ZenonT(40) DEF EnterDirs, F, X
<1> QED BY <1>a, <1>3, <1>4, <1>11, Zenon DEF SimEnter, D

(* An entry that goes is a name that goes.                                 *)
LEMMA DirsRemove ==
  ASSUME NEW s, NEW t, NEW d, NEW p, StoreFits(s), PlainNames, RemovesAt(s, t, d, p)
  PROVE SimRemove(DirsOf(s), DirsOf(t), d, <<s[d][p]>>, s[d][p - 1])
<1> DEFINE D == DirsOf(s)
           n == <<s[d][p]>>
           g == DropName(D[d], n)
<1>1. d \in Dirs /\ s[d] # NoEntry /\ p \in NamePlaces(s[d])
  BY Zenon DEF RemovesAt
<1>2. StoreFits(t) /\ Grows(s, t, {}) /\ AfterRemove(s, t, d, p)
  BY RemoveStep, Zenon
<1>a. LeftBy(t[d], s[d], p) /\ \A j \in Inums : j # d => t[j] = s[j]
  BY <1>2, Zenon DEF AfterRemove
<1>3. d \in Existing(s) /\ DOMAIN D = Existing(s) /\ D[d] = MapOf(s[d])
  BY <1>1, DirsIs, Zenon DEF Existing
<1>4. NamesDiffer(s[d]) /\ n \in Names
  BY <1>1, Zenon DEF StoreFits, WordsFit
<1>5. Existing(t) = Existing(s)
  BY <1>2, Consts, Zenon DEF Existing, Grows
<1>6. NamesDiffer(t[d])
  BY <1>2, <1>3, <1>5, Zenon DEF StoreFits, WordsFit, Existing
<1>7. MapOf(t[d]) = g
  <2>1. MapOf(t[d]) = DropName(MapOf(s[d]), <<s[d][p]>>)
    BY <1>1, <1>a, <1>4, <1>6, MapRemove, Zenon
  <2> QED BY <1>3, <2>1, Zenon
<1>8. ASSUME NEW y \in Existing(s), y # d PROVE MapOf(t[y]) = D[y]
  <2>1. y \in Inums
    BY Consts, Zenon DEF Existing
  <2> QED BY <1>a, <1>8, <2>1, DirsIs, Zenon
<1>9. n \in DOMAIN MapOf(s[d]) /\ MapOf(s[d])[n] = s[d][p - 1]
  BY <1>1, <1>4, InumIs, Zenon
<1> HIDE DEF D, n, g
<1>10. DirsOf(t) = [y \in DOMAIN D |-> IF y = d THEN g ELSE D[y]]
  BY <1>3, <1>5, <1>7, <1>8, Zenon DEF DirsOf
<1>11. DirsOf(t) = [D EXCEPT ![d] = g]
  BY <1>10, ZenonT(40)
<1> QED BY <1>3, <1>4, <1>9, <1>11, ZenonT(40) DEF SimRemove, D, n, g

(* Each step is one of the namespace's, or none.                           *)
LEMMA StepSimulates ==
  ASSUME IInv, [Next]_vars
  PROVE [Abstract!Next]_(DirsOf(store))
<1>0. StoreFits(store) /\ PlainNames
  BY Zenon DEF IInv
<1>1. \/ store' = store
      \/ \E f, x : WritesAt(store, store', f, x)
      \/ \E d, x, i : EntersAt(store, store', d, x, i)
      \/ \E d, p : RemovesAt(store, store', d, p) /\ store[d][p - 1] \in Files
  <2>1. CASE Next
    <3>1. PICK c \in Clients : Good(c)
      BY <2>1, NextGood, Zenon
    <3> QED BY <3>1, Zenon DEF Good, Moves
  <2>2. CASE UNCHANGED vars
    BY <2>2, Zenon DEF vars
  <2> QED BY <2>1, <2>2, Zenon
<1>2. CASE store' = store
  BY <1>2, Zenon
<1>3. CASE \E f, x : WritesAt(store, store', f, x)
  <2>1. DirsOf(store') = DirsOf(store)
    BY <1>0, <1>3, DirsSame, Zenon
  <2> QED BY <2>1, Zenon
<1>4. CASE \E d, x, i : EntersAt(store, store', d, x, i)
  <2>1. PICK d, x, i : EntersAt(store, store', d, x, i)
    BY <1>4, Zenon
  <2> DEFINE D == DirsOf(store)
             E == DirsOf(store')
             n == <<x>>
  <2>2. n \in Names /\ i \in Inums /\ store[i] = NoEntry
    BY <2>1, Zenon DEF EntersAt
  <2>3. i \notin ListedIn(D)
    BY <1>0, <2>2, NotListed, Zenon
  <2>4. SimEnter(D, E, d, n, i)
    BY <1>0, <2>1, DirsEnter, Zenon
  <2>a. D = [e \in {y \in Dirs : store[y] # NoEntry} |-> MapOf(store[e])]
    BY Zenon DEF DirsOf, Existing
  <2>b. E = [e \in {y \in Dirs : store'[y] # NoEntry} |-> MapOf(store'[e])]
    BY Zenon DEF DirsOf, Existing
  <2> HIDE DEF D, E, n
  <2>5. Abstract!Enter(d, n, i)
    <3>1. n \notin DOMAIN D[d] /\ i # Root
      BY <2>4, Zenon DEF SimEnter
    <3>2. E = [y \in DOMAIN D \cup ({i} \cap Dirs) |->
                 IF y = d THEN [m \in DOMAIN D[d] \cup {n} |-> IF m = n THEN i ELSE D[d][m]]
                 ELSE IF y = i THEN Abstract!NoNames ELSE D[y]]
      BY <2>4, Zenon DEF SimEnter, EnterDirs, AddName, Abstract!NoNames
    <3>3. i \notin Abstract!Listed
      BY <2>3, Zenon DEF Abstract!Listed, ListedIn, D, DirsOf, Existing
    <3> QED BY <3>1, <3>2, <3>3, Zenon DEF Abstract!Enter, D, E, DirsOf, Existing
  <2>6. Abstract!Next
    BY <2>2, <2>4, <2>5, <2>a, Zenon DEF Abstract!Next, Abstract!Inums, Inums, SimEnter
  <2> QED BY <2>6, Zenon
<1>5. CASE \E d, p : RemovesAt(store, store', d, p) /\ store[d][p - 1] \in Files
  <2>1. PICK d, p : RemovesAt(store, store', d, p) /\ store[d][p - 1] \in Files
    BY <1>5, Zenon
  <2> DEFINE D == DirsOf(store)
             E == DirsOf(store')
  <2>n. PICK n : n = <<store[d][p]>>
    BY Zenon
  <2>2. SimRemove(D, E, d, n, store[d][p - 1])
    BY <1>0, <2>1, <2>n, DirsRemove, Zenon
  <2>a. D = [e \in {y \in Dirs : store[y] # NoEntry} |-> MapOf(store[e])]
    BY Zenon DEF DirsOf, Existing
  <2>b. E = [e \in {y \in Dirs : store'[y] # NoEntry} |-> MapOf(store'[e])]
    BY Zenon DEF DirsOf, Existing
  <2> HIDE DEF D, E
  <2>3. Abstract!Remove(d, n)
    BY <2>1, <2>2, <2>a, <2>b, Zenon DEF Abstract!Remove, SimRemove, DropName
  <2>4. Abstract!Next
    BY <2>2, <2>3, <2>a, Zenon DEF Abstract!Next, SimRemove
  <2> QED BY <2>4, Zenon
<1> QED BY <1>1, <1>2, <1>3, <1>4, <1>5, Zenon

(* The two start alike.                                                    *)
LEMMA StartSimulates == Init => Abstract!Init
<1> SUFFICES ASSUME Init PROVE Abstract!Init
  OBVIOUS
<1>1. \A i \in Inums : store[i] = IF i = Root THEN <<>> ELSE NoEntry
  BY Zenon DEF Init
<1>2. Existing(store) = {Root}
  BY <1>1, Consts, Zenon DEF Existing
<1>3. MapOf(store[Root]) = [n \in {} |-> Root]
  BY <1>1, MapEmpty, Consts, Zenon
<1>4. DirsOf(store) = [d \in {Root} |-> [n \in {} |-> Root]]
  BY <1>2, <1>3, Zenon DEF DirsOf
<1> QED BY <1>4, Zenon DEF Abstract!Init, Abstract!NoNames, DirsOf, Existing

(* The words in the directories implement the maps of Namespace: creates,  *)
(* mkdirs and unlinks of several clients, however they overlap, enter a    *)
(* name once, with an inum of its own, and remove one entry each.          *)
THEOREM Refines == PlainNames => (Spec => ImplementsNamespace)
<1>1. IInv /\ [Next]_vars => [Abstract!Next]_(DirsOf(store))
  BY StepSimulates
<1> QED BY <1>1, Invariant, StartSimulates, PTL
       DEF Spec, ImplementsNamespace, Abstract!Spec, DirsOf, Existing
=============================================================================
