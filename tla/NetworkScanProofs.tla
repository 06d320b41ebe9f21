------------------------- MODULE NetworkScanProofs -------------------------
(***************************************************************************)
(* What is proved of NetworkScan for all stations, addresses, files and    *)
(* sources: the history keeps one record for each MAC and its status       *)
(* lives as StatusLife says, nothing in it is active that no sweep saw and *)
(* nothing friendly or specific is lost, whatever the scans report; and a  *)
(* scan loses no address that a source names.                              *)
(***************************************************************************)
EXTENDS NetworkScan, FiniteSetTheorems, WellFoundedInduction, SequenceTheorems, TLAPS

-----------------------------------------------------------------------------
(* Induction and folds                                                     *)

\* A set of numbers that is not empty has a least one.
LEMMA LeastNat ==
  ASSUME NEW T, T \subseteq Nat, T # {}
  PROVE  \E n \in T : \A m \in T : n <= m
<1>1. PICK n \in T : \A m \in T : <<m, n>> \notin OpToRel(<, Nat)
  BY WFMin, NatLessThanWellFounded
<1>2. \A m \in T : ~ (m < n)
  BY <1>1 DEF OpToRel
<1>q. QED BY <1>2

\* Induction up to n, for a set P.
LEMMA Induct ==
  ASSUME NEW n \in Nat, NEW P, 0 \in P, \A i \in 1..n : i - 1 \in P => i \in P
  PROVE  \A i \in 0..n : i \in P
<1>. DEFINE Bad == {i \in 0..n : i \notin P}
<1>1. SUFFICES ASSUME Bad # {} PROVE FALSE
  OBVIOUS
<1>2. PICK i \in Bad : \A m \in Bad : i <= m
  <2>1. Bad \subseteq Nat
    OBVIOUS
  <2>. HIDE DEF Bad
  <2>q. QED BY <1>1, <2>1, LeastNat
<1>3. i \in 0..n /\ i \notin P
  BY <1>2
<1>4. i # 0
  BY <1>3
<1>5. i \in 1..n /\ i - 1 \in 0..n /\ ~ (i <= i - 1)
  BY <1>3, <1>4
<1>6. i - 1 \in P
  BY <1>2, <1>5
<1>q. QED BY <1>3, <1>5, <1>6

\* The greatest of some numbers up to n is one of them.
LEMMA MaxOf ==
  ASSUME NEW n \in Nat, NEW t \in SUBSET (1..n), t # {}
  PROVE  Max(t) \in t /\ \A x \in t : x <= Max(t)
<1>. DEFINE Above == {j \in Nat : \A x \in t : x <= j}
<1>1. PICK j \in Above : \A m \in Above : j <= m
  <2>1. n \in Above
    OBVIOUS
  <2>q. QED BY <2>1, LeastNat
<1>2. j \in t
  <2>1. SUFFICES ASSUME j \notin t PROVE FALSE
    OBVIOUS
  <2>2. j \in Nat /\ \A x \in t : x \in 1..n /\ x <= j /\ x # j
    BY <1>1, <2>1
  <2>6. PICK some \in t : TRUE
    OBVIOUS
  <2>5. j # 0
    BY ONLY <2>2, <2>6
  <2>3. \A x \in t : x <= j - 1
    BY ONLY <2>2
  <2>4. j - 1 \in Above /\ ~ (j <= j - 1)
    BY <2>2, <2>3, <2>5
  <2>q. QED BY <1>1, <2>4
<1>q. QED BY <1>1, <1>2 DEF Max

\* The greatest of 1..i is i, and the others are 1..i - 1.
LEMMA LastOf ==
  ASSUME NEW n \in Nat
  PROVE  \A i \in 1..n : Max(1..i) = i /\ (1..i) \ {i} = 1..(i - 1)
<1>1. ASSUME NEW i \in 1..n PROVE Max(1..i) = i /\ (1..i) \ {i} = 1..(i - 1)
  <2>1. i \in Nat /\ i \in 1..i
    OBVIOUS
  <2>2. Max(1..i) \in 1..i /\ i <= Max(1..i)
    <3>1. 1..i \in SUBSET (1..i) /\ 1..i # {}
      BY <2>1
    <3>q. QED BY <2>1, <3>1, MaxOf
  <2>q. QED BY <2>1, <2>2
<1>q. QED BY <1>1

\* One device, in each of the stores.
EachReconciled(stores, d) == UNION {ReconcileDevice(s, d) : s \in stores}

TakenUp(s0, q) == FoldLeft(LAMBDA s, k : Absorb(s, s0[k]), Empty, q)

\* t is the last of n values, each made of the one before it.
TakenUpRun(s0, q, n, t) ==
  \E f : f[0] = Empty /\ (\A i \in 1..n : f[i] = Absorb(f[i - 1], s0[q[i]])) /\ t = f[n]

\* The records of a store, taken up one after the other (cleanup_duplicates).
LEMMA AbsorbFold ==
  ASSUME NEW s0, NEW q, NEW n \in Nat, DOMAIN q = 1..n, NEW t, t = TakenUp(s0, q)
  PROVE  TakenUpRun(s0, q, n, t)
<1>. DEFINE Op(s, d) == Absorb(s, s0[d])
            D(i, it) == it = [v \in SUBSET (1..i) |->
                               IF v = {} THEN Empty ELSE Op(it[v \ {Max(v)}], q[Max(v)])]
            Has == {i \in 0..n : \E it : D(i, it)}
<1>1. 0 \in Has
  <2>1. D(0, [v \in SUBSET (1..0) |-> Empty])
    <3>1. \A v \in SUBSET (1..0) : v = {}
      OBVIOUS
    <3>q. QED BY <3>1
  <2>q. QED BY <2>1
<1>2. ASSUME NEW i \in 1..n, i - 1 \in Has PROVE i \in Has
  <2>1. PICK it : D(i - 1, it)
    BY <1>2
  <2>2. PICK jt : jt = [v \in SUBSET (1..i) |->
                         IF i \in v THEN Op(it[v \ {i}], q[i]) ELSE it[v]]
    OBVIOUS
  <2>3. ASSUME NEW v \in SUBSET (1..i)
        PROVE  jt[v] = IF v = {} THEN Empty ELSE Op(jt[v \ {Max(v)}], q[Max(v)])
    <3>1. CASE i \in v
      <4>1. Max(v) = i
        <5>1. i \in Nat /\ \A x \in 1..i : x <= i /\ (i <= x => x = i)
          OBVIOUS
        <5>2. Max(v) \in v /\ \A x \in v : x <= Max(v)
          BY <3>1, <5>1, MaxOf
        <5>q. QED BY <3>1, <5>1, <5>2
      <4>2. v \ {i} \in SUBSET (1..i) /\ i \notin v \ {i}
        OBVIOUS
      <4>3. jt[v \ {i}] = it[v \ {i}]
        BY <2>2, <4>2
      <4>4. jt[v] = Op(it[v \ {i}], q[i])
        BY <2>2, <3>1
      <4>q. QED BY ONLY <3>1, <4>1, <4>3, <4>4
    <3>2. CASE i \notin v
      <4>1. v \in SUBSET (1..(i - 1))
        BY <3>2
      <4>2. jt[v] = it[v]
        BY <2>2, <3>2
      <4>3. it[v] = IF v = {} THEN Empty ELSE Op(it[v \ {Max(v)}], q[Max(v)])
        BY <2>1, <4>1
      <4>4. v \ {Max(v)} \in SUBSET (1..i) /\ i \notin v \ {Max(v)}
        BY <3>2
      <4>5. jt[v \ {Max(v)}] = it[v \ {Max(v)}]
        BY <2>2, <4>4
      <4>q. QED BY ONLY <4>2, <4>3, <4>5
    <3>q. QED BY <3>1, <3>2
  <2>4. D(i, jt)
    BY ONLY <2>2, <2>3
  <2>5. i \in 0..n /\ \E kt : D(i, kt)
    <3>. HIDE DEF D
    <3>q. QED BY <2>4
  <2>. HIDE DEF D
  <2>q. QED BY <2>5
<1>3. n \in Has
  <2>1. \A i \in 0..n : i \in Has
    <3>1. n \in Nat /\ \A i \in 1..n : i - 1 \in Has => i \in Has
      BY <1>2
    <3>. HIDE DEF Has
    <3>q. QED BY ONLY <1>1, <3>1, Induct
  <2>2. n \in 0..n
    OBVIOUS
  <2>. HIDE DEF Has
  <2>q. QED BY <2>1, <2>2
<1>4. \E jt : D(n, jt)
  BY <1>3
<1>. DEFINE it == CHOOSE jt : D(n, jt)
<1>5. D(n, it)
  <2>. HIDE DEF D
  <2>q. QED BY <1>4
<1>6. t = it[1..n]
  BY DEF TakenUp, FoldLeft, MapThenFoldSet
<1>. HIDE DEF it
<1>7. \A i \in 1..n : Max(1..i) = i /\ (1..i) \ {i} = 1..(i - 1)
  BY LastOf
<1>8. \A i \in 1..n : it[1..i] = Op(it[1..(i - 1)], q[i])
  <2>1. ASSUME NEW i \in 1..n PROVE it[1..i] = Op(it[1..(i - 1)], q[i])
    <3>1. 1..i \in SUBSET (1..n) /\ 1..i # {}
      <4>1. i \in 1..i /\ i <= n
        OBVIOUS
      <4>2. 1..i \subseteq 1..n
        BY ONLY <4>1, n \in Nat, i \in 1..n
      <4>q. QED BY ONLY <4>1, <4>2
    <3>2. \A v \in SUBSET (1..n) : v # {} => it[v] = Op(it[v \ {Max(v)}], q[Max(v)])
      BY <1>5
    <3>3. it[1..i] = Op(it[(1..i) \ {Max(1..i)}], q[Max(1..i)])
      BY ONLY <3>1, <3>2
    <3>4. Max(1..i) = i /\ (1..i) \ {i} = 1..(i - 1)
      BY <1>7
    <3>q. QED BY ONLY <3>3, <3>4
  <2>q. QED BY <2>1
<1>9. PICK f : f = [i \in 0..n |-> it[1..i]]
  OBVIOUS
<1>10. f[0] = Empty
  <2>1. 1..0 = {} /\ 0 \in 0..n
    OBVIOUS
  <2>q. QED BY <1>5, <1>9, <2>1
<1>11. ASSUME NEW i \in 1..n PROVE f[i] = Op(f[i - 1], q[i])
  <2>1. i \in 0..n /\ i - 1 \in 0..n
    OBVIOUS
  <2>2. f[i] = it[1..i] /\ f[i - 1] = it[1..(i - 1)]
    BY <1>9, <2>1
  <2>q. QED BY ONLY <1>8, <2>2
<1>12. f[n] = it[1..n]
  BY <1>9
<1>q. QED BY <1>6, <1>10, <1>11, <1>12 DEF TakenUpRun

LaidAll(s0, body, q) == FoldLeft(LAMBDA s, g : Laid(s, g, body[s0[g].ip]), s0, q)

\* t is the last of n values, each made of the one before it.
LaidAllRun(s0, body, q, n, t) ==
  \E f : f[0] = s0 /\ (\A i \in 1..n : f[i] = Laid(f[i - 1], q[i], body[s0[q[i]].ip])) /\ t = f[n]

\* The ghosts, laid one after the other (cleanup_duplicates).
LEMMA LaidFold ==
  ASSUME NEW s0, NEW body, NEW q, NEW n \in Nat, DOMAIN q = 1..n, NEW t, t = LaidAll(s0, body, q)
  PROVE  LaidAllRun(s0, body, q, n, t)
<1>. DEFINE Op(s, d) == Laid(s, d, body[s0[d].ip])
            D(i, it) == it = [v \in SUBSET (1..i) |->
                               IF v = {} THEN s0 ELSE Op(it[v \ {Max(v)}], q[Max(v)])]
            Has == {i \in 0..n : \E it : D(i, it)}
<1>1. 0 \in Has
  <2>1. D(0, [v \in SUBSET (1..0) |-> s0])
    <3>1. \A v \in SUBSET (1..0) : v = {}
      OBVIOUS
    <3>q. QED BY <3>1
  <2>q. QED BY <2>1
<1>2. ASSUME NEW i \in 1..n, i - 1 \in Has PROVE i \in Has
  <2>1. PICK it : D(i - 1, it)
    BY <1>2
  <2>2. PICK jt : jt = [v \in SUBSET (1..i) |->
                         IF i \in v THEN Op(it[v \ {i}], q[i]) ELSE it[v]]
    OBVIOUS
  <2>3. ASSUME NEW v \in SUBSET (1..i)
        PROVE  jt[v] = IF v = {} THEN s0 ELSE Op(jt[v \ {Max(v)}], q[Max(v)])
    <3>1. CASE i \in v
      <4>1. Max(v) = i
        <5>1. i \in Nat /\ \A x \in 1..i : x <= i /\ (i <= x => x = i)
          OBVIOUS
        <5>2. Max(v) \in v /\ \A x \in v : x <= Max(v)
          BY <3>1, <5>1, MaxOf
        <5>q. QED BY <3>1, <5>1, <5>2
      <4>2. v \ {i} \in SUBSET (1..i) /\ i \notin v \ {i}
        OBVIOUS
      <4>3. jt[v \ {i}] = it[v \ {i}]
        BY <2>2, <4>2
      <4>4. jt[v] = Op(it[v \ {i}], q[i])
        BY <2>2, <3>1
      <4>q. QED BY ONLY <3>1, <4>1, <4>3, <4>4
    <3>2. CASE i \notin v
      <4>1. v \in SUBSET (1..(i - 1))
        BY <3>2
      <4>2. jt[v] = it[v]
        BY <2>2, <3>2
      <4>3. it[v] = IF v = {} THEN s0 ELSE Op(it[v \ {Max(v)}], q[Max(v)])
        BY <2>1, <4>1
      <4>4. v \ {Max(v)} \in SUBSET (1..i) /\ i \notin v \ {Max(v)}
        BY <3>2
      <4>5. jt[v \ {Max(v)}] = it[v \ {Max(v)}]
        BY <2>2, <4>4
      <4>q. QED BY ONLY <4>2, <4>3, <4>5
    <3>q. QED BY <3>1, <3>2
  <2>4. D(i, jt)
    BY ONLY <2>2, <2>3
  <2>5. i \in 0..n /\ \E kt : D(i, kt)
    <3>. HIDE DEF D
    <3>q. QED BY <2>4
  <2>. HIDE DEF D
  <2>q. QED BY <2>5
<1>3. n \in Has
  <2>1. \A i \in 0..n : i \in Has
    <3>1. n \in Nat /\ \A i \in 1..n : i - 1 \in Has => i \in Has
      BY <1>2
    <3>. HIDE DEF Has
    <3>q. QED BY ONLY <1>1, <3>1, Induct
  <2>2. n \in 0..n
    OBVIOUS
  <2>. HIDE DEF Has
  <2>q. QED BY <2>1, <2>2
<1>4. \E jt : D(n, jt)
  BY <1>3
<1>. DEFINE it == CHOOSE jt : D(n, jt)
<1>5. D(n, it)
  <2>. HIDE DEF D
  <2>q. QED BY <1>4
<1>6. t = it[1..n]
  BY DEF LaidAll, FoldLeft, MapThenFoldSet
<1>. HIDE DEF it
<1>7. \A i \in 1..n : Max(1..i) = i /\ (1..i) \ {i} = 1..(i - 1)
  BY LastOf
<1>8. \A i \in 1..n : it[1..i] = Op(it[1..(i - 1)], q[i])
  <2>1. ASSUME NEW i \in 1..n PROVE it[1..i] = Op(it[1..(i - 1)], q[i])
    <3>1. 1..i \in SUBSET (1..n) /\ 1..i # {}
      <4>1. i \in 1..i /\ i <= n
        OBVIOUS
      <4>2. 1..i \subseteq 1..n
        BY ONLY <4>1, n \in Nat, i \in 1..n
      <4>q. QED BY ONLY <4>1, <4>2
    <3>2. \A v \in SUBSET (1..n) : v # {} => it[v] = Op(it[v \ {Max(v)}], q[Max(v)])
      BY <1>5
    <3>3. it[1..i] = Op(it[(1..i) \ {Max(1..i)}], q[Max(1..i)])
      BY ONLY <3>1, <3>2
    <3>4. Max(1..i) = i /\ (1..i) \ {i} = 1..(i - 1)
      BY <1>7
    <3>q. QED BY ONLY <3>3, <3>4
  <2>q. QED BY <2>1
<1>9. PICK f : f = [i \in 0..n |-> it[1..i]]
  OBVIOUS
<1>10. f[0] = s0
  <2>1. 1..0 = {} /\ 0 \in 0..n
    OBVIOUS
  <2>q. QED BY <1>5, <1>9, <2>1
<1>11. ASSUME NEW i \in 1..n PROVE f[i] = Op(f[i - 1], q[i])
  <2>1. i \in 0..n /\ i - 1 \in 0..n
    OBVIOUS
  <2>2. f[i] = it[1..i] /\ f[i - 1] = it[1..(i - 1)]
    BY <1>9, <2>1
  <2>q. QED BY ONLY <1>8, <2>2
<1>12. f[n] = it[1..n]
  BY <1>9
<1>q. QED BY <1>6, <1>10, <1>11, <1>12 DEF LaidAllRun

Categories(s0, q) == FoldLeft(SeedCategory, s0, q)

\* t is the last of n values, each made of the one before it.
CategoriesRun(s0, q, n, t) ==
  \E f : f[0] = s0 /\ (\A i \in 1..n : f[i] = SeedCategory(f[i - 1], q[i])) /\ t = f[n]

\* The entries of the categories file, one after the other.
LEMMA CategoryFold ==
  ASSUME NEW s0, NEW q, NEW n \in Nat, DOMAIN q = 1..n, NEW t, t = Categories(s0, q)
  PROVE  CategoriesRun(s0, q, n, t)
<1>. DEFINE Op(s, d) == SeedCategory(s, d)
            D(i, it) == it = [v \in SUBSET (1..i) |->
                               IF v = {} THEN s0 ELSE Op(it[v \ {Max(v)}], q[Max(v)])]
            Has == {i \in 0..n : \E it : D(i, it)}
<1>1. 0 \in Has
  <2>1. D(0, [v \in SUBSET (1..0) |-> s0])
    <3>1. \A v \in SUBSET (1..0) : v = {}
      OBVIOUS
    <3>q. QED BY <3>1
  <2>q. QED BY <2>1
<1>2. ASSUME NEW i \in 1..n, i - 1 \in Has PROVE i \in Has
  <2>1. PICK it : D(i - 1, it)
    BY <1>2
  <2>2. PICK jt : jt = [v \in SUBSET (1..i) |->
                         IF i \in v THEN Op(it[v \ {i}], q[i]) ELSE it[v]]
    OBVIOUS
  <2>3. ASSUME NEW v \in SUBSET (1..i)
        PROVE  jt[v] = IF v = {} THEN s0 ELSE Op(jt[v \ {Max(v)}], q[Max(v)])
    <3>1. CASE i \in v
      <4>1. Max(v) = i
        <5>1. i \in Nat /\ \A x \in 1..i : x <= i /\ (i <= x => x = i)
          OBVIOUS
        <5>2. Max(v) \in v /\ \A x \in v : x <= Max(v)
          BY <3>1, <5>1, MaxOf
        <5>q. QED BY <3>1, <5>1, <5>2
      <4>2. v \ {i} \in SUBSET (1..i) /\ i \notin v \ {i}
        OBVIOUS
      <4>3. jt[v \ {i}] = it[v \ {i}]
        BY <2>2, <4>2
      <4>4. jt[v] = Op(it[v \ {i}], q[i])
        BY <2>2, <3>1
      <4>q. QED BY ONLY <3>1, <4>1, <4>3, <4>4
    <3>2. CASE i \notin v
      <4>1. v \in SUBSET (1..(i - 1))
        BY <3>2
      <4>2. jt[v] = it[v]
        BY <2>2, <3>2
      <4>3. it[v] = IF v = {} THEN s0 ELSE Op(it[v \ {Max(v)}], q[Max(v)])
        BY <2>1, <4>1
      <4>4. v \ {Max(v)} \in SUBSET (1..i) /\ i \notin v \ {Max(v)}
        BY <3>2
      <4>5. jt[v \ {Max(v)}] = it[v \ {Max(v)}]
        BY <2>2, <4>4
      <4>q. QED BY ONLY <4>2, <4>3, <4>5
    <3>q. QED BY <3>1, <3>2
  <2>4. D(i, jt)
    BY ONLY <2>2, <2>3
  <2>5. i \in 0..n /\ \E kt : D(i, kt)
    <3>. HIDE DEF D
    <3>q. QED BY <2>4
  <2>. HIDE DEF D
  <2>q. QED BY <2>5
<1>3. n \in Has
  <2>1. \A i \in 0..n : i \in Has
    <3>1. n \in Nat /\ \A i \in 1..n : i - 1 \in Has => i \in Has
      BY <1>2
    <3>. HIDE DEF Has
    <3>q. QED BY ONLY <1>1, <3>1, Induct
  <2>2. n \in 0..n
    OBVIOUS
  <2>. HIDE DEF Has
  <2>q. QED BY <2>1, <2>2
<1>4. \E jt : D(n, jt)
  BY <1>3
<1>. DEFINE it == CHOOSE jt : D(n, jt)
<1>5. D(n, it)
  <2>. HIDE DEF D
  <2>q. QED BY <1>4
<1>6. t = it[1..n]
  BY DEF Categories, FoldLeft, MapThenFoldSet
<1>. HIDE DEF it
<1>7. \A i \in 1..n : Max(1..i) = i /\ (1..i) \ {i} = 1..(i - 1)
  BY LastOf
<1>8. \A i \in 1..n : it[1..i] = Op(it[1..(i - 1)], q[i])
  <2>1. ASSUME NEW i \in 1..n PROVE it[1..i] = Op(it[1..(i - 1)], q[i])
    <3>1. 1..i \in SUBSET (1..n) /\ 1..i # {}
      <4>1. i \in 1..i /\ i <= n
        OBVIOUS
      <4>2. 1..i \subseteq 1..n
        BY ONLY <4>1, n \in Nat, i \in 1..n
      <4>q. QED BY ONLY <4>1, <4>2
    <3>2. \A v \in SUBSET (1..n) : v # {} => it[v] = Op(it[v \ {Max(v)}], q[Max(v)])
      BY <1>5
    <3>3. it[1..i] = Op(it[(1..i) \ {Max(1..i)}], q[Max(1..i)])
      BY ONLY <3>1, <3>2
    <3>4. Max(1..i) = i /\ (1..i) \ {i} = 1..(i - 1)
      BY <1>7
    <3>q. QED BY ONLY <3>3, <3>4
  <2>q. QED BY <2>1
<1>9. PICK f : f = [i \in 0..n |-> it[1..i]]
  OBVIOUS
<1>10. f[0] = s0
  <2>1. 1..0 = {} /\ 0 \in 0..n
    OBVIOUS
  <2>q. QED BY <1>5, <1>9, <2>1
<1>11. ASSUME NEW i \in 1..n PROVE f[i] = Op(f[i - 1], q[i])
  <2>1. i \in 0..n /\ i - 1 \in 0..n
    OBVIOUS
  <2>2. f[i] = it[1..i] /\ f[i - 1] = it[1..(i - 1)]
    BY <1>9, <2>1
  <2>q. QED BY ONLY <1>8, <2>2
<1>12. f[n] = it[1..n]
  BY <1>9
<1>q. QED BY <1>6, <1>10, <1>11, <1>12 DEF CategoriesRun

Documents(s0, q) == FoldLeft(SeedDocument, s0, q)

\* t is the last of n values, each made of the one before it.
DocumentsRun(s0, q, n, t) ==
  \E f : f[0] = s0 /\ (\A i \in 1..n : f[i] = SeedDocument(f[i - 1], q[i])) /\ t = f[n]

\* The entries of the documentation file, one after the other.
LEMMA DocumentFold ==
  ASSUME NEW s0, NEW q, NEW n \in Nat, DOMAIN q = 1..n, NEW t, t = Documents(s0, q)
  PROVE  DocumentsRun(s0, q, n, t)
<1>. DEFINE Op(s, d) == SeedDocument(s, d)
            D(i, it) == it = [v \in SUBSET (1..i) |->
                               IF v = {} THEN s0 ELSE Op(it[v \ {Max(v)}], q[Max(v)])]
            Has == {i \in 0..n : \E it : D(i, it)}
<1>1. 0 \in Has
  <2>1. D(0, [v \in SUBSET (1..0) |-> s0])
    <3>1. \A v \in SUBSET (1..0) : v = {}
      OBVIOUS
    <3>q. QED BY <3>1
  <2>q. QED BY <2>1
<1>2. ASSUME NEW i \in 1..n, i - 1 \in Has PROVE i \in Has
  <2>1. PICK it : D(i - 1, it)
    BY <1>2
  <2>2. PICK jt : jt = [v \in SUBSET (1..i) |->
                         IF i \in v THEN Op(it[v \ {i}], q[i]) ELSE it[v]]
    OBVIOUS
  <2>3. ASSUME NEW v \in SUBSET (1..i)
        PROVE  jt[v] = IF v = {} THEN s0 ELSE Op(jt[v \ {Max(v)}], q[Max(v)])
    <3>1. CASE i \in v
      <4>1. Max(v) = i
        <5>1. i \in Nat /\ \A x \in 1..i : x <= i /\ (i <= x => x = i)
          OBVIOUS
        <5>2. Max(v) \in v /\ \A x \in v : x <= Max(v)
          BY <3>1, <5>1, MaxOf
        <5>q. QED BY <3>1, <5>1, <5>2
      <4>2. v \ {i} \in SUBSET (1..i) /\ i \notin v \ {i}
        OBVIOUS
      <4>3. jt[v \ {i}] = it[v \ {i}]
        BY <2>2, <4>2
      <4>4. jt[v] = Op(it[v \ {i}], q[i])
        BY <2>2, <3>1
      <4>q. QED BY ONLY <3>1, <4>1, <4>3, <4>4
    <3>2. CASE i \notin v
      <4>1. v \in SUBSET (1..(i - 1))
        BY <3>2
      <4>2. jt[v] = it[v]
        BY <2>2, <3>2
      <4>3. it[v] = IF v = {} THEN s0 ELSE Op(it[v \ {Max(v)}], q[Max(v)])
        BY <2>1, <4>1
      <4>4. v \ {Max(v)} \in SUBSET (1..i) /\ i \notin v \ {Max(v)}
        BY <3>2
      <4>5. jt[v \ {Max(v)}] = it[v \ {Max(v)}]
        BY <2>2, <4>4
      <4>q. QED BY ONLY <4>2, <4>3, <4>5
    <3>q. QED BY <3>1, <3>2
  <2>4. D(i, jt)
    BY ONLY <2>2, <2>3
  <2>5. i \in 0..n /\ \E kt : D(i, kt)
    <3>. HIDE DEF D
    <3>q. QED BY <2>4
  <2>. HIDE DEF D
  <2>q. QED BY <2>5
<1>3. n \in Has
  <2>1. \A i \in 0..n : i \in Has
    <3>1. n \in Nat /\ \A i \in 1..n : i - 1 \in Has => i \in Has
      BY <1>2
    <3>. HIDE DEF Has
    <3>q. QED BY ONLY <1>1, <3>1, Induct
  <2>2. n \in 0..n
    OBVIOUS
  <2>. HIDE DEF Has
  <2>q. QED BY <2>1, <2>2
<1>4. \E jt : D(n, jt)
  BY <1>3
<1>. DEFINE it == CHOOSE jt : D(n, jt)
<1>5. D(n, it)
  <2>. HIDE DEF D
  <2>q. QED BY <1>4
<1>6. t = it[1..n]
  BY DEF Documents, FoldLeft, MapThenFoldSet
<1>. HIDE DEF it
<1>7. \A i \in 1..n : Max(1..i) = i /\ (1..i) \ {i} = 1..(i - 1)
  BY LastOf
<1>8. \A i \in 1..n : it[1..i] = Op(it[1..(i - 1)], q[i])
  <2>1. ASSUME NEW i \in 1..n PROVE it[1..i] = Op(it[1..(i - 1)], q[i])
    <3>1. 1..i \in SUBSET (1..n) /\ 1..i # {}
      <4>1. i \in 1..i /\ i <= n
        OBVIOUS
      <4>2. 1..i \subseteq 1..n
        BY ONLY <4>1, n \in Nat, i \in 1..n
      <4>q. QED BY ONLY <4>1, <4>2
    <3>2. \A v \in SUBSET (1..n) : v # {} => it[v] = Op(it[v \ {Max(v)}], q[Max(v)])
      BY <1>5
    <3>3. it[1..i] = Op(it[(1..i) \ {Max(1..i)}], q[Max(1..i)])
      BY ONLY <3>1, <3>2
    <3>4. Max(1..i) = i /\ (1..i) \ {i} = 1..(i - 1)
      BY <1>7
    <3>q. QED BY ONLY <3>3, <3>4
  <2>q. QED BY <2>1
<1>9. PICK f : f = [i \in 0..n |-> it[1..i]]
  OBVIOUS
<1>10. f[0] = s0
  <2>1. 1..0 = {} /\ 0 \in 0..n
    OBVIOUS
  <2>q. QED BY <1>5, <1>9, <2>1
<1>11. ASSUME NEW i \in 1..n PROVE f[i] = Op(f[i - 1], q[i])
  <2>1. i \in 0..n /\ i - 1 \in 0..n
    OBVIOUS
  <2>2. f[i] = it[1..i] /\ f[i - 1] = it[1..(i - 1)]
    BY <1>9, <2>1
  <2>q. QED BY ONLY <1>8, <2>2
<1>12. f[n] = it[1..n]
  BY <1>9
<1>q. QED BY <1>6, <1>10, <1>11, <1>12 DEF DocumentsRun

Swept(stores, q) == FoldLeft(LAMBDA each, d : UNION {ReconcileDevice(s, d) : s \in each}, stores, q)

\* t is the last of n values, each made of the one before it.
SweptRun(stores, q, n, t) ==
  \E f : f[0] = stores /\ (\A i \in 1..n : f[i] = EachReconciled(f[i - 1], q[i])) /\ t = f[n]

\* The devices of a sweep, one after the other (reconcile_sweep).
LEMMA SweepFold ==
  ASSUME NEW stores, NEW q, NEW n \in Nat, DOMAIN q = 1..n, NEW t, t = Swept(stores, q)
  PROVE  SweptRun(stores, q, n, t)
<1>. DEFINE Op(s, d) == EachReconciled(s, d)
            D(i, it) == it = [v \in SUBSET (1..i) |->
                               IF v = {} THEN stores ELSE Op(it[v \ {Max(v)}], q[Max(v)])]
            Has == {i \in 0..n : \E it : D(i, it)}
<1>1. 0 \in Has
  <2>1. D(0, [v \in SUBSET (1..0) |-> stores])
    <3>1. \A v \in SUBSET (1..0) : v = {}
      OBVIOUS
    <3>q. QED BY <3>1
  <2>q. QED BY <2>1
<1>2. ASSUME NEW i \in 1..n, i - 1 \in Has PROVE i \in Has
  <2>1. PICK it : D(i - 1, it)
    BY <1>2
  <2>2. PICK jt : jt = [v \in SUBSET (1..i) |->
                         IF i \in v THEN Op(it[v \ {i}], q[i]) ELSE it[v]]
    OBVIOUS
  <2>3. ASSUME NEW v \in SUBSET (1..i)
        PROVE  jt[v] = IF v = {} THEN stores ELSE Op(jt[v \ {Max(v)}], q[Max(v)])
    <3>1. CASE i \in v
      <4>1. Max(v) = i
        <5>1. i \in Nat /\ \A x \in 1..i : x <= i /\ (i <= x => x = i)
          OBVIOUS
        <5>2. Max(v) \in v /\ \A x \in v : x <= Max(v)
          BY <3>1, <5>1, MaxOf
        <5>q. QED BY <3>1, <5>1, <5>2
      <4>2. v \ {i} \in SUBSET (1..i) /\ i \notin v \ {i}
        OBVIOUS
      <4>3. jt[v \ {i}] = it[v \ {i}]
        BY <2>2, <4>2
      <4>4. jt[v] = Op(it[v \ {i}], q[i])
        BY <2>2, <3>1
      <4>q. QED BY ONLY <3>1, <4>1, <4>3, <4>4
    <3>2. CASE i \notin v
      <4>1. v \in SUBSET (1..(i - 1))
        BY <3>2
      <4>2. jt[v] = it[v]
        BY <2>2, <3>2
      <4>3. it[v] = IF v = {} THEN stores ELSE Op(it[v \ {Max(v)}], q[Max(v)])
        BY <2>1, <4>1
      <4>4. v \ {Max(v)} \in SUBSET (1..i) /\ i \notin v \ {Max(v)}
        BY <3>2
      <4>5. jt[v \ {Max(v)}] = it[v \ {Max(v)}]
        BY <2>2, <4>4
      <4>q. QED BY ONLY <4>2, <4>3, <4>5
    <3>q. QED BY <3>1, <3>2
  <2>4. D(i, jt)
    BY ONLY <2>2, <2>3
  <2>5. i \in 0..n /\ \E kt : D(i, kt)
    <3>. HIDE DEF D
    <3>q. QED BY <2>4
  <2>. HIDE DEF D
  <2>q. QED BY <2>5
<1>3. n \in Has
  <2>1. \A i \in 0..n : i \in Has
    <3>1. n \in Nat /\ \A i \in 1..n : i - 1 \in Has => i \in Has
      BY <1>2
    <3>. HIDE DEF Has
    <3>q. QED BY ONLY <1>1, <3>1, Induct
  <2>2. n \in 0..n
    OBVIOUS
  <2>. HIDE DEF Has
  <2>q. QED BY <2>1, <2>2
<1>4. \E jt : D(n, jt)
  BY <1>3
<1>. DEFINE it == CHOOSE jt : D(n, jt)
<1>5. D(n, it)
  <2>. HIDE DEF D
  <2>q. QED BY <1>4
<1>6. t = it[1..n]
  BY DEF Swept, FoldLeft, MapThenFoldSet, EachReconciled
<1>. HIDE DEF it
<1>7. \A i \in 1..n : Max(1..i) = i /\ (1..i) \ {i} = 1..(i - 1)
  BY LastOf
<1>8. \A i \in 1..n : it[1..i] = Op(it[1..(i - 1)], q[i])
  <2>1. ASSUME NEW i \in 1..n PROVE it[1..i] = Op(it[1..(i - 1)], q[i])
    <3>1. 1..i \in SUBSET (1..n) /\ 1..i # {}
      <4>1. i \in 1..i /\ i <= n
        OBVIOUS
      <4>2. 1..i \subseteq 1..n
        BY ONLY <4>1, n \in Nat, i \in 1..n
      <4>q. QED BY ONLY <4>1, <4>2
    <3>2. \A v \in SUBSET (1..n) : v # {} => it[v] = Op(it[v \ {Max(v)}], q[Max(v)])
      BY <1>5
    <3>3. it[1..i] = Op(it[(1..i) \ {Max(1..i)}], q[Max(1..i)])
      BY ONLY <3>1, <3>2
    <3>4. Max(1..i) = i /\ (1..i) \ {i} = 1..(i - 1)
      BY <1>7
    <3>q. QED BY ONLY <3>3, <3>4
  <2>q. QED BY <2>1
<1>9. PICK f : f = [i \in 0..n |-> it[1..i]]
  OBVIOUS
<1>10. f[0] = stores
  <2>1. 1..0 = {} /\ 0 \in 0..n
    OBVIOUS
  <2>q. QED BY <1>5, <1>9, <2>1
<1>11. ASSUME NEW i \in 1..n PROVE f[i] = Op(f[i - 1], q[i])
  <2>1. i \in 0..n /\ i - 1 \in 0..n
    OBVIOUS
  <2>2. f[i] = it[1..i] /\ f[i - 1] = it[1..(i - 1)]
    BY <1>9, <2>1
  <2>q. QED BY ONLY <1>8, <2>2
<1>12. f[n] = it[1..n]
  BY <1>9
<1>q. QED BY <1>6, <1>10, <1>11, <1>12 DEF SweptRun

EnteredAll(entries, q) == FoldLeft(Entered, entries, q)

\* t is the last of n values, each made of the one before it.
EnteredAllRun(entries, q, n, t) ==
  \E f : f[0] = entries /\ (\A i \in 1..n : f[i] = Entered(f[i - 1], q[i])) /\ t = f[n]

\* The observations, entered one after the other (aggregate_and_classify).
LEMMA EnteredFold ==
  ASSUME NEW entries, NEW q, NEW n \in Nat, DOMAIN q = 1..n, NEW t, t = EnteredAll(entries, q)
  PROVE  EnteredAllRun(entries, q, n, t)
<1>. DEFINE Op(s, d) == Entered(s, d)
            D(i, it) == it = [v \in SUBSET (1..i) |->
                               IF v = {} THEN entries ELSE Op(it[v \ {Max(v)}], q[Max(v)])]
            Has == {i \in 0..n : \E it : D(i, it)}
<1>1. 0 \in Has
  <2>1. D(0, [v \in SUBSET (1..0) |-> entries])
    <3>1. \A v \in SUBSET (1..0) : v = {}
      OBVIOUS
    <3>q. QED BY <3>1
  <2>q. QED BY <2>1
<1>2. ASSUME NEW i \in 1..n, i - 1 \in Has PROVE i \in Has
  <2>1. PICK it : D(i - 1, it)
    BY <1>2
  <2>2. PICK jt : jt = [v \in SUBSET (1..i) |->
                         IF i \in v THEN Op(it[v \ {i}], q[i]) ELSE it[v]]
    OBVIOUS
  <2>3. ASSUME NEW v \in SUBSET (1..i)
        PROVE  jt[v] = IF v = {} THEN entries ELSE Op(jt[v \ {Max(v)}], q[Max(v)])
    <3>1. CASE i \in v
      <4>1. Max(v) = i
        <5>1. i \in Nat /\ \A x \in 1..i : x <= i /\ (i <= x => x = i)
          OBVIOUS
        <5>2. Max(v) \in v /\ \A x \in v : x <= Max(v)
          BY <3>1, <5>1, MaxOf
        <5>q. QED BY <3>1, <5>1, <5>2
      <4>2. v \ {i} \in SUBSET (1..i) /\ i \notin v \ {i}
        OBVIOUS
      <4>3. jt[v \ {i}] = it[v \ {i}]
        BY <2>2, <4>2
      <4>4. jt[v] = Op(it[v \ {i}], q[i])
        BY <2>2, <3>1
      <4>q. QED BY ONLY <3>1, <4>1, <4>3, <4>4
    <3>2. CASE i \notin v
      <4>1. v \in SUBSET (1..(i - 1))
        BY <3>2
      <4>2. jt[v] = it[v]
        BY <2>2, <3>2
      <4>3. it[v] = IF v = {} THEN entries ELSE Op(it[v \ {Max(v)}], q[Max(v)])
        BY <2>1, <4>1
      <4>4. v \ {Max(v)} \in SUBSET (1..i) /\ i \notin v \ {Max(v)}
        BY <3>2
      <4>5. jt[v \ {Max(v)}] = it[v \ {Max(v)}]
        BY <2>2, <4>4
      <4>q. QED BY ONLY <4>2, <4>3, <4>5
    <3>q. QED BY <3>1, <3>2
  <2>4. D(i, jt)
    BY ONLY <2>2, <2>3
  <2>5. i \in 0..n /\ \E kt : D(i, kt)
    <3>. HIDE DEF D
    <3>q. QED BY <2>4
  <2>. HIDE DEF D
  <2>q. QED BY <2>5
<1>3. n \in Has
  <2>1. \A i \in 0..n : i \in Has
    <3>1. n \in Nat /\ \A i \in 1..n : i - 1 \in Has => i \in Has
      BY <1>2
    <3>. HIDE DEF Has
    <3>q. QED BY ONLY <1>1, <3>1, Induct
  <2>2. n \in 0..n
    OBVIOUS
  <2>. HIDE DEF Has
  <2>q. QED BY <2>1, <2>2
<1>4. \E jt : D(n, jt)
  BY <1>3
<1>. DEFINE it == CHOOSE jt : D(n, jt)
<1>5. D(n, it)
  <2>. HIDE DEF D
  <2>q. QED BY <1>4
<1>6. t = it[1..n]
  BY DEF EnteredAll, FoldLeft, MapThenFoldSet
<1>. HIDE DEF it
<1>7. \A i \in 1..n : Max(1..i) = i /\ (1..i) \ {i} = 1..(i - 1)
  BY LastOf
<1>8. \A i \in 1..n : it[1..i] = Op(it[1..(i - 1)], q[i])
  <2>1. ASSUME NEW i \in 1..n PROVE it[1..i] = Op(it[1..(i - 1)], q[i])
    <3>1. 1..i \in SUBSET (1..n) /\ 1..i # {}
      <4>1. i \in 1..i /\ i <= n
        OBVIOUS
      <4>2. 1..i \subseteq 1..n
        BY ONLY <4>1, n \in Nat, i \in 1..n
      <4>q. QED BY ONLY <4>1, <4>2
    <3>2. \A v \in SUBSET (1..n) : v # {} => it[v] = Op(it[v \ {Max(v)}], q[Max(v)])
      BY <1>5
    <3>3. it[1..i] = Op(it[(1..i) \ {Max(1..i)}], q[Max(1..i)])
      BY ONLY <3>1, <3>2
    <3>4. Max(1..i) = i /\ (1..i) \ {i} = 1..(i - 1)
      BY <1>7
    <3>q. QED BY ONLY <3>3, <3>4
  <2>q. QED BY <2>1
<1>9. PICK f : f = [i \in 0..n |-> it[1..i]]
  OBVIOUS
<1>10. f[0] = entries
  <2>1. 1..0 = {} /\ 0 \in 0..n
    OBVIOUS
  <2>q. QED BY <1>5, <1>9, <2>1
<1>11. ASSUME NEW i \in 1..n PROVE f[i] = Op(f[i - 1], q[i])
  <2>1. i \in 0..n /\ i - 1 \in 0..n
    OBVIOUS
  <2>2. f[i] = it[1..i] /\ f[i - 1] = it[1..(i - 1)]
    BY <1>9, <2>1
  <2>q. QED BY ONLY <1>8, <2>2
<1>12. f[n] = it[1..n]
  BY <1>9
<1>q. QED BY <1>6, <1>10, <1>11, <1>12 DEF EnteredAllRun

HubsAdded(found, q) == FoldLeft(AddHub, found, q)

\* t is the last of n values, each made of the one before it.
HubsAddedRun(found, q, n, t) ==
  \E f : f[0] = found /\ (\A i \in 1..n : f[i] = AddHub(f[i - 1], q[i])) /\ t = f[n]

\* The Home Assistant instances, one after the other.
LEMMA HubFold ==
  ASSUME NEW found, NEW q, NEW n \in Nat, DOMAIN q = 1..n, NEW t, t = HubsAdded(found, q)
  PROVE  HubsAddedRun(found, q, n, t)
<1>. DEFINE Op(s, d) == AddHub(s, d)
            D(i, it) == it = [v \in SUBSET (1..i) |->
                               IF v = {} THEN found ELSE Op(it[v \ {Max(v)}], q[Max(v)])]
            Has == {i \in 0..n : \E it : D(i, it)}
<1>1. 0 \in Has
  <2>1. D(0, [v \in SUBSET (1..0) |-> found])
    <3>1. \A v \in SUBSET (1..0) : v = {}
      OBVIOUS
    <3>q. QED BY <3>1
  <2>q. QED BY <2>1
<1>2. ASSUME NEW i \in 1..n, i - 1 \in Has PROVE i \in Has
  <2>1. PICK it : D(i - 1, it)
    BY <1>2
  <2>2. PICK jt : jt = [v \in SUBSET (1..i) |->
                         IF i \in v THEN Op(it[v \ {i}], q[i]) ELSE it[v]]
    OBVIOUS
  <2>3. ASSUME NEW v \in SUBSET (1..i)
        PROVE  jt[v] = IF v = {} THEN found ELSE Op(jt[v \ {Max(v)}], q[Max(v)])
    <3>1. CASE i \in v
      <4>1. Max(v) = i
        <5>1. i \in Nat /\ \A x \in 1..i : x <= i /\ (i <= x => x = i)
          OBVIOUS
        <5>2. Max(v) \in v /\ \A x \in v : x <= Max(v)
          BY <3>1, <5>1, MaxOf
        <5>q. QED BY <3>1, <5>1, <5>2
      <4>2. v \ {i} \in SUBSET (1..i) /\ i \notin v \ {i}
        OBVIOUS
      <4>3. jt[v \ {i}] = it[v \ {i}]
        BY <2>2, <4>2
      <4>4. jt[v] = Op(it[v \ {i}], q[i])
        BY <2>2, <3>1
      <4>q. QED BY ONLY <3>1, <4>1, <4>3, <4>4
    <3>2. CASE i \notin v
      <4>1. v \in SUBSET (1..(i - 1))
        BY <3>2
      <4>2. jt[v] = it[v]
        BY <2>2, <3>2
      <4>3. it[v] = IF v = {} THEN found ELSE Op(it[v \ {Max(v)}], q[Max(v)])
        BY <2>1, <4>1
      <4>4. v \ {Max(v)} \in SUBSET (1..i) /\ i \notin v \ {Max(v)}
        BY <3>2
      <4>5. jt[v \ {Max(v)}] = it[v \ {Max(v)}]
        BY <2>2, <4>4
      <4>q. QED BY ONLY <4>2, <4>3, <4>5
    <3>q. QED BY <3>1, <3>2
  <2>4. D(i, jt)
    BY ONLY <2>2, <2>3
  <2>5. i \in 0..n /\ \E kt : D(i, kt)
    <3>. HIDE DEF D
    <3>q. QED BY <2>4
  <2>. HIDE DEF D
  <2>q. QED BY <2>5
<1>3. n \in Has
  <2>1. \A i \in 0..n : i \in Has
    <3>1. n \in Nat /\ \A i \in 1..n : i - 1 \in Has => i \in Has
      BY <1>2
    <3>. HIDE DEF Has
    <3>q. QED BY ONLY <1>1, <3>1, Induct
  <2>2. n \in 0..n
    OBVIOUS
  <2>. HIDE DEF Has
  <2>q. QED BY <2>1, <2>2
<1>4. \E jt : D(n, jt)
  BY <1>3
<1>. DEFINE it == CHOOSE jt : D(n, jt)
<1>5. D(n, it)
  <2>. HIDE DEF D
  <2>q. QED BY <1>4
<1>6. t = it[1..n]
  BY DEF HubsAdded, FoldLeft, MapThenFoldSet
<1>. HIDE DEF it
<1>7. \A i \in 1..n : Max(1..i) = i /\ (1..i) \ {i} = 1..(i - 1)
  BY LastOf
<1>8. \A i \in 1..n : it[1..i] = Op(it[1..(i - 1)], q[i])
  <2>1. ASSUME NEW i \in 1..n PROVE it[1..i] = Op(it[1..(i - 1)], q[i])
    <3>1. 1..i \in SUBSET (1..n) /\ 1..i # {}
      <4>1. i \in 1..i /\ i <= n
        OBVIOUS
      <4>2. 1..i \subseteq 1..n
        BY ONLY <4>1, n \in Nat, i \in 1..n
      <4>q. QED BY ONLY <4>1, <4>2
    <3>2. \A v \in SUBSET (1..n) : v # {} => it[v] = Op(it[v \ {Max(v)}], q[Max(v)])
      BY <1>5
    <3>3. it[1..i] = Op(it[(1..i) \ {Max(1..i)}], q[Max(1..i)])
      BY ONLY <3>1, <3>2
    <3>4. Max(1..i) = i /\ (1..i) \ {i} = 1..(i - 1)
      BY <1>7
    <3>q. QED BY ONLY <3>3, <3>4
  <2>q. QED BY <2>1
<1>9. PICK f : f = [i \in 0..n |-> it[1..i]]
  OBVIOUS
<1>10. f[0] = found
  <2>1. 1..0 = {} /\ 0 \in 0..n
    OBVIOUS
  <2>q. QED BY <1>5, <1>9, <2>1
<1>11. ASSUME NEW i \in 1..n PROVE f[i] = Op(f[i - 1], q[i])
  <2>1. i \in 0..n /\ i - 1 \in 0..n
    OBVIOUS
  <2>2. f[i] = it[1..i] /\ f[i - 1] = it[1..(i - 1)]
    BY <1>9, <2>1
  <2>q. QED BY ONLY <1>8, <2>2
<1>12. f[n] = it[1..n]
  BY <1>9
<1>q. QED BY <1>6, <1>10, <1>11, <1>12 DEF HubsAddedRun

-----------------------------------------------------------------------------
(* Sets as sequences                                                       *)

Enumerates(q, S) ==
  /\ q \in Seq(S)
  /\ \A x \in S : \E i \in 1..Len(q) : q[i] = x
  /\ \A i, j \in 1..Len(q) : q[i] = q[j] => i = j

\* A sequence of all elements but one, with that one at its end.
LEMMA Extended ==
  ASSUME NEW S, NEW x \in S, NEW q, Enumerates(q, S \ {x})
  PROVE  Enumerates(Append(q, x), S)
<1>1. q \in Seq(S) /\ Len(q) \in Nat /\ \A i \in 1..Len(q) : q[i] \in S \ {x}
  BY SeqMonotonic, ElementOfSeq, LenProperties DEF Enumerates
<1>2. /\ Append(q, x) \in Seq(S) /\ Len(Append(q, x)) = Len(q) + 1
      /\ Append(q, x)[Len(q) + 1] = x
      /\ \A i \in 1..Len(q) : Append(q, x)[i] = q[i]
  BY <1>1
<1>3. \A y \in S : \E i \in 1..(Len(q) + 1) : Append(q, x)[i] = y
  <2>1. ASSUME NEW y \in S PROVE \E i \in 1..(Len(q) + 1) : Append(q, x)[i] = y
    <3>1. CASE y = x
      <4>1. Len(q) + 1 \in 1..(Len(q) + 1)
        BY <1>1
      <4>q. QED BY <1>2, <3>1, <4>1
    <3>2. CASE y # x
      <4>1. PICK i \in 1..Len(q) : q[i] = y
        BY <3>2 DEF Enumerates
      <4>2. i \in 1..(Len(q) + 1)
        BY <1>1
      <4>q. QED BY <1>2, <4>1, <4>2
    <3>q. QED BY <3>1, <3>2
  <2>q. QED BY <2>1
<1>4. ASSUME NEW i \in 1..(Len(q) + 1), NEW j \in 1..(Len(q) + 1),
             Append(q, x)[i] = Append(q, x)[j]
      PROVE  i = j
  <2>1. (i \in 1..Len(q) \/ i = Len(q) + 1) /\ (j \in 1..Len(q) \/ j = Len(q) + 1)
    BY <1>1
  <2>2. \A a, b \in 1..Len(q) : q[a] = q[b] => a = b
    BY DEF Enumerates
  <2>q. QED BY ONLY <1>1, <1>2, <1>4, <2>1, <2>2
<1>q. QED BY <1>2, <1>3, <1>4 DEF Enumerates

\* A fold that appends the elements of a finite set, each chosen by c from those
\* that are left, is defined and lists each of them once.
LEMMA AppendFold ==
  ASSUME NEW S, IsFiniteSet(S), NEW c, \A t \in SUBSET S : t # {} => c[t] \in t
  PROVE  LET D(it) == it = [t \in SUBSET S |->
                             IF t = {} THEN <<>> ELSE Append(it[t \ {c[t]}], c[t])]
         IN  /\ \E it : D(it)
             /\ \A it : D(it) => Enumerates(it[S], S)
<1>. DEFINE D(it) == it = [t \in SUBSET S |->
                            IF t = {} THEN <<>> ELSE Append(it[t \ {c[t]}], c[t])]
            N == Cardinality(S)
            Small(n) == {t \in SUBSET S : Cardinality(t) <= n}
            Part(n, it) == it = [t \in Small(n) |->
                             IF t = {} THEN <<>> ELSE Append(it[t \ {c[t]}], c[t])]
            Has == {n \in 0..N : \E it : Part(n, it)}
<1>0. N \in Nat
  BY FS_CardinalityType
<1>1. \A t \in SUBSET S : IsFiniteSet(t) /\ Cardinality(t) \in Nat /\ Cardinality(t) <= N
  BY FS_Subset, FS_CardinalityType
<1>2. Small(0) = {{}} /\ Small(N) = SUBSET S
  BY <1>1, FS_EmptySet
<1>3. ASSUME NEW n \in 1..N, NEW t \in Small(n), t # {}
      PROVE  t \ {c[t]} \in Small(n - 1) /\ c[t] \in t
  <2>1. t \in SUBSET S /\ c[t] \in t /\ Cardinality(t) <= n
    BY <1>3
  <2>2. Cardinality(t \ {c[t]}) = Cardinality(t) - 1
    BY <2>1, <1>1, FS_RemoveElement
  <2>3. t \ {c[t]} \in SUBSET S /\ Cardinality(t) \in Nat /\ n \in Nat
    BY <2>1, <1>0, <1>1
  <2>q. QED BY <2>1, <2>2, <2>3
<1>4. 0 \in Has
  <2>1. Part(0, [t \in Small(0) |-> <<>>])
    BY ONLY <1>2
  <2>2. 0 \in 0..N /\ \E it : Part(0, it)
    <3>. HIDE DEF Part
    <3>q. QED BY <1>0, <2>1
  <2>q. QED BY <2>2
<1>5. ASSUME NEW n \in 1..N, n - 1 \in Has PROVE n \in Has
  <2>1. PICK it : Part(n - 1, it)
    BY <1>5
  <2>2. PICK jt : jt = [t \in Small(n) |->
                         IF t = {} THEN <<>> ELSE Append(it[t \ {c[t]}], c[t])]
    OBVIOUS
  <2>3. \A t \in Small(n - 1) : t \in Small(n) /\ jt[t] = it[t]
    <3>1. ASSUME NEW t \in Small(n - 1) PROVE t \in Small(n) /\ jt[t] = it[t]
      <4>1. t \in Small(n)
        <5>1. t \in SUBSET S /\ Cardinality(t) <= n - 1 /\ Cardinality(t) \in Nat /\ n \in Nat
          BY <1>0, <1>1
        <5>q. QED BY <5>1
      <4>2. it[t] = IF t = {} THEN <<>> ELSE Append(it[t \ {c[t]}], c[t])
        BY <2>1
      <4>3. jt[t] = IF t = {} THEN <<>> ELSE Append(it[t \ {c[t]}], c[t])
        BY <2>2, <4>1
      <4>q. QED BY ONLY <4>1, <4>2, <4>3
    <3>q. QED BY <3>1
  <2>4. ASSUME NEW t \in Small(n)
        PROVE  jt[t] = IF t = {} THEN <<>> ELSE Append(jt[t \ {c[t]}], c[t])
    <3>1. jt[t] = IF t = {} THEN <<>> ELSE Append(it[t \ {c[t]}], c[t])
      BY <2>2
    <3>2. t # {} => jt[t \ {c[t]}] = it[t \ {c[t]}]
      <4>. HIDE DEF Small
      <4>q. QED BY <1>3, <2>3
    <3>q. QED BY ONLY <3>1, <3>2
  <2>5. Part(n, jt)
    BY ONLY <2>2, <2>4
  <2>6. n \in 0..N /\ \E kt : Part(n, kt)
    <3>. HIDE DEF Part
    <3>q. QED BY <2>5
  <2>. HIDE DEF Part
  <2>q. QED BY <2>6
<1>6. N \in Has
  <2>1. \A n \in 1..N : n - 1 \in Has => n \in Has
    BY <1>5
  <2>2. N \in 0..N
    BY <1>0
  <2>. HIDE DEF Has
  <2>q. QED BY ONLY <1>0, <1>4, <2>1, <2>2, Induct
<1>7. \E it : D(it)
  <2>1. PICK it : Part(N, it)
    BY <1>6
  <2>2. D(it)
    BY ONLY <1>2, <2>1
  <2>. HIDE DEF D
  <2>q. QED BY <2>2
<1>8. ASSUME NEW it, D(it) PROVE Enumerates(it[S], S)
  <2>. DEFINE Good == {n \in 0..N : \A t \in Small(n) : Enumerates(it[t], t)}
  <2>1. 0 \in Good
    <3>1. it[{}] = <<>>
      BY <1>8
    <3>2. Enumerates(<<>>, {})
      BY EmptySeq DEF Enumerates
    <3>3. \A t \in Small(0) : Enumerates(it[t], t)
      BY ONLY <1>2, <3>1, <3>2
    <3>q. QED BY <1>0, <3>3
  <2>2. ASSUME NEW n \in 1..N, n - 1 \in Good PROVE n \in Good
    <3>1. ASSUME NEW t \in Small(n) PROVE Enumerates(it[t], t)
      <4>1. CASE t = {}
        <5>1. it[{}] = <<>>
          BY <1>8
        <5>2. Enumerates(<<>>, {})
          BY EmptySeq DEF Enumerates
        <5>q. QED BY ONLY <4>1, <5>1, <5>2
      <4>2. CASE t # {}
        <5>1. it[t] = Append(it[t \ {c[t]}], c[t])
          BY <1>8, <4>2
        <5>2. t \ {c[t]} \in Small(n - 1) /\ c[t] \in t
          BY <1>3, <4>2
        <5>3. Enumerates(it[t \ {c[t]}], t \ {c[t]})
          BY <2>2, <5>2
        <5>q. QED BY ONLY <5>1, <5>2, <5>3, Extended
      <4>q. QED BY <4>1, <4>2
    <3>2. n \in 0..N
      OBVIOUS
    <3>q. QED BY ONLY <3>1, <3>2
  <2>3. N \in Good
    <3>1. \A n \in 1..N : n - 1 \in Good => n \in Good
      BY <2>2
    <3>2. N \in 0..N
      BY <1>0
    <3>. HIDE DEF Good
    <3>q. QED BY ONLY <1>0, <2>1, <3>1, <3>2, Induct
  <2>4. S \in Small(N)
    BY <1>0
  <2>q. QED BY ONLY <2>3, <2>4
<1>q. QED BY ONLY <1>7, <1>8

\* Listing lists a finite set.
LEMMA ListingIs ==
  ASSUME NEW S, IsFiniteSet(S)
  PROVE  Enumerates(Listing(S), S)
<1>. DEFINE c == [t \in SUBSET S |-> CHOOSE x \in t : TRUE]
            D(it) == it = [t \in SUBSET S |->
                            IF t = {} THEN <<>> ELSE Append(it[t \ {c[t]}], c[t])]
            E(it) == it = [t \in SUBSET S |->
                            IF t = {} THEN <<>>
                            ELSE Append(it[t \ {CHOOSE x \in t : TRUE}], CHOOSE x \in t : TRUE)]
<1>1. \A t \in SUBSET S : c[t] = CHOOSE x \in t : TRUE
  OBVIOUS
<1>2. \A t \in SUBSET S : t # {} => c[t] \in t
  BY <1>1
<1>3. \A it : D(it) <=> E(it)
  <2>. HIDE DEF c
  <2>q. QED BY ONLY <1>1
<1>4. (\E it : D(it)) /\ \A it : D(it) => Enumerates(it[S], S)
  <2>. HIDE DEF c
  <2>q. QED BY <1>2, AppendFold
<1>5. Listing(S) = (CHOOSE it : E(it))[S]
  BY DEF Listing, FoldSet, MapThenFoldSet
<1>6. E(CHOOSE it : E(it))
  <2>. HIDE DEF D, E
  <2>q. QED BY <1>3, <1>4
<1>. HIDE DEF D, E
<1>q. QED BY <1>3, <1>4, <1>5, <1>6

\* A permutation lists its set.
LEMMA PermutationIs ==
  ASSUME NEW S, IsFiniteSet(S), NEW q \in SetToSeqs(S)
  PROVE  Enumerates(q, S)
<1>. DEFINE N == Cardinality(S)
<1>1. N \in Nat
  BY FS_CardinalityType
<1>2. q \in [1..N -> S] /\ \A i, j \in 1..N : i # j => q[i] # q[j]
  BY DEF SetToSeqs
<1>. HIDE DEF N
<1>3. q \in Seq(S) /\ Len(q) = N
  BY <1>1, <1>2
<1>4. q \in Injection(1..N, S)
  BY <1>2 DEF Injection, IsInjective
<1>5. q \in Surjection(1..N, S)
  <2>1. IsFiniteSet(1..N) /\ Cardinality(1..N) = N
    BY <1>1, FS_Interval
  <2>q. QED BY <1>4, <2>1, FS_Injection DEF N
<1>6. \A x \in S : \E i \in 1..N : q[i] = x
  BY <1>5 DEF Surjection
<1>q. QED BY <1>2, <1>3, <1>6 DEF Enumerates

\* Devices whose address is a number or missing have a last one in the order of
\* their addresses.
LEMMA LastDevice ==
  ASSUME NEW S, IsFiniteSet(S), S # {},
         \A d \in S : d.ip = <<>> \/ \E a \in Int : d.ip = <<a>>
  PROVE  \E d \in S : \A e \in S : ~Before(d, e)
<1>1. CASE \E d \in S : d.ip = <<>>
  BY <1>1 DEF Before
<1>2. CASE \A d \in S : d.ip # <<>>
  <2>. DEFINE N == Cardinality(S)
              Has == {n \in 0..N : \A t \in SUBSET S : Cardinality(t) = n /\ t # {} =>
                                     \E d \in t : \A e \in t : e.ip[1] <= d.ip[1]}
  <2>1. N \in Nat /\ \A t \in SUBSET S : IsFiniteSet(t) /\ Cardinality(t) \in Nat
    BY FS_Subset, FS_CardinalityType
  <2>2. 0 \in Has
    BY <2>1, FS_EmptySet
  <2>3. \A d \in S : d.ip[1] \in Int /\ d.ip = <<d.ip[1]>>
    BY <1>2
  <2>4. ASSUME NEW n \in 1..N, n - 1 \in Has PROVE n \in Has
    <3>1. ASSUME NEW t \in SUBSET S, Cardinality(t) = n, NEW x \in t
          PROVE  \E d \in t : \A e \in t : e.ip[1] <= d.ip[1]
      <4>. DEFINE u == t \ {x}
      <4>1. u \in SUBSET S /\ Cardinality(u) = n - 1
        BY <2>1, <3>1, FS_RemoveElement
      <4>2. CASE u = {}
        BY <2>3, <4>2
      <4>3. CASE u # {}
        <5>1. PICK d \in u : \A e \in u : e.ip[1] <= d.ip[1]
          BY <2>4, <4>1, <4>3
        <5>2. \A e \in t : e.ip[1] \in Int /\ (e = x \/ e \in u)
          BY <2>3
        <5>3. CASE x.ip[1] <= d.ip[1]
          BY <5>1, <5>2, <5>3
        <5>4. CASE ~ (x.ip[1] <= d.ip[1])
          <6>1. \A e \in t : e.ip[1] <= x.ip[1]
            BY <5>1, <5>2, <5>4
          <6>q. QED BY <6>1
        <5>q. QED BY <5>3, <5>4
      <4>q. QED BY <4>2, <4>3
    <3>q. QED BY <3>1
  <2>5. N \in Has
    <3>1. \A n \in 1..N : n - 1 \in Has => n \in Has
      BY <2>4
    <3>2. N \in 0..N
      BY <2>1
    <3>. HIDE DEF Has
    <3>q. QED BY ONLY <2>1, <2>2, <3>1, <3>2, Induct
  <2>6. PICK d \in S : \A e \in S : e.ip[1] <= d.ip[1]
    BY <2>5
  <2>7. \A e \in S : ~ (d.ip[1] < e.ip[1])
    BY <2>3, <2>6
  <2>q. QED BY <1>2, <2>7 DEF Before
<1>q. QED BY <1>1, <1>2

\* The devices of a scan, sorted, are those devices.
LEMMA InOrderIs ==
  ASSUME NEW S, IsFiniteSet(S),
         \A d \in S : d.ip = <<>> \/ \E a \in Int : d.ip = <<a>>
  PROVE  Enumerates(InOrder(S), S)
<1>. DEFINE last(t) == CHOOSE d \in t : \A e \in t : ~Before(d, e)
            c == [t \in SUBSET S |-> last(t)]
            D(it) == it = [t \in SUBSET S |->
                            IF t = {} THEN <<>> ELSE Append(it[t \ {c[t]}], c[t])]
            E(it) == it = [t \in SUBSET S |->
                            IF t = {} THEN <<>> ELSE Append(it[t \ {last(t)}], last(t))]
<1>1. \A t \in SUBSET S : c[t] = last(t)
  OBVIOUS
<1>2. ASSUME NEW t \in SUBSET S, t # {} PROVE c[t] \in t
  <2>1. \E d \in t : \A e \in t : ~Before(d, e)
    BY <1>2, LastDevice, FS_Subset
  <2>2. last(t) \in t
    BY ONLY <2>1
  <2>q. QED BY <1>1, <2>2
<1>3. \A it : D(it) <=> E(it)
  <2>. HIDE DEF c, last
  <2>q. QED BY ONLY <1>1
<1>4. (\E it : D(it)) /\ \A it : D(it) => Enumerates(it[S], S)
  <2>. HIDE DEF c
  <2>q. QED BY <1>2, AppendFold
<1>5. InOrder(S) = (CHOOSE it : E(it))[S]
  BY DEF InOrder, MapThenFoldSet
<1>6. E(CHOOSE it : E(it))
  <2>. HIDE DEF D, E
  <2>q. QED BY <1>3, <1>4
<1>. HIDE DEF D, E
<1>q. QED BY <1>3, <1>4, <1>5, <1>6

-----------------------------------------------------------------------------
(* Records                                                                 *)

Fields == {"id", "name", "kind", "ip", "mac", "pure", "active", "ever"}

\* The fields that the proofs speak of, and keys of the form mac:...
IdOf(r) == r.id
IpOf(r) == r.ip
MacOf(r) == r.mac
Active(r) == r.active
Ever(r) == r.ever
MacKey(k) == k[1] = "mac"

\* The device of another module: its key in the files and its id.
DocKey(k) == k[1] \in {"doc", "net-doc"}
DocId(r) == IdOf(r)[1] = "net-doc"

\* What the id of a record without MAC says of its address.
Fits(id, ip) == (id[1] = "net-ip" => ip = <<id[2]>>) /\ (id[1] = "net-raw" => ip = <<>>)

\* A record that is active was active once, and its device id is no store key of
\* the form mac:... or of another module.  What another module has is not on the
\* network.
RecordOK(r) ==
  /\ DOMAIN r = Fields /\ (Active(r) => Ever(r))
  /\ ~MacKey(IdOf(r)) /\ IdOf(r)[1] # "doc"
  /\ MacOf(r) = "none" => Fits(IdOf(r), IpOf(r))
  /\ DocId(r) => MacOf(r) = "none" /\ IpOf(r) = <<>> /\ ~Active(r)

\* r is not below q: it was active when q was, and it has a friendly name and a
\* specific kind when q has.
AtLeast(r, q) ==
  /\ Ever(q) => Ever(r)
  /\ Generic(r.name) => Generic(q.name)
  /\ r.kind = "network-device" => q.kind = "network-device"

\* The store key of a record (record_key).
LEMMA KeyOfIs ==
  ASSUME NEW r
  PROVE  KeyOf(r) = IF MacOf(r) # "none" THEN <<"mac", MacOf(r)>> ELSE IdOf(r)
BY DEF KeyOf, RecordKey, MacOf, IdOf

LEMMA MacKeyIs ==
  ASSUME NEW m
  PROVE  MacKey(<<"mac", m>>)
BY DEF MacKey

\* To be not below is transitive.
LEMMA AtLeastTransitive ==
  ASSUME NEW p, NEW q, NEW r, AtLeast(p, q), AtLeast(q, r)
  PROVE  AtLeast(p, r)
BY DEF AtLeast

\* A merge keeps what either record was (merge_records).
LEMMA MergedIs ==
  ASSUME NEW r, NEW o, RecordOK(r), RecordOK(o),
         MacOf(r) # "none" \/ (IdOf(r) = IdOf(o) /\ MacOf(r) = MacOf(o))
  PROVE  LET m == MergeRecords(r, o)
         IN  /\ RecordOK(m) /\ IdOf(m) = IdOf(r) /\ IpOf(m) = IpOf(r)
             /\ MacOf(m) = IF MacOf(r) = "none" THEN MacOf(o) ELSE MacOf(r)
             /\ Active(m) <=> Active(r) \/ Active(o)
             /\ AtLeast(m, r) /\ AtLeast(m, o)
<1>. DEFINE m == MergeRecords(r, o)
<1>1. /\ DOMAIN m = Fields /\ IdOf(m) = IdOf(r) /\ IpOf(m) = IpOf(r)
      /\ MacOf(m) = IF MacOf(r) = "none" THEN MacOf(o) ELSE MacOf(r)
      /\ Active(m) <=> Active(r) \/ Active(o)
      /\ Ever(m) <=> Ever(r) \/ Active(o) \/ Ever(o)
      /\ m.name = BetterName(r.name, o.name) /\ m.kind = BetterKind(r.kind, o.kind)
  BY DEF RecordOK, Fields, MergeRecords, IdOf, IpOf, MacOf, Active, Ever, MacKey
<1>. HIDE DEF m
<1>2. RecordOK(m)
  BY <1>1 DEF RecordOK, DocId
<1>3. AtLeast(m, r) /\ AtLeast(m, o)
  BY <1>1 DEF AtLeast, BetterName, BetterKind, Generic
<1>q. QED BY <1>1, <1>2, <1>3 DEF m

\* A device that was seen keeps what its record was (reconcile_sweep).
LEMMA UpdatedIs ==
  ASSUME NEW r, NEW d, RecordOK(r), ~DocId(r),
         MacOf(r) = "none" /\ MacOf(d) = "none" => Fits(IdOf(r), IpOf(d))
  PROVE  LET u == Updated(r, d)
         IN  /\ RecordOK(u) /\ IdOf(u) = IdOf(r) /\ IpOf(u) = IpOf(d)
             /\ MacOf(u) = IF MacOf(d) # "none" THEN MacOf(d) ELSE MacOf(r)
             /\ Active(u) <=> Present(d)
             /\ AtLeast(u, r)
<1>. DEFINE u == Updated(r, d)
<1>1. /\ DOMAIN u = Fields /\ IdOf(u) = IdOf(r) /\ IpOf(u) = IpOf(d)
      /\ MacOf(u) = IF MacOf(d) # "none" THEN MacOf(d) ELSE MacOf(r)
      /\ Active(u) <=> Present(d)
      /\ Ever(u) <=> Ever(r) \/ Present(d)
      /\ u.name = BetterName(d.name, r.name) /\ u.kind = BetterKind(d.kind, r.kind)
  BY DEF RecordOK, Fields, Updated, IdOf, IpOf, MacOf, Active, Ever, MacKey
<1>. HIDE DEF u
<1>2. RecordOK(u)
  BY <1>1 DEF RecordOK, DocId
<1>3. AtLeast(u, r)
  BY <1>1 DEF AtLeast, BetterName, BetterKind, Generic
<1>q. QED BY <1>1, <1>2, <1>3 DEF u

\* A record for a device that matched none.
LEMMA NewRecordIs ==
  ASSUME NEW d, ~MacKey(IdOf(d)), ~DocKey(IdOf(d)),
         MacOf(d) = "none" => Fits(IdOf(d), IpOf(d))
  PROVE  LET r == NewRecord(d)
         IN  /\ RecordOK(r) /\ IdOf(r) = IdOf(d) /\ IpOf(r) = IpOf(d) /\ MacOf(r) = MacOf(d)
             /\ Active(r) <=> Present(d)
<1>. DEFINE r == NewRecord(d)
<1>1. /\ DOMAIN r = Fields /\ IdOf(r) = IdOf(d) /\ IpOf(r) = IpOf(d) /\ MacOf(r) = MacOf(d)
      /\ (Active(r) <=> Present(d)) /\ (Ever(r) <=> Present(d))
  BY DEF Fields, NewRecord, IdOf, IpOf, MacOf, Active, Ever
<1>. HIDE DEF r
<1>2. RecordOK(r)
  BY <1>1 DEF RecordOK, DocKey, DocId
<1>q. QED BY <1>1, <1>2 DEF r

\* A text in the place of an address is no address.
LEMMA NoAddressIs ==
  ASSUME NEW kind, NEW text
  PROVE  /\ NoAddress(kind, text) # <<>>
         /\ \A a : NoAddress(kind, text) # <<a>>
         /\ \A a, b : NoAddress(kind, text) # <<a, b>>
<1>1. \A a, b, c : <<a, b, c>> # <<>>
  OBVIOUS
<1>2. \A a, b, c, d : <<a, b, c>> # <<d>>
  OBVIOUS
<1>3. \A a, b, c, d, e : <<a, b, c>> # <<d, e>>
  OBVIOUS
<1>q. QED BY <1>1, <1>2, <1>3 DEF NoAddress

\* A key of the files.
FileKey(k) ==
  /\ MacKey(k) => k = <<"mac", k[2]>> /\ k[2] # "none"
  /\ ~MacKey(k) => k[1] \in NetKinds \cup {"doc"}

\* A seed for a key of the files: it has no plain address, unless that is its id.
LEMMA SeedIs ==
  ASSUME NEW k, NEW name, NEW kind, FileKey(k)
  PROVE  LET r == Seed(k, name, kind)
         IN  /\ RecordOK(r) /\ ~Active(r) /\ Ever(r)
             /\ KeyOf(r) = k \/ k[1] = "doc"
             /\ DocKey(k) <=> DocId(r)
             /\ MacOf(r) # "none" => IpOf(r) = <<>>
             /\ (\E a : IpOf(r) = <<a>>) => IdOf(r)[1] = "net-ip"
<1>. DEFINE r == Seed(k, name, kind)
<1>1. /\ DOMAIN r = Fields /\ ~Active(r) /\ Ever(r)
      /\ IdOf(r) = SeedId(k) /\ IpOf(r) = SeedIp(k)
      /\ MacOf(r) = IF MacKey(k) THEN k[2] ELSE "none"
  BY DEF Seed, Fields, IdOf, IpOf, MacOf, Active, Ever, MacKey
<1>. HIDE DEF r
<1>2. CASE MacKey(k)
  <2>1. IdOf(r) = <<"net-mac", k[2]>> /\ IpOf(r) = <<>> /\ MacOf(r) = k[2] /\ k[2] # "none"
        /\ k = <<"mac", k[2]>> /\ IdOf(r)[1] = "net-mac" /\ k[1] = "mac"
    BY <1>1, <1>2 DEF SeedId, SeedIp, MacKey, NetKinds, FileKey
  <2>2. RecordOK(r)
    BY <1>1, <2>1 DEF RecordOK, MacKey, DocId
  <2>3. KeyOf(r) = k
    BY <2>1, KeyOfIs
  <2>4. \A a : <<>> # <<a>>
    OBVIOUS
  <2>q. QED BY <1>1, <2>1, <2>2, <2>3, <2>4 DEF DocKey, DocId, r
<1>3. CASE k[1] \in NetKinds
  <2>1. IdOf(r) = k /\ MacOf(r) = "none" /\ k[1] # "mac"
    BY <1>1, <1>3 DEF SeedId, MacKey, NetKinds
  <2>2. IpOf(r) = IF k[1] = "net-ip" THEN <<k[2]>> ELSE NoAddress(k[1], k[2])
    BY <1>1, <1>3 DEF SeedIp, NetKinds
  <2>3. RecordOK(r)
    BY <1>1, <1>3, <2>1, <2>2 DEF RecordOK, MacKey, DocId, Fits, NetKinds
  <2>4. KeyOf(r) = k
    BY <2>1, KeyOfIs
  <2>5. DocKey(k) <=> DocId(r)
    BY <1>3, <2>1 DEF DocKey, DocId, NetKinds
  <2>6. (\E a : IpOf(r) = <<a>>) => IdOf(r)[1] = "net-ip"
    BY <2>1, <2>2, NoAddressIs
  <2>q. QED BY <1>1, <2>1, <2>3, <2>4, <2>5, <2>6 DEF r
<1>4. CASE k[1] = "doc"
  <2>1. IdOf(r) = <<"net-doc", k[2]>> /\ IdOf(r)[1] = "net-doc"
        /\ IpOf(r) = <<>> /\ MacOf(r) = "none"
    BY <1>1, <1>4 DEF SeedId, SeedIp, MacKey, NetKinds
  <2>2. RecordOK(r)
    BY <1>1, <2>1 DEF RecordOK, MacKey, DocId, Fits
  <2>3. \A a : <<>> # <<a>>
    OBVIOUS
  <2>q. QED BY <1>1, <1>4, <2>1, <2>2, <2>3 DEF DocKey, DocId, r
<1>q. QED BY <1>2, <1>3, <1>4 DEF FileKey

\* The repair on load keeps the record (load_from_path).
LEMMA RepairedIs ==
  ASSUME NEW r, RecordOK(r)
  PROVE  LET q == Repaired(r)
         IN  /\ RecordOK(q) /\ AtLeast(q, r) /\ KeyOf(q) = KeyOf(r)
             /\ IdOf(q) = IdOf(r) /\ MacOf(q) = MacOf(r)
<1>. DEFINE q == Repaired(r)
<1>1. /\ DOMAIN q = Fields /\ IdOf(q) = IdOf(r) /\ MacOf(q) = MacOf(r) /\ q.name = r.name
      /\ IpOf(q) = IpOf(r)
      /\ q.kind = r.kind /\ Active(q) = Active(r)
      /\ Ever(q) <=> Ever(r) \/ Active(r) \/ ~r.pure
  BY DEF RecordOK, Fields, Repaired, IdOf, IpOf, MacOf, Active, Ever, MacKey
<1>. HIDE DEF q
<1>2. RecordOK(q) /\ AtLeast(q, r) /\ KeyOf(q) = KeyOf(r)
  BY <1>1, KeyOfIs DEF RecordOK, AtLeast, DocId
<1>q. QED BY <1>1, <1>2 DEF q

\* A record that a sweep did not see.
LEMMA MissingIs ==
  ASSUME NEW r, RecordOK(r)
  PROVE  LET q == [r EXCEPT !.active = FALSE]
         IN  /\ RecordOK(q) /\ AtLeast(q, r) /\ KeyOf(q) = KeyOf(r) /\ ~Active(q)
             /\ IdOf(q) = IdOf(r) /\ MacOf(q) = MacOf(r) /\ IpOf(q) = IpOf(r)
<1>. DEFINE q == [r EXCEPT !.active = FALSE]
<1>1. /\ DOMAIN q = Fields /\ IdOf(q) = IdOf(r) /\ MacOf(q) = MacOf(r) /\ q.name = r.name
      /\ q.kind = r.kind /\ ~Active(q) /\ IpOf(q) = IpOf(r) /\ Ever(q) = Ever(r)
  BY DEF RecordOK, Fields, IdOf, IpOf, MacOf, Active, Ever, MacKey
<1>. HIDE DEF q
<1>2. RecordOK(q) /\ AtLeast(q, r) /\ KeyOf(q) = KeyOf(r)
  BY <1>1, KeyOfIs DEF RecordOK, AtLeast, DocId
<1>q. QED BY <1>1, <1>2 DEF q

-----------------------------------------------------------------------------
(* Stores                                                                  *)

\* A key mac:... is the MAC of its record, the devices of other modules are under
\* keys of their own, and no two records share a MAC.
LooseRecords(s) ==
  \A k \in DOMAIN s : /\ RecordOK(s[k]) /\ (MacKey(k) => k = <<"mac", MacOf(s[k])>>)
                      /\ DocKey(k) <=> DocId(s[k])

OneForEachMac(s) ==
  \A j, k \in DOMAIN s : MacOf(s[j]) # "none" /\ MacOf(s[j]) = MacOf(s[k]) => j = k

\* The store in the course of a sweep.
Loose(s) == IsFiniteSet(DOMAIN s) /\ LooseRecords(s) /\ OneForEachMac(s)

\* The store after a cleanup: every record is under its own key.
Keyed(s) ==
  /\ IsFiniteSet(DOMAIN s)
  /\ \A k \in DOMAIN s : RecordOK(s[k]) /\ KeyOf(s[k]) = k

\* The store between sweeps: only the seed of a device of another module is not
\* under its own key.
Canonical(s) ==
  /\ IsFiniteSet(DOMAIN s)
  /\ \A k \in DOMAIN s : /\ RecordOK(s[k]) /\ (KeyOf(s[k]) = k \/ k[1] = "doc")
                         /\ DocKey(k) <=> DocId(s[k])

LEMMA KeyedIsCanonical ==
  ASSUME NEW s, Keyed(s)
  PROVE  Canonical(s)
<1>1. ASSUME NEW k \in DOMAIN s PROVE DocKey(k) <=> DocId(s[k])
  <2>1. RecordOK(s[k]) /\ k = KeyOf(s[k])
    BY DEF Keyed
  <2>. DEFINE r == s[k]
  <2>. HIDE DEF r
  <2>2. CASE MacOf(r) = "none"
    <3>1. k = IdOf(r)
      BY <2>1, <2>2, KeyOfIs DEF r
    <3>q. QED BY <2>1, <3>1 DEF RecordOK, DocKey, DocId, r
  <2>3. CASE MacOf(r) # "none"
    <3>1. k = <<"mac", MacOf(r)>>
      BY <2>1, <2>3, KeyOfIs DEF r
    <3>2. k[1] = "mac"
      BY <3>1
    <3>q. QED BY <2>1, <2>3, <3>2 DEF RecordOK, DocKey, DocId, r
  <2>q. QED BY <2>2, <2>3
<1>q. QED BY <1>1 DEF Keyed, Canonical

\* No record is under the key of another module's device after a cleanup.
LEMMA PlainKey ==
  ASSUME NEW s, Keyed(s), NEW k \in DOMAIN s
  PROVE  k[1] # "doc"
<1>1. KeyOf(s[k]) = k /\ RecordOK(s[k])
  BY DEF Keyed
<1>2. CASE MacOf(s[k]) = "none"
  BY <1>1, <1>2, KeyOfIs DEF RecordOK
<1>3. CASE MacOf(s[k]) # "none"
  <2>1. k = <<"mac", MacOf(s[k])>>
    BY <1>1, <1>3, KeyOfIs
  <2>2. MacKey(k)
    BY <2>1, MacKeyIs
  <2>q. QED BY <2>2 DEF MacKey
<1>q. QED BY <1>2, <1>3

\* A key that is no key of another module's device is that of its record.
LEMMA OwnKey ==
  ASSUME NEW s, Canonical(s), NEW k \in DOMAIN s, MacKey(k) \/ ~DocId(s[k])
  PROVE  KeyOf(s[k]) = k /\ ~DocKey(k) /\ ~DocId(s[k])
BY DEF Canonical, DocKey, MacKey

\* The store between sweeps is one in the course of a sweep.
LEMMA CanonicalIsLoose ==
  ASSUME NEW s, Canonical(s)
  PROVE  Loose(s)
<1>1. ASSUME NEW k \in DOMAIN s, MacKey(k) PROVE k = <<"mac", MacOf(s[k])>>
  <2>1. KeyOf(s[k]) = k /\ ~MacKey(IdOf(s[k]))
    BY <1>1, OwnKey DEF Canonical, RecordOK
  <2>q. QED BY <1>1, <2>1, KeyOfIs
<1>2. LooseRecords(s)
  BY <1>1 DEF Canonical, LooseRecords
<1>3. ASSUME NEW j \in DOMAIN s, NEW k \in DOMAIN s, MacOf(s[j]) # "none", MacOf(s[j]) = MacOf(s[k])
      PROVE  j = k
  <2>1. ~DocId(s[j]) /\ ~DocId(s[k])
    BY <1>3 DEF Canonical, RecordOK
  <2>2. KeyOf(s[j]) = j /\ KeyOf(s[k]) = k
    BY <2>1, OwnKey
  <2>q. QED BY <1>3, <2>2, KeyOfIs
<1>4. OneForEachMac(s)
  BY <1>3 DEF OneForEachMac
<1>q. QED BY <1>2, <1>4 DEF Canonical, Loose

\* A record put under a key leaves the others.
LEMMA WithIs ==
  ASSUME NEW s, NEW k, NEW r
  PROVE  /\ DOMAIN With(s, k, r) = DOMAIN s \cup {k}
         /\ With(s, k, r)[k] = r
         /\ \A j \in DOMAIN s : j # k => With(s, k, r)[j] = s[j]
BY DEF With

\* A record taken out leaves the others.
LEMMA WithoutIs ==
  ASSUME NEW s, NEW k
  PROVE  /\ DOMAIN Without(s, k) = DOMAIN s \ {k}
         /\ \A j \in DOMAIN s : j # k => Without(s, k)[j] = s[j]
BY DEF Without

\* Records that share their key share their id and have no MAC, or are the same.
LEMMA SameKey ==
  ASSUME NEW s, Loose(s), NEW j \in DOMAIN s, NEW k \in DOMAIN s,
         KeyOf(s[j]) = KeyOf(s[k])
  PROVE  IdOf(s[j]) = IdOf(s[k]) /\ MacOf(s[j]) = MacOf(s[k]) /\ (MacOf(s[j]) # "none" => j = k)
<1>1. ~MacKey(IdOf(s[j])) /\ ~MacKey(IdOf(s[k]))
  BY DEF Loose, LooseRecords, RecordOK
<1>2. CASE MacOf(s[j]) # "none"
  <2>1. KeyOf(s[k]) = <<"mac", MacOf(s[j])>>
    BY <1>2, KeyOfIs, MacKeyIs
  <2>2. MacOf(s[k]) # "none"
    BY <1>1, <2>1, KeyOfIs, MacKeyIs
  <2>3. MacOf(s[k]) = MacOf(s[j])
    BY <2>1, <2>2, KeyOfIs, MacKeyIs
  <2>q. QED BY <1>2, <2>3 DEF Loose, OneForEachMac
<1>3. CASE MacOf(s[j]) = "none"
  <2>1. KeyOf(s[k]) = IdOf(s[j])
    BY <1>3, KeyOfIs, MacKeyIs
  <2>2. MacOf(s[k]) = "none"
    BY <1>1, <2>1, KeyOfIs, MacKeyIs
  <2>q. QED BY <1>3, <2>1, <2>2, KeyOfIs, MacKeyIs
<1>q. QED BY <1>2, <1>3

\* Two sequences one after the other.
LEMMA Joined ==
  ASSUME NEW A, NEW B, NEW p \in Seq(A), NEW q \in Seq(B)
  PROVE  /\ p \o q \in Seq(A \cup B) /\ Len(p) \in Nat /\ Len(q) \in Nat
         /\ Len(p \o q) = Len(p) + Len(q)
         /\ \A i \in 1..Len(p) : (p \o q)[i] = p[i] /\ p[i] \in A
         /\ \A i \in 1..Len(q) : (p \o q)[Len(p) + i] = q[i] /\ q[i] \in B
<1>1. p \in Seq(A \cup B) /\ q \in Seq(A \cup B)
  BY SeqMonotonic
<1>2. Len(p) \in Nat /\ Len(q) \in Nat
  BY LenProperties
<1>3. /\ p \o q \in Seq(A \cup B) /\ Len(p \o q) = Len(p) + Len(q)
      /\ \A i \in 1..(Len(p) + Len(q)) :
           (p \o q)[i] = IF i <= Len(p) THEN p[i] ELSE q[i - Len(p)]
  BY <1>1, ConcatProperties
<1>4. \A i \in 1..Len(p) : (p \o q)[i] = p[i]
  BY <1>2, <1>3
<1>5. \A i \in 1..Len(q) : (p \o q)[Len(p) + i] = q[i]
  BY <1>2, <1>3
<1>q. QED BY <1>2, <1>3, <1>4, <1>5, ElementOfSeq

\* The orders of cleanup_duplicates run through the keys.
LEMMA OrdersRun ==
  ASSUME NEW s, IsFiniteSet(DOMAIN s), NEW order \in Orders(s)
  PROVE  /\ Len(order) \in Nat /\ DOMAIN order = 1..Len(order)
         /\ \A i \in 1..Len(order) : order[i] \in DOMAIN s
         /\ \A k \in DOMAIN s : \E i \in 1..Len(order) : order[i] = k
<1>. DEFINE A == DOMAIN s \ Sharing(s)
            B == Sharing(s)
<1>1. A \cup B = DOMAIN s /\ IsFiniteSet(A) /\ IsFiniteSet(B)
  <2>1. B \in SUBSET DOMAIN s /\ A \in SUBSET DOMAIN s
    BY DEF Sharing
  <2>q. QED BY <2>1, FS_Subset
<1>2. PICK p \in SetToSeqs(B) : order = Listing(A) \o p
  BY DEF Orders
<1>3. Enumerates(Listing(A), A) /\ Enumerates(p, B)
  BY <1>1, ListingIs, PermutationIs
<1>. HIDE DEF A, B
<1>. DEFINE q == Listing(A)
<1>. HIDE DEF q
<1>4. q \in Seq(A) /\ p \in Seq(B) /\ order = q \o p
  BY <1>2, <1>3 DEF Enumerates, q
<1>5. /\ order \in Seq(A \cup B) /\ Len(q) \in Nat /\ Len(p) \in Nat
      /\ Len(order) = Len(q) + Len(p)
      /\ \A i \in 1..Len(q) : order[i] = q[i]
      /\ \A i \in 1..Len(p) : order[Len(q) + i] = p[i]
  BY <1>4, Joined
<1>6. ASSUME NEW k \in DOMAIN s PROVE \E i \in 1..Len(order) : order[i] = k
  <2>1. CASE k \in A
    <3>1. PICK i \in 1..Len(q) : q[i] = k
      BY <1>3, <2>1 DEF Enumerates, q
    <3>2. i \in 1..Len(order)
      BY <1>5
    <3>q. QED BY <1>5, <3>1, <3>2
  <2>2. CASE k \in B
    <3>1. PICK i \in 1..Len(p) : p[i] = k
      BY <1>3, <2>2 DEF Enumerates
    <3>2. Len(q) + i \in 1..Len(order)
      BY <1>5
    <3>q. QED BY <1>5, <3>1, <3>2
  <2>q. QED BY <1>1, <2>1, <2>2
<1>7. Len(order) \in Nat /\ DOMAIN order = 1..Len(order)
      /\ \A i \in 1..Len(order) : order[i] \in A \cup B
  BY <1>5, LenProperties, ElementOfSeq
<1>q. QED BY <1>1, <1>6, <1>7

\* What Absorb does to a store whose records are under their keys.
LEMMA AbsorbIs ==
  ASSUME NEW a, NEW r, RecordOK(r), NEW b, b = Absorb(a, r), NEW k, k = KeyOf(r),
         \A x \in DOMAIN a : RecordOK(a[x]) /\ KeyOf(a[x]) = x,
         k \in DOMAIN a => IdOf(a[k]) = IdOf(r) /\ MacOf(a[k]) = MacOf(r)
  PROVE  /\ DOMAIN b = DOMAIN a \cup {k}
         /\ \A x \in DOMAIN a : x # k => b[x] = a[x]
         /\ RecordOK(b[k]) /\ KeyOf(b[k]) = k /\ AtLeast(b[k], r)
         /\ IdOf(b[k]) = IdOf(r) /\ MacOf(b[k]) = MacOf(r)
         /\ k \in DOMAIN a =>
              /\ AtLeast(b[k], a[k]) /\ IpOf(b[k]) = IpOf(a[k])
              /\ Active(b[k]) <=> Active(a[k]) \/ Active(r)
         /\ k \notin DOMAIN a => b[k] = r
<1>1. CASE k \in DOMAIN a
  <2>1. b = [a EXCEPT ![k] = MergeRecords(a[k], r)]
    BY <1>1 DEF Absorb
  <2>2. DOMAIN b = DOMAIN a /\ b[k] = MergeRecords(a[k], r)
        /\ \A x \in DOMAIN a : x # k => b[x] = a[x]
    BY <1>1, <2>1
  <2>3. /\ RecordOK(b[k]) /\ IdOf(b[k]) = IdOf(a[k]) /\ IpOf(b[k]) = IpOf(a[k])
        /\ MacOf(b[k]) = IF MacOf(a[k]) = "none" THEN MacOf(r) ELSE MacOf(a[k])
        /\ Active(b[k]) <=> Active(a[k]) \/ Active(r)
        /\ AtLeast(b[k], a[k]) /\ AtLeast(b[k], r)
    BY <1>1, <2>2, MergedIs
  <2>4. MacOf(b[k]) = MacOf(r) /\ IdOf(b[k]) = IdOf(r)
    BY <1>1, <2>3
  <2>5. KeyOf(b[k]) = k
    BY <2>4, <1>1, KeyOfIs
  <2>6. DOMAIN b = DOMAIN a \cup {k}
    BY <1>1, <2>2
  <2>7. QED BY <1>1, <2>2, <2>3, <2>4, <2>5, <2>6
<1>2. CASE k \notin DOMAIN a
  <2>1. b = With(a, k, r)
    BY <1>2 DEF Absorb
  <2>2. DOMAIN b = DOMAIN a \cup {k} /\ b[k] = r
        /\ \A x \in DOMAIN a : x # k => b[x] = a[x]
    BY <2>1 DEF With
  <2>3. AtLeast(r, r)
    BY DEF AtLeast
  <2>q. QED BY <1>2, <2>2, <2>3
<1>q. QED BY <1>1, <1>2

\* Every record is under its own key, with the address of one of the records that
\* have this key, and at least what all of them are.
LEMMA RekeyedIs ==
  ASSUME NEW s, Loose(s), NEW t \in Rekeyed(s)
  PROVE  /\ Keyed(t)
         /\ DOMAIN t = {KeyOf(s[k]) : k \in DOMAIN s}
         /\ \A k \in DOMAIN s : LET x == KeyOf(s[k])
                                IN  /\ AtLeast(t[x], s[k])
                                    /\ IdOf(t[x]) = IdOf(s[k]) /\ MacOf(t[x]) = MacOf(s[k])
         /\ \A x \in DOMAIN t :
              /\ \E k \in DOMAIN s : KeyOf(s[k]) = x /\ IpOf(t[x]) = IpOf(s[k])
              /\ Active(t[x]) => \E k \in DOMAIN s : KeyOf(s[k]) = x /\ Active(s[k])
<1>1. PICK order \in Orders(s) :
        t = TakenUp(s, order)
  BY Zenon DEF Rekeyed, TakenUp
<1>. DEFINE n == Len(order)
<1>2. /\ n \in Nat /\ DOMAIN order = 1..n
      /\ \A i \in 1..n : order[i] \in DOMAIN s
      /\ \A k \in DOMAIN s : \E i \in 1..n : order[i] = k
  BY OrdersRun DEF Loose
<1>n. n \in Nat /\ DOMAIN order = 1..n
  BY <1>2
<1>t. t = TakenUp(s, order)
  BY <1>1
<1>. HIDE DEF n
<1>r. TakenUpRun(s, order, n, t)
  BY ONLY <1>n, <1>t, AbsorbFold
<1>3. PICK f : /\ f[0] = Empty
               /\ \A i \in 1..n : f[i] = Absorb(f[i - 1], s[order[i]])
               /\ t = f[n]
  BY <1>r DEF TakenUpRun
<1>. DEFINE rec(i) == s[order[i]]
            Own(a) == \A x \in DOMAIN a : RecordOK(a[x]) /\ KeyOf(a[x]) = x
            Dom(a, i) == DOMAIN a = {KeyOf(rec(l)) : l \in 1..i}
            Up(a, i) == \A l \in 1..i : AtLeast(a[KeyOf(rec(l))], rec(l))
            From(a, i) == \A x \in DOMAIN a :
                            /\ \E l \in 1..i : /\ KeyOf(rec(l)) = x /\ IpOf(a[x]) = IpOf(rec(l))
                                               /\ IdOf(a[x]) = IdOf(rec(l))
                                               /\ MacOf(a[x]) = MacOf(rec(l))
                            /\ Active(a[x]) => \E l \in 1..i : KeyOf(rec(l)) = x /\ Active(rec(l))
            Good == {i \in 0..n : Own(f[i]) /\ Dom(f[i], i) /\ Up(f[i], i) /\ From(f[i], i)}
<1>4. 0 \in Good
  <2>1. DOMAIN f[0] = {}
    BY <1>3 DEF Empty
  <2>2. 0 \in 0..n /\ 1..0 = {}
    BY <1>2
  <2>q. QED BY <2>1, <2>2
<1>5. ASSUME NEW i \in 1..n, i - 1 \in Good PROVE i \in Good
  <2>. DEFINE a == f[i - 1]
              b == f[i]
              k == KeyOf(rec(i))
  <2>1. Own(a) /\ Dom(a, i - 1) /\ Up(a, i - 1) /\ From(a, i - 1)
    BY <1>5
  <2>2. i \in Nat /\ i - 1 \in Nat /\ i \in 1..i
        /\ \A l : l \in 1..i <=> l \in 1..(i - 1) \/ l = i
    BY <1>2
  <2>3. b = Absorb(a, rec(i)) /\ order[i] \in DOMAIN s /\ RecordOK(rec(i))
    BY <1>2, <1>3 DEF Loose, LooseRecords
  <2>4. \A l \in 1..(i - 1) : order[l] \in DOMAIN s
    BY <1>2
  <2>5. k \in DOMAIN a => IdOf(a[k]) = IdOf(rec(i)) /\ MacOf(a[k]) = MacOf(rec(i))
    <3>1. SUFFICES ASSUME k \in DOMAIN a PROVE IdOf(a[k]) = IdOf(rec(i)) /\ MacOf(a[k]) = MacOf(rec(i))
      OBVIOUS
    <3>2. PICK l \in 1..(i - 1) : /\ KeyOf(rec(l)) = k /\ IdOf(a[k]) = IdOf(rec(l))
                                  /\ MacOf(a[k]) = MacOf(rec(l))
      BY <2>1, <3>1
    <3>3. order[l] \in DOMAIN s
      BY <2>4
    <3>q. QED BY <2>3, <3>2, <3>3, SameKey
  <2>6. /\ DOMAIN b = DOMAIN a \cup {k}
        /\ \A x \in DOMAIN a : x # k => b[x] = a[x]
        /\ RecordOK(b[k]) /\ KeyOf(b[k]) = k /\ AtLeast(b[k], rec(i))
        /\ IdOf(b[k]) = IdOf(rec(i)) /\ MacOf(b[k]) = MacOf(rec(i))
        /\ k \in DOMAIN a =>
             /\ AtLeast(b[k], a[k]) /\ IpOf(b[k]) = IpOf(a[k])
             /\ Active(b[k]) <=> Active(a[k]) \/ Active(rec(i))
        /\ k \notin DOMAIN a => b[k] = rec(i)
    <3>1. \A x \in DOMAIN a : RecordOK(a[x]) /\ KeyOf(a[x]) = x
      BY <2>1
    <3>2. b = Absorb(a, rec(i)) /\ RecordOK(rec(i))
      BY <2>3
    <3>3. RecordOK(rec(i)) /\ (KeyOf(rec(i)) \in DOMAIN a =>
            IdOf(a[KeyOf(rec(i))]) = IdOf(rec(i)) /\ MacOf(a[KeyOf(rec(i))]) = MacOf(rec(i)))
      BY <2>5, <3>2
    <3>. HIDE DEF a, b, rec
    <3>4. k = KeyOf(rec(i))
      OBVIOUS
    <3>. HIDE DEF k
    <3>q. QED BY ONLY <3>1, <3>2, <3>3, <3>4, AbsorbIs
  <2>. HIDE DEF a, b, k, rec
  <2>7. Own(b)
    BY <2>1, <2>6
  <2>8. Dom(b, i)
    BY <2>1, <2>2, <2>6 DEF k
  <2>9. Up(b, i)
    <3>1. ASSUME NEW l \in 1..i PROVE AtLeast(b[KeyOf(rec(l))], rec(l))
      <4>1. CASE l = i
        BY <2>6, <4>1 DEF k
      <4>2. CASE l \in 1..(i - 1)
        <5>1. AtLeast(a[KeyOf(rec(l))], rec(l)) /\ KeyOf(rec(l)) \in DOMAIN a
          BY <2>1, <4>2
        <5>2. KeyOf(rec(l)) # k => b[KeyOf(rec(l))] = a[KeyOf(rec(l))]
          BY <2>6, <5>1
        <5>3. KeyOf(rec(l)) = k => AtLeast(b[KeyOf(rec(l))], rec(l))
          BY <2>6, <5>1, AtLeastTransitive
        <5>q. QED BY <5>1, <5>2, <5>3
      <4>q. QED BY <2>2, <4>1, <4>2
    <3>q. QED BY <3>1
  <2>10. From(b, i)
    <3>1. ASSUME NEW x \in DOMAIN b
          PROVE  /\ \E l \in 1..i : /\ KeyOf(rec(l)) = x /\ IpOf(b[x]) = IpOf(rec(l))
                                    /\ IdOf(b[x]) = IdOf(rec(l)) /\ MacOf(b[x]) = MacOf(rec(l))
                 /\ Active(b[x]) => \E l \in 1..i : KeyOf(rec(l)) = x /\ Active(rec(l))
      <4>1. CASE x \notin DOMAIN a
        <5>1. x = k /\ b[x] = rec(i)
          BY <2>6, <4>1
        <5>q. QED BY <2>2, <5>1 DEF k
      <4>2. CASE x \in DOMAIN a
        <5>1. /\ \E l \in 1..(i - 1) : /\ KeyOf(rec(l)) = x /\ IpOf(a[x]) = IpOf(rec(l))
                                       /\ IdOf(a[x]) = IdOf(rec(l)) /\ MacOf(a[x]) = MacOf(rec(l))
              /\ Active(a[x]) => \E l \in 1..(i - 1) : KeyOf(rec(l)) = x /\ Active(rec(l))
          BY <2>1, <4>2
        <5>2. CASE x # k
          BY <2>2, <2>6, <4>2, <5>1, <5>2
        <5>3. CASE x = k
          <6>1. IdOf(b[x]) = IdOf(a[x]) /\ MacOf(b[x]) = MacOf(a[x]) /\ IpOf(b[x]) = IpOf(a[x])
            BY <2>5, <2>6, <4>2, <5>3
          <6>2. Active(b[x]) => Active(a[x]) \/ Active(rec(i))
            BY <2>6, <4>2, <5>3
          <6>3. KeyOf(rec(i)) = x
            BY <5>3 DEF k
          <6>q. QED BY <2>2, <5>1, <6>1, <6>2, <6>3
        <5>q. QED BY <5>2, <5>3
      <4>q. QED BY <4>1, <4>2
    <3>q. QED BY <3>1
  <2>11. i \in 0..n
    OBVIOUS
  <2>q. QED BY <2>7, <2>8, <2>9, <2>10, <2>11 DEF b
<1>6. n \in Good
  <2>1. \A i \in 1..n : i - 1 \in Good => i \in Good
    BY <1>5
  <2>2. n \in 0..n
    BY <1>2
  <2>. HIDE DEF Good
  <2>q. QED BY ONLY <1>2, <1>4, <2>1, <2>2, Induct
<1>7. Own(t) /\ Dom(t, n) /\ Up(t, n) /\ From(t, n)
  BY <1>3, <1>6
<1>. HIDE DEF Good
<1>8. DOMAIN t = {KeyOf(s[k]) : k \in DOMAIN s}
  <2>1. \A x : x \in DOMAIN t <=> \E l \in 1..n : x = KeyOf(s[order[l]])
    BY <1>7
  <2>q. QED BY <1>2, <2>1
<1>9. IsFiniteSet(DOMAIN t)
  <2>1. [k \in DOMAIN s |-> KeyOf(s[k])] \in Surjection(DOMAIN s, DOMAIN t)
    BY <1>8 DEF Surjection
  <2>q. QED BY <2>1, FS_Surjection DEF Loose
<1>10. ASSUME NEW k \in DOMAIN s
       PROVE  LET x == KeyOf(s[k])
              IN  AtLeast(t[x], s[k]) /\ IdOf(t[x]) = IdOf(s[k]) /\ MacOf(t[x]) = MacOf(s[k])
  <2>1. PICK i \in 1..n : order[i] = k
    BY <1>2
  <2>2. AtLeast(t[KeyOf(s[k])], s[k]) /\ KeyOf(s[k]) \in DOMAIN t
    BY <1>7, <1>8, <2>1
  <2>3. PICK l \in 1..n : /\ KeyOf(rec(l)) = KeyOf(s[k])
                          /\ IdOf(t[KeyOf(s[k])]) = IdOf(rec(l)) /\ MacOf(t[KeyOf(s[k])]) = MacOf(rec(l))
    BY <1>7, <2>2
  <2>4. order[l] \in DOMAIN s
    BY <1>2
  <2>5. IdOf(rec(l)) = IdOf(s[k]) /\ MacOf(rec(l)) = MacOf(s[k])
    BY <2>3, <2>4, SameKey
  <2>q. QED BY <2>2, <2>3, <2>5
<1>11. \A x \in DOMAIN t :
         /\ \E k \in DOMAIN s : KeyOf(s[k]) = x /\ IpOf(t[x]) = IpOf(s[k])
         /\ Active(t[x]) => \E k \in DOMAIN s : KeyOf(s[k]) = x /\ Active(s[k])
  BY <1>2, <1>7
<1>q. QED BY <1>7, <1>8, <1>9, <1>10, <1>11 DEF Keyed

\* A ghost and the record it is a ghost of.
HasBody(s, g) ==
  \E k \in DOMAIN s : MacOf(s[k]) # "none" /\ IpOf(s[k]) = IpOf(s[g])

\* A ghost is a record without MAC whose address a record with MAC has.
LEMMA GhostsAre ==
  ASSUME NEW s
  PROVE  \A g : g \in Ghosts(s) <=> /\ g \in DOMAIN s /\ MacOf(s[g]) = "none"
                                    /\ IpOf(s[g]) # <<>> /\ HasBody(s, g)
BY DEF Ghosts, MacKeys, HasBody, MacOf, IpOf

\* A ghost that is laid is gone, and its body is not below it.
LEMMA LaidIs ==
  ASSUME NEW a, NEW g \in DOMAIN a, NEW k \in DOMAIN a, g # k,
         RecordOK(a[g]), RecordOK(a[k]), MacOf(a[k]) # "none", NEW b, b = Laid(a, g, k)
  PROVE  /\ \A x : x \in DOMAIN b <=> x \in DOMAIN a /\ x # g
         /\ \A x \in DOMAIN b : x # k => b[x] = a[x]
         /\ RecordOK(b[k]) /\ AtLeast(b[k], a[k]) /\ MacOf(b[k]) = MacOf(a[k])
         /\ IdOf(b[k]) = IdOf(a[k]) /\ IpOf(b[k]) = IpOf(a[k])
         /\ Active(b[k]) <=> Active(a[k]) \/ Active(a[g])
<1>1. DOMAIN Without(a, g) = DOMAIN a \ {g} /\ k \in DOMAIN Without(a, g)
      /\ \A x \in DOMAIN a : x # g => Without(a, g)[x] = a[x]
  BY WithoutIs
<1>2. b = [Without(a, g) EXCEPT ![k] = MergeRecords(Without(a, g)[k], a[g])]
  BY <1>1 DEF Laid
<1>3. DOMAIN b = DOMAIN a \ {g} /\ b[k] = MergeRecords(a[k], a[g])
      /\ \A x \in DOMAIN b : x # k => b[x] = a[x]
  BY <1>1, <1>2
<1>4. /\ RecordOK(b[k]) /\ IdOf(b[k]) = IdOf(a[k]) /\ IpOf(b[k]) = IpOf(a[k])
      /\ MacOf(b[k]) = IF MacOf(a[k]) = "none" THEN MacOf(a[g]) ELSE MacOf(a[k])
      /\ Active(b[k]) <=> Active(a[k]) \/ Active(a[g])
      /\ AtLeast(b[k], a[k])
  BY <1>3, MergedIs
<1>q. QED BY <1>3, <1>4

\* What has become of a store s when the ghosts of order up to i are laid.
LaidDomain(s, order, i, a) ==
  \A x : x \in DOMAIN a <=> x \in DOMAIN s /\ \A l \in 1..i : order[l] # x

LaidGhosts(s, a) == \A g \in Ghosts(s) : g \in DOMAIN a => a[g] = s[g]

Inherits(s, r, k) ==
  Active(r) => \/ Active(s[k])
               \/ \E g \in Ghosts(s) : Active(s[g]) /\ IpOf(s[g]) = IpOf(s[k])

LaidRecords(s, a) ==
  \A k \in DOMAIN a :
    /\ RecordOK(a[k]) /\ AtLeast(a[k], s[k]) /\ IdOf(a[k]) = IdOf(s[k])
    /\ MacOf(a[k]) = MacOf(s[k]) /\ IpOf(a[k]) = IpOf(s[k])
    /\ Inherits(s, a[k], k)

\* Laying one ghost keeps what laying ghosts promises.
LEMMA LaidOne ==
  ASSUME NEW s, NEW a, NEW g \in Ghosts(s), NEW k \in DOMAIN s, g \in DOMAIN s, k \notin Ghosts(s),
         MacOf(s[k]) # "none", IpOf(s[k]) = IpOf(s[g]), g \in DOMAIN a, k \in DOMAIN a,
         LaidGhosts(s, a), LaidRecords(s, a), NEW b, b = Laid(a, g, k)
  PROVE  /\ \A x : x \in DOMAIN b <=> x \in DOMAIN a /\ x # g
         /\ LaidGhosts(s, b) /\ LaidRecords(s, b)
<1>1. a[g] = s[g] /\ g # k
  BY DEF LaidGhosts
<1>2. RecordOK(a[g]) /\ RecordOK(a[k]) /\ MacOf(a[k]) # "none"
  BY DEF LaidRecords
<1>3. /\ \A x : x \in DOMAIN b <=> x \in DOMAIN a /\ x # g
      /\ \A x \in DOMAIN b : x # k => b[x] = a[x]
      /\ RecordOK(b[k]) /\ AtLeast(b[k], a[k]) /\ MacOf(b[k]) = MacOf(a[k])
      /\ IdOf(b[k]) = IdOf(a[k]) /\ IpOf(b[k]) = IpOf(a[k])
      /\ Active(b[k]) <=> Active(a[k]) \/ Active(a[g])
  BY <1>1, <1>2, LaidIs
<1>4. LaidGhosts(s, b)
  BY <1>3 DEF LaidGhosts
<1>5. ASSUME NEW x \in DOMAIN b, x # k
      PROVE  /\ RecordOK(b[x]) /\ AtLeast(b[x], s[x]) /\ IdOf(b[x]) = IdOf(s[x])
             /\ MacOf(b[x]) = MacOf(s[x]) /\ IpOf(b[x]) = IpOf(s[x])
             /\ Inherits(s, b[x], x)
  <2>1. x \in DOMAIN a /\ b[x] = a[x]
    BY <1>3, <1>5
  <2>q. QED BY <2>1 DEF LaidRecords
<1>6. /\ AtLeast(a[k], s[k]) /\ IdOf(a[k]) = IdOf(s[k])
      /\ MacOf(a[k]) = MacOf(s[k]) /\ IpOf(a[k]) = IpOf(s[k])
      /\ Inherits(s, a[k], k)
  BY DEF LaidRecords
<1>7. AtLeast(b[k], s[k])
  BY <1>3, <1>6, AtLeastTransitive
<1>8. Inherits(s, b[k], k)
  BY <1>1, <1>3, <1>6 DEF Inherits
<1>9. LaidRecords(s, b)
  BY <1>3, <1>5, <1>6, <1>7, <1>8 DEF LaidRecords
<1>q. QED BY <1>3, <1>4, <1>9

\* The ghosts are gone, and every other record is at least what it was; it is
\* active only if it was or a ghost with its address was.
LEMMA UnghostedIs ==
  ASSUME NEW s, Keyed(s), NEW t \in Unghosted(s)
  PROVE  /\ Keyed(t) /\ DOMAIN t = DOMAIN s \ Ghosts(s) /\ Ghosts(t) = {}
         /\ \A k \in DOMAIN t :
              /\ AtLeast(t[k], s[k]) /\ IdOf(t[k]) = IdOf(s[k])
              /\ MacOf(t[k]) = MacOf(s[k]) /\ IpOf(t[k]) = IpOf(s[k])
              /\ Active(t[k]) =>
                   \/ Active(s[k])
                   \/ \E g \in Ghosts(s) : Active(s[g]) /\ IpOf(s[g]) = IpOf(s[k])
<1>1. PICK body \in BodyChoices(s) : t = LaidAll(s, body, Listing(Ghosts(s)))
  BY Zenon DEF Unghosted, LaidAll
<1>. DEFINE G == Ghosts(s)
            order == Listing(G)
            n == Len(order)
            to(g) == body[s[g].ip]
<1>2. G \in SUBSET DOMAIN s /\ IsFiniteSet(G) /\ IsFiniteSet(DOMAIN s)
  <2>1. G \in SUBSET DOMAIN s
    BY GhostsAre
  <2>q. QED BY <2>1, FS_Subset DEF Keyed
<1>3. Enumerates(order, G)
  BY <1>2, ListingIs
<1>4. /\ n \in Nat /\ DOMAIN order = 1..n /\ \A i \in 1..n : order[i] \in G
      /\ \A g \in G : \E i \in 1..n : order[i] = g
      /\ \A i, j \in 1..n : order[i] = order[j] => i = j
  BY <1>3, LenProperties, ElementOfSeq DEF Enumerates
<1>5. ASSUME NEW g \in G
      PROVE  /\ to(g) \in DOMAIN s /\ MacOf(s[to(g)]) # "none"
             /\ IpOf(s[to(g)]) = IpOf(s[g]) /\ to(g) \notin G
  <2>1. s[g].ip \in {s[x].ip : x \in Ghosts(s)}
    OBVIOUS
  <2>2. to(g) \in MacKeys(s, s[g].ip)
    BY <2>1 DEF BodyChoices
  <2>3. to(g) \in DOMAIN s /\ MacOf(s[to(g)]) # "none" /\ IpOf(s[to(g)]) = IpOf(s[g])
    BY <2>2 DEF MacKeys, MacOf, IpOf
  <2>q. QED BY <2>3, GhostsAre
<1>n. n \in Nat /\ DOMAIN order = 1..n
  BY <1>4
<1>t. t = LaidAll(s, body, order)
  BY <1>1
<1>. HIDE DEF n, order
<1>r. LaidAllRun(s, body, order, n, t)
  BY ONLY <1>n, <1>t, LaidFold
<1>6. PICK f : /\ f[0] = s
               /\ \A i \in 1..n : f[i] = Laid(f[i - 1], order[i], to(order[i]))
               /\ t = f[n]
  BY <1>r DEF LaidAllRun
<1>. HIDE DEF to, G
<1>. DEFINE Good == {i \in 0..n : /\ LaidDomain(s, order, i, f[i])
                                 /\ LaidGhosts(s, f[i]) /\ LaidRecords(s, f[i])}
<1>7. 0 \in Good
  <2>1. 0 \in 0..n /\ 1..0 = {}
    BY <1>4
  <2>2. LaidDomain(s, order, 0, f[0]) /\ LaidGhosts(s, f[0])
    BY <1>6, <2>1 DEF LaidDomain, LaidGhosts
  <2>3. \A k \in DOMAIN s : RecordOK(s[k]) /\ AtLeast(s[k], s[k])
    BY DEF Keyed, AtLeast
  <2>4. LaidRecords(s, f[0])
    BY <1>6, <2>3 DEF LaidRecords, Inherits
  <2>q. QED BY <2>1, <2>2, <2>4
<1>8. ASSUME NEW i \in 1..n, i - 1 \in Good PROVE i \in Good
  <2>1. /\ LaidDomain(s, order, i - 1, f[i - 1])
        /\ LaidGhosts(s, f[i - 1]) /\ LaidRecords(s, f[i - 1])
    BY <1>8
  <2>. HIDE DEF Good
  <2>2. i \in 0..n /\ i - 1 \in Nat /\ i \in 1..i
        /\ \A l : l \in 1..i <=> l \in 1..(i - 1) \/ l = i
    BY <1>4
  <2>3. \A l \in 1..(i - 1) : l \in 1..n /\ l # i
    BY <1>4
  <2>4. /\ f[i] = Laid(f[i - 1], order[i], to(order[i]))
        /\ order[i] \in G /\ order[i] \in DOMAIN s
    BY <1>2, <1>4, <1>6
  <2>5. /\ to(order[i]) \in DOMAIN s /\ MacOf(s[to(order[i])]) # "none"
        /\ IpOf(s[to(order[i])]) = IpOf(s[order[i]]) /\ to(order[i]) \notin G
    BY <1>5, <2>4
  <2>6. order[i] \in DOMAIN f[i - 1]
    <3>1. \A l \in 1..(i - 1) : order[l] # order[i]
      BY <1>4, <2>3
    <3>q. QED BY <2>1, <2>4, <3>1 DEF LaidDomain
  <2>7. to(order[i]) \in DOMAIN f[i - 1]
    <3>1. \A l \in 1..(i - 1) : order[l] # to(order[i])
      BY <1>4, <2>3, <2>5
    <3>q. QED BY <2>1, <2>5, <3>1 DEF LaidDomain
  <2>8. /\ \A x : x \in DOMAIN f[i] <=> x \in DOMAIN f[i - 1] /\ x # order[i]
        /\ LaidGhosts(s, f[i]) /\ LaidRecords(s, f[i])
    <3>1. order[i] \in Ghosts(s) /\ to(order[i]) \notin Ghosts(s)
      BY <2>4, <2>5 DEF G
    <3>q. QED BY <2>1, <2>4, <2>5, <2>6, <2>7, <3>1, LaidOne
  <2>9. LaidDomain(s, order, i, f[i])
    BY <2>1, <2>2, <2>8 DEF LaidDomain
  <2>q. QED BY <2>2, <2>8, <2>9 DEF Good
<1>9. n \in Good
  <2>1. \A i \in 1..n : i - 1 \in Good => i \in Good
    BY <1>8
  <2>2. n \in 0..n
    BY <1>4
  <2>. HIDE DEF Good
  <2>q. QED BY ONLY <1>4, <1>7, <2>1, <2>2, Induct
<1>10. LaidDomain(s, order, n, t) /\ LaidRecords(s, t)
  BY <1>6, <1>9
<1>. HIDE DEF Good
<1>11. DOMAIN t = DOMAIN s \ G
  <2>1. \A x \in G : \E l \in 1..n : order[l] = x
    BY <1>4
  <2>2. \A l \in 1..n : order[l] \in G
    BY <1>4
  <2>3. \A x : x \in DOMAIN t <=> x \in DOMAIN s /\ \A l \in 1..n : order[l] # x
    BY <1>10 DEF LaidDomain
  <2>4. \A x : x \in DOMAIN t <=> x \in DOMAIN s \ G
    BY ONLY <2>1, <2>2, <2>3
  <2>q. QED BY ONLY <2>4
<1>12. Keyed(t)
  <2>1. IsFiniteSet(DOMAIN t)
    BY <1>2, <1>11, FS_Subset
  <2>2. \A k \in DOMAIN t : KeyOf(t[k]) = k
    <3>1. ASSUME NEW k \in DOMAIN t PROVE KeyOf(t[k]) = k
      <4>1. IdOf(t[k]) = IdOf(s[k]) /\ MacOf(t[k]) = MacOf(s[k]) /\ KeyOf(s[k]) = k
        BY <1>10, <1>11 DEF Keyed, LaidRecords
      <4>q. QED BY <4>1, KeyOfIs
    <3>q. QED BY <3>1
  <2>q. QED BY <1>10, <2>1, <2>2 DEF Keyed, LaidRecords
<1>13. Ghosts(t) = {}
  <2>1. SUFFICES ASSUME NEW g \in Ghosts(t) PROVE FALSE
    OBVIOUS
  <2>2. g \in DOMAIN t /\ MacOf(t[g]) = "none" /\ IpOf(t[g]) # <<>> /\ HasBody(t, g)
    BY GhostsAre
  <2>3. PICK k \in DOMAIN t : MacOf(t[k]) # "none" /\ IpOf(t[k]) = IpOf(t[g])
    BY <2>2 DEF HasBody
  <2>4. MacOf(s[k]) # "none" /\ IpOf(s[k]) = IpOf(s[g]) /\ k \in DOMAIN s
    BY <1>10, <1>11, <2>2, <2>3 DEF LaidRecords
  <2>5. g \in DOMAIN s /\ MacOf(s[g]) = "none" /\ IpOf(s[g]) # <<>> /\ g \notin G
    BY <1>10, <1>11, <2>2 DEF LaidRecords
  <2>6. HasBody(s, g)
    BY <2>4 DEF HasBody
  <2>q. QED BY <2>5, <2>6, GhostsAre DEF G
<1>q. QED BY <1>10, <1>11, <1>12, <1>13 DEF G, LaidRecords, Inherits

\* What a cleanup leaves of a store: every record has the address of one that had
\* its key, and is at least what they all were.  It is active when one of them
\* was, or when its address is that of a record without MAC that shares its key
\* with one that was.
LEMMA CleanedIs ==
  ASSUME NEW s, Loose(s), NEW t \in CleanupDuplicates(s)
  PROVE  /\ Keyed(t) /\ Ghosts(t) = {}
         /\ \A k \in DOMAIN s : MacOf(s[k]) # "none" => KeyOf(s[k]) \in DOMAIN t
         /\ \A k \in DOMAIN s : KeyOf(s[k]) \in DOMAIN t =>
              /\ AtLeast(t[KeyOf(s[k])], s[k]) /\ IdOf(t[KeyOf(s[k])]) = IdOf(s[k])
              /\ MacOf(t[KeyOf(s[k])]) = MacOf(s[k])
         /\ \A x \in DOMAIN t :
              /\ \E k \in DOMAIN s : KeyOf(s[k]) = x /\ IpOf(t[x]) = IpOf(s[k])
              /\ Active(t[x]) =>
                   \/ \E k \in DOMAIN s : KeyOf(s[k]) = x /\ Active(s[k])
                   \/ /\ MacOf(t[x]) # "none" /\ IpOf(t[x]) # <<>>
                      /\ \E j, k \in DOMAIN s : /\ KeyOf(s[j]) = KeyOf(s[k]) /\ Active(s[j])
                                                /\ MacOf(s[j]) = "none" /\ IpOf(s[k]) = IpOf(t[x])
<1>1. PICK r \in Rekeyed(s) : t \in Unghosted(r)
  BY DEF CleanupDuplicates
<1>2. /\ Keyed(r)
      /\ DOMAIN r = {KeyOf(s[k]) : k \in DOMAIN s}
      /\ \A k \in DOMAIN s : LET x == KeyOf(s[k])
                             IN  /\ AtLeast(r[x], s[k])
                                 /\ IdOf(r[x]) = IdOf(s[k]) /\ MacOf(r[x]) = MacOf(s[k])
      /\ \A x \in DOMAIN r :
           /\ \E k \in DOMAIN s : KeyOf(s[k]) = x /\ IpOf(r[x]) = IpOf(s[k])
           /\ Active(r[x]) => \E k \in DOMAIN s : KeyOf(s[k]) = x /\ Active(s[k])
  BY <1>1, RekeyedIs
<1>3. /\ Keyed(t) /\ DOMAIN t = DOMAIN r \ Ghosts(r) /\ Ghosts(t) = {}
      /\ \A k \in DOMAIN t :
           /\ AtLeast(t[k], r[k]) /\ IdOf(t[k]) = IdOf(r[k])
           /\ MacOf(t[k]) = MacOf(r[k]) /\ IpOf(t[k]) = IpOf(r[k])
           /\ Active(t[k]) =>
                \/ Active(r[k])
                \/ \E g \in Ghosts(r) : Active(r[g]) /\ IpOf(r[g]) = IpOf(r[k])
  BY <1>1, <1>2, UnghostedIs
<1>4. \A x : x \in DOMAIN t <=> x \in DOMAIN r /\ x \notin Ghosts(r)
  BY <1>3
<1>5. \A k \in DOMAIN s : KeyOf(s[k]) \in DOMAIN r
  BY <1>2
<1>6. ASSUME NEW k \in DOMAIN s, MacOf(s[k]) # "none" PROVE KeyOf(s[k]) \in DOMAIN t
  <2>1. MacOf(r[KeyOf(s[k])]) # "none"
    BY <1>2, <1>6
  <2>q. QED BY <1>4, <1>5, <2>1, GhostsAre
<1>7. ASSUME NEW k \in DOMAIN s, NEW x, x = KeyOf(s[k]), x \in DOMAIN t
      PROVE  AtLeast(t[x], s[k]) /\ IdOf(t[x]) = IdOf(s[k]) /\ MacOf(t[x]) = MacOf(s[k])
  <2>1. AtLeast(r[x], s[k]) /\ IdOf(r[x]) = IdOf(s[k]) /\ MacOf(r[x]) = MacOf(s[k])
    BY <1>2, <1>7
  <2>2. AtLeast(t[x], r[x]) /\ IdOf(t[x]) = IdOf(r[x]) /\ MacOf(t[x]) = MacOf(r[x])
    BY <1>3, <1>7
  <2>q. QED BY <2>1, <2>2, AtLeastTransitive
<1>8. ASSUME NEW x \in DOMAIN t
      PROVE  \E k \in DOMAIN s : KeyOf(s[k]) = x /\ IpOf(t[x]) = IpOf(s[k])
  BY <1>2, <1>3, <1>4
<1>9. ASSUME NEW x \in DOMAIN t, Active(t[x])
      PROVE  \/ \E k \in DOMAIN s : KeyOf(s[k]) = x /\ Active(s[k])
             \/ /\ MacOf(t[x]) # "none" /\ IpOf(t[x]) # <<>>
                /\ \E j, k \in DOMAIN s : /\ KeyOf(s[j]) = KeyOf(s[k]) /\ Active(s[j])
                                          /\ MacOf(s[j]) = "none" /\ IpOf(s[k]) = IpOf(t[x])
  <2>1. x \in DOMAIN r /\ IpOf(t[x]) = IpOf(r[x])
    BY <1>3, <1>4
  <2>2. CASE Active(r[x])
    BY <1>2, <2>1, <2>2
  <2>3. ASSUME NEW g \in Ghosts(r), Active(r[g]), IpOf(r[g]) = IpOf(r[x])
        PROVE  /\ MacOf(t[x]) # "none" /\ IpOf(t[x]) # <<>>
               /\ \E j, k \in DOMAIN s : /\ KeyOf(s[j]) = KeyOf(s[k]) /\ Active(s[j])
                                         /\ MacOf(s[j]) = "none" /\ IpOf(s[k]) = IpOf(t[x])
    <3>1. g \in DOMAIN r /\ MacOf(r[g]) = "none" /\ IpOf(r[g]) # <<>> /\ HasBody(r, g)
      BY GhostsAre
    <3>5. MacOf(t[x]) # "none" /\ IpOf(t[x]) # <<>>
      <4>1. IpOf(r[x]) # <<>> /\ HasBody(r, x) /\ x \notin Ghosts(r)
        BY <1>4, <2>1, <2>3, <3>1 DEF HasBody
      <4>2. MacOf(r[x]) # "none"
        BY <2>1, <4>1, GhostsAre
      <4>q. QED BY <1>3, <2>1, <4>1, <4>2
    <3>2. PICK j \in DOMAIN s : KeyOf(s[j]) = g /\ Active(s[j])
      BY <1>2, <2>3, <3>1
    <3>3. PICK k \in DOMAIN s : KeyOf(s[k]) = g /\ IpOf(r[g]) = IpOf(s[k])
      BY <1>2, <3>1
    <3>4. MacOf(s[j]) = "none"
      BY <1>2, <3>1, <3>2
    <3>q. QED BY <2>1, <2>3, <3>2, <3>3, <3>4, <3>5
  <2>4. Active(r[x]) \/ \E g \in Ghosts(r) : Active(r[g]) /\ IpOf(r[g]) = IpOf(r[x])
    BY <1>3, <1>9
  <2>q. QED BY <2>2, <2>3, <2>4
<1>10. \A k \in DOMAIN s : KeyOf(s[k]) \in DOMAIN t =>
         /\ AtLeast(t[KeyOf(s[k])], s[k]) /\ IdOf(t[KeyOf(s[k])]) = IdOf(s[k])
         /\ MacOf(t[KeyOf(s[k])]) = MacOf(s[k])
  BY <1>7
<1>11. \A k \in DOMAIN s : MacOf(s[k]) # "none" => KeyOf(s[k]) \in DOMAIN t
  BY <1>6
<1>q. QED BY <1>3, <1>8, <1>9, <1>10, <1>11

\* What is loaded is at least what was saved, and no record with a MAC is lost or
\* new.
LEMMA LoadedIs ==
  ASSUME NEW file, Canonical(file), NEW t \in LoadFromPath(file)
  PROVE  /\ Keyed(t) /\ Ghosts(t) = {}
         /\ \A k \in DOMAIN t : k \in DOMAIN file => AtLeast(t[k], file[k])
         /\ \A k \in DOMAIN t : MacKey(k) => k \in DOMAIN file
         /\ \A k \in DOMAIN file : MacKey(k) => k \in DOMAIN t
<1>. DEFINE s == [k \in DOMAIN file |-> Repaired(file[k])]
<1>1. t \in CleanupDuplicates(s)
  BY DEF LoadFromPath
<1>2. DOMAIN s = DOMAIN file
  OBVIOUS
<1>3. ASSUME NEW k \in DOMAIN file
      PROVE  /\ RecordOK(s[k]) /\ AtLeast(s[k], file[k]) /\ KeyOf(s[k]) = KeyOf(file[k])
             /\ IdOf(s[k]) = IdOf(file[k]) /\ MacOf(s[k]) = MacOf(file[k])
  <2>1. RecordOK(file[k])
    BY DEF Canonical
  <2>2. s[k] = Repaired(file[k])
    OBVIOUS
  <2>. HIDE DEF s
  <2>q. QED BY <2>1, <2>2, RepairedIs
<1>. HIDE DEF s
<1>4. Canonical(s)
  BY <1>2, <1>3 DEF Canonical, DocId
<1>5. Loose(s)
  BY <1>4, CanonicalIsLoose
<1>6. /\ Keyed(t) /\ Ghosts(t) = {}
      /\ \A k \in DOMAIN s : MacOf(s[k]) # "none" => KeyOf(s[k]) \in DOMAIN t
      /\ \A k \in DOMAIN s : KeyOf(s[k]) \in DOMAIN t => AtLeast(t[KeyOf(s[k])], s[k])
      /\ \A x \in DOMAIN t : \E k \in DOMAIN s : KeyOf(s[k]) = x
  BY <1>1, <1>5, CleanedIs
<1>7. ASSUME NEW k \in DOMAIN t, k \in DOMAIN file PROVE AtLeast(t[k], file[k])
  <2>2. k[1] # "doc"
    BY <1>6, PlainKey
  <2>3. KeyOf(s[k]) = k
    BY <1>2, <1>4, <1>7, <2>2 DEF Canonical
  <2>4. AtLeast(t[k], s[k]) /\ AtLeast(s[k], file[k])
    BY <1>2, <1>3, <1>6, <1>7, <2>3
  <2>q. QED BY <2>4, AtLeastTransitive
<1>8. ASSUME NEW k \in DOMAIN t, MacKey(k) PROVE k \in DOMAIN file
  <2>1. PICK j \in DOMAIN s : KeyOf(s[j]) = k
    BY <1>6
  <2>2. ~MacKey(IdOf(s[j]))
    BY <1>2, <1>3, <2>1 DEF RecordOK
  <2>3. MacOf(s[j]) # "none"
    BY <1>8, <2>1, <2>2, KeyOfIs
  <2>4. ~DocId(s[j])
    BY <1>2, <1>3, <2>3 DEF RecordOK
  <2>q. QED BY <1>2, <1>4, <2>1, <2>4, OwnKey
<1>9. ASSUME NEW k \in DOMAIN file, MacKey(k) PROVE k \in DOMAIN t
  <2>1. KeyOf(s[k]) = k /\ ~MacKey(IdOf(s[k]))
    BY <1>2, <1>3, <1>4, <1>9, OwnKey DEF RecordOK
  <2>2. MacOf(s[k]) # "none"
    BY <1>9, <2>1, KeyOfIs
  <2>q. QED BY <1>2, <1>6, <2>1, <2>2
<1>q. QED BY <1>6, <1>7, <1>8, <1>9

-----------------------------------------------------------------------------
(* Seeds                                                                   *)

\* A record with all that AtLeast asks for.
Firm(r) == Ever(r) /\ ~Generic(r.name) /\ r.kind # "network-device"

LEMMA FirmIs ==
  ASSUME NEW r, NEW q, AtLeast(r, q), Firm(q)
  PROVE  Firm(r)
BY DEF Firm, AtLeast

LEMMA FirmIsAtLeast ==
  ASSUME NEW r, NEW q, Firm(r)
  PROVE  AtLeast(r, q)
BY DEF Firm, AtLeast

\* Two sweeps apart, a record without MAC may have the address of one with a MAC: a
\* seed, whose id is that address.
OldGhosts(s) ==
  \A g, k \in DOMAIN s :
    MacOf(s[g]) = "none" /\ MacOf(s[k]) # "none" /\ IpOf(s[g]) = IpOf(s[k])
      /\ (\E a : IpOf(s[g]) = <<a>>) => IdOf(s[g])[1] = "net-ip"

\* The store between sweeps.
Stored(s) == Canonical(s) /\ OldGhosts(s)

\* A store after a cleanup is one.
LEMMA KeyedIsStored ==
  ASSUME NEW s, Keyed(s), Ghosts(s) = {}
  PROVE  Stored(s)
<1>1. \A a : <<a>> # <<>>
  OBVIOUS
<1>2. OldGhosts(s)
  BY <1>1, GhostsAre DEF OldGhosts, HasBody
<1>q. QED BY <1>2, KeyedIsCanonical DEF Stored

\* t is the store s and seeds.
Seeded(s, t) ==
  /\ \A k \in DOMAIN s : k \in DOMAIN t /\ AtLeast(t[k], s[k]) /\ (Active(t[k]) <=> Active(s[k]))
  /\ \A k \in DOMAIN t : k \notin DOMAIN s => ~Active(t[k]) /\ Firm(t[k])

\* Seeds upon seeds are seeds.
LEMMA SeededTransitive ==
  ASSUME NEW s, NEW t, NEW u, Seeded(s, t), Seeded(t, u)
  PROVE  Seeded(s, u)
<1>1. ASSUME NEW k \in DOMAIN s
      PROVE  k \in DOMAIN u /\ AtLeast(u[k], s[k]) /\ (Active(u[k]) <=> Active(s[k]))
  <2>1. k \in DOMAIN t /\ AtLeast(t[k], s[k]) /\ (Active(t[k]) <=> Active(s[k]))
    BY DEF Seeded
  <2>2. k \in DOMAIN u /\ AtLeast(u[k], t[k]) /\ (Active(u[k]) <=> Active(t[k]))
    BY <2>1 DEF Seeded
  <2>q. QED BY <2>1, <2>2, AtLeastTransitive
<1>2. ASSUME NEW k \in DOMAIN u, k \notin DOMAIN s PROVE ~Active(u[k]) /\ Firm(u[k])
  <2>1. CASE k \in DOMAIN t
    <3>1. ~Active(t[k]) /\ Firm(t[k])
      BY <1>2, <2>1 DEF Seeded
    <3>2. AtLeast(u[k], t[k]) /\ (Active(u[k]) <=> Active(t[k]))
      BY <2>1 DEF Seeded
    <3>q. QED BY <3>1, <3>2, FirmIs
  <2>2. CASE k \notin DOMAIN t
    BY <2>2 DEF Seeded
  <2>q. QED BY <2>1, <2>2
<1>q. QED BY <1>1, <1>2 DEF Seeded

LEMMA SeededItself ==
  ASSUME NEW s
  PROVE  Seeded(s, s)
BY DEF Seeded, AtLeast

\* A seed under a free key.
LEMMA SeedAdded ==
  ASSUME NEW s, Stored(s), NEW k, k \notin DOMAIN s, FileKey(k), NEW name, NEW kind,
         NEW r, r = Seed(k, name, kind), Firm(r), NEW t, t = With(s, k, r)
  PROVE  Stored(t) /\ Seeded(s, t)
<1>1. DOMAIN t = DOMAIN s \cup {k} /\ t[k] = r /\ \A j \in DOMAIN s : t[j] = s[j]
  BY DEF With
<1>2. IsFiniteSet(DOMAIN t)
  BY <1>1, FS_AddElement DEF Stored, Canonical
<1>3. \A j \in DOMAIN t : j = k \/ j \in DOMAIN s
  BY <1>1
<1>s. /\ RecordOK(r) /\ ~Active(r) /\ (KeyOf(r) = k \/ k[1] = "doc") /\ (DocKey(k) <=> DocId(r))
      /\ (MacOf(r) # "none" => IpOf(r) = <<>>)
      /\ ((\E a : IpOf(r) = <<a>>) => IdOf(r)[1] = "net-ip")
  BY SeedIs
<1>4. Canonical(t)
  BY <1>1, <1>2, <1>3, <1>s DEF Stored, Canonical
<1>5. \A j \in DOMAIN s : AtLeast(s[j], s[j])
  BY DEF AtLeast
<1>6. \A j \in DOMAIN s : j \in DOMAIN t
  BY <1>1
<1>7. Seeded(s, t)
  BY <1>1, <1>3, <1>5, <1>6, <1>s DEF Seeded
<1>8. OldGhosts(t)
  <2>1. SUFFICES ASSUME NEW g \in DOMAIN t, NEW j \in DOMAIN t, NEW a,
                        MacOf(t[g]) = "none", MacOf(t[j]) # "none",
                        IpOf(t[g]) = IpOf(t[j]), IpOf(t[g]) = <<a>>
                 PROVE  IdOf(t[g])[1] = "net-ip"
    BY DEF OldGhosts
  <2>2. <<a>> # <<>>
    OBVIOUS
  <2>3. CASE g = k
    BY <1>1, <1>s, <2>1, <2>3
  <2>4. CASE g # k
    <3>1. j # k /\ g \in DOMAIN s /\ j \in DOMAIN s /\ t[g] = s[g] /\ t[j] = s[j]
      BY <1>1, <1>3, <1>s, <2>1, <2>2, <2>4
    <3>q. QED BY <2>1, <3>1 DEF Stored, OldGhosts
  <2>q. QED BY <2>3, <2>4
<1>q. QED BY <1>4, <1>7, <1>8 DEF Stored

\* A seed is firm.
LEMMA SeedIsFirm ==
  ASSUME NEW k
  PROVE  Firm(Seed(k, "Device", "configured")) /\ Firm(Seed(k, "Documented", "computer"))
BY DEF Firm, Ever, Generic, Seed

\* An entry of the categories file (seed_known_devices).
LEMMA CategoryIs ==
  ASSUME NEW s, Stored(s), NEW m \in Categorised, NEW t, t = SeedCategory(s, m)
  PROVE  Stored(t) /\ Seeded(s, t)
<1>. DEFINE k == <<"mac", m>>
<1>1. m # "none"
  BY HistoryAssumption
<1>2. CASE Known(s, k)
  <2>. DEFINE named(j) == (j = k \/ KeyOf(s[j]) = k) /\ s[j].kind = "network-device"
  <2>1. t = [j \in DOMAIN s |-> IF named(j) THEN [s[j] EXCEPT !.kind = "configured"] ELSE s[j]]
    BY <1>2 DEF SeedCategory
  <2>. HIDE DEF named
  <2>2. DOMAIN t = DOMAIN s
    BY <2>1
  <2>3. ASSUME NEW j \in DOMAIN s
        PROVE  /\ RecordOK(t[j]) /\ KeyOf(t[j]) = KeyOf(s[j]) /\ IdOf(t[j]) = IdOf(s[j])
               /\ MacOf(t[j]) = MacOf(s[j]) /\ IpOf(t[j]) = IpOf(s[j])
               /\ AtLeast(t[j], s[j]) /\ (Active(t[j]) <=> Active(s[j]))
    <3>1. RecordOK(s[j])
      BY DEF Stored, Canonical
    <3>2. CASE named(j)
      <4>. DEFINE r == s[j]
                  u == [r EXCEPT !.kind = "configured"]
      <4>1. t[j] = u
        BY <2>1, <3>2
      <4>. HIDE DEF r
      <4>2. RecordOK(r)
        BY <3>1 DEF r
      <4>3. /\ DOMAIN u = Fields /\ IdOf(u) = IdOf(r) /\ MacOf(u) = MacOf(r)
            /\ IpOf(u) = IpOf(r) /\ u.name = r.name /\ u.kind = "configured"
            /\ Active(u) = Active(r) /\ Ever(u) = Ever(r)
        BY <4>2 DEF RecordOK, Fields, IdOf, IpOf, MacOf, Active, Ever, MacKey
      <4>. HIDE DEF u
      <4>4. RecordOK(u) /\ KeyOf(u) = KeyOf(r) /\ AtLeast(u, r)
        BY <4>2, <4>3, KeyOfIs DEF RecordOK, DocId, AtLeast
      <4>q. QED BY <4>1, <4>3, <4>4 DEF r
    <3>3. CASE ~named(j)
      <4>1. t[j] = s[j]
        BY <2>1, <3>3
      <4>q. QED BY <3>1, <4>1 DEF AtLeast
    <3>q. QED BY <3>2, <3>3
  <2>4. Canonical(t)
    BY <2>2, <2>3 DEF Stored, Canonical, DocId
  <2>5. OldGhosts(t)
    BY <2>2, <2>3 DEF Stored, OldGhosts
  <2>6. Seeded(s, t)
    BY <2>2, <2>3 DEF Seeded
  <2>q. QED BY <2>4, <2>5, <2>6 DEF Stored
<1>3. CASE ~Known(s, k)
  <2>. DEFINE r == Seed(k, "Device", "configured")
  <2>1. t = With(s, k, r) /\ k \notin DOMAIN s
    BY <1>3 DEF SeedCategory, Known
  <2>2. FileKey(k)
    BY <1>1, MacKeyIs DEF FileKey
  <2>3. Firm(r)
    BY SeedIsFirm
  <2>. HIDE DEF r, k
  <2>4. r = Seed(k, "Device", "configured")
    BY DEF r
  <2>q. QED BY <2>1, <2>2, <2>3, <2>4, SeedAdded
<1>q. QED BY <1>2, <1>3

\* An entry of the documentation file (seed_known_devices).
LEMMA DocumentIs ==
  ASSUME NEW s, Stored(s), NEW k \in Documented, NEW t, t = SeedDocument(s, k)
  PROVE  Stored(t) /\ Seeded(s, t)
<1>1. CASE Known(s, k)
  BY <1>1, SeededItself DEF SeedDocument
<1>2. CASE ~Known(s, k)
  <2>. DEFINE r == Seed(k, "Documented", "computer")
  <2>1. t = With(s, k, r) /\ k \notin DOMAIN s
    BY <1>2 DEF SeedDocument, Known
  <2>2. FileKey(k)
    BY HistoryAssumption DEF MacKey, FileKey
  <2>3. Firm(r)
    BY SeedIsFirm
  <2>. HIDE DEF r
  <2>4. r = Seed(k, "Documented", "computer")
    BY DEF r
  <2>q. QED BY <2>1, <2>2, <2>3, <2>4, SeedAdded
<1>q. QED BY <1>1, <1>2

\* All entries of the categories file.
LEMMA CategoriesAre ==
  ASSUME NEW s, Stored(s)
  PROVE  LET t == Categories(s, Listing(Categorised)) IN Stored(t) /\ Seeded(s, t)
<1>. DEFINE q == Listing(Categorised)
            n == Len(q)
            t == Categories(s, q)
<1>1. q \in Seq(Categorised)
  BY HistoryAssumption, ListingIs DEF Enumerates
<1>2. n \in Nat /\ DOMAIN q = 1..n /\ \A i \in 1..n : q[i] \in Categorised
  BY <1>1, LenProperties, ElementOfSeq
<1>. HIDE DEF n, q
<1>r. CategoriesRun(s, q, n, t)
  BY <1>2, CategoryFold
<1>3. PICK f : f[0] = s /\ (\A i \in 1..n : f[i] = SeedCategory(f[i - 1], q[i])) /\ t = f[n]
  BY <1>r DEF CategoriesRun
<1>. DEFINE Good == {i \in 0..n : Stored(f[i]) /\ Seeded(s, f[i])}
<1>4. 0 \in Good
  BY <1>2, <1>3, SeededItself
<1>5. ASSUME NEW i \in 1..n, i - 1 \in Good PROVE i \in Good
  <2>1. Stored(f[i - 1]) /\ Seeded(s, f[i - 1]) /\ i \in 0..n
    BY <1>5
  <2>. HIDE DEF Good
  <2>2. Stored(f[i]) /\ Seeded(f[i - 1], f[i])
    BY <1>2, <1>3, <2>1, CategoryIs
  <2>q. QED BY <2>1, <2>2, SeededTransitive DEF Good
<1>6. n \in Good
  <2>1. \A i \in 1..n : i - 1 \in Good => i \in Good
    BY <1>5
  <2>2. n \in 0..n
    BY <1>2
  <2>. HIDE DEF Good
  <2>q. QED BY ONLY <1>2, <1>4, <2>1, <2>2, Induct
<1>q. QED BY <1>3, <1>6 DEF q

\* All entries of the documentation file.
LEMMA DocumentsAre ==
  ASSUME NEW s, Stored(s)
  PROVE  LET t == Documents(s, Listing(Documented)) IN Stored(t) /\ Seeded(s, t)
<1>. DEFINE q == Listing(Documented)
            n == Len(q)
            t == Documents(s, q)
<1>1. q \in Seq(Documented)
  BY HistoryAssumption, ListingIs DEF Enumerates
<1>2. n \in Nat /\ DOMAIN q = 1..n /\ \A i \in 1..n : q[i] \in Documented
  BY <1>1, LenProperties, ElementOfSeq
<1>. HIDE DEF n, q
<1>r. DocumentsRun(s, q, n, t)
  BY <1>2, DocumentFold
<1>3. PICK f : f[0] = s /\ (\A i \in 1..n : f[i] = SeedDocument(f[i - 1], q[i])) /\ t = f[n]
  BY <1>r DEF DocumentsRun
<1>. DEFINE Good == {i \in 0..n : Stored(f[i]) /\ Seeded(s, f[i])}
<1>4. 0 \in Good
  BY <1>2, <1>3, SeededItself
<1>5. ASSUME NEW i \in 1..n, i - 1 \in Good PROVE i \in Good
  <2>1. Stored(f[i - 1]) /\ Seeded(s, f[i - 1]) /\ i \in 0..n
    BY <1>5
  <2>. HIDE DEF Good
  <2>2. Stored(f[i]) /\ Seeded(f[i - 1], f[i])
    BY <1>2, <1>3, <2>1, DocumentIs
  <2>q. QED BY <2>1, <2>2, SeededTransitive DEF Good
<1>6. n \in Good
  <2>1. \A i \in 1..n : i - 1 \in Good => i \in Good
    BY <1>5
  <2>2. n \in 0..n
    BY <1>2
  <2>. HIDE DEF Good
  <2>q. QED BY ONLY <1>2, <1>4, <2>1, <2>2, Induct
<1>q. QED BY <1>3, <1>6 DEF q

\* Seeding adds inactive records, and takes nothing from a record.
LEMMA SeededIs ==
  ASSUME NEW s, Stored(s), NEW t, t = SeedKnownDevices(s)
  PROVE  Stored(t) /\ Seeded(s, t)
<1>. DEFINE u == Categories(s, Listing(Categorised))
<1>1. t = Documents(u, Listing(Documented))
  BY Zenon DEF SeedKnownDevices, Categories, Documents
<1>2. Stored(u) /\ Seeded(s, u)
  BY CategoriesAre
<1>. HIDE DEF u
<1>3. Stored(t) /\ Seeded(u, t)
  BY <1>1, <1>2, DocumentsAre
<1>q. QED BY <1>2, <1>3, SeededTransitive

-----------------------------------------------------------------------------
(* A sweep                                                                 *)

\* What the scan promises of its result: no id is a key of the form mac:... or of
\* another module, and ids differ.  A device without MAC has the address that its id
\* says and is reported as gone only under such an id; and devices with the same
\* address have no MAC and are there.
SweepOK(sweep) ==
  /\ \A i \in DOMAIN sweep :
       /\ ~MacKey(IdOf(sweep[i])) /\ ~DocKey(IdOf(sweep[i]))
       /\ MacOf(sweep[i]) = "none" => Fits(IdOf(sweep[i]), IpOf(sweep[i]))
       /\ MacOf(sweep[i]) = "none" /\ ~Present(sweep[i]) => IdOf(sweep[i])[1] \in {"net-ip", "net-raw"}
  /\ \A i, j \in DOMAIN sweep : i # j =>
       /\ IdOf(sweep[i]) # IdOf(sweep[j])
       /\ IpOf(sweep[i]) = IpOf(sweep[j]) /\ IpOf(sweep[i]) # <<>> =>
            /\ MacOf(sweep[i]) = "none" /\ MacOf(sweep[j]) = "none"
            /\ Present(sweep[i]) /\ Present(sweep[j])

SeenBy(sweep, i, k) == \E l \in 1..i : KeyOf(sweep[l]) = k

\* The parts of the invariant of a sweep over a store s0 of which i devices have
\* been reconciled.  What was not seen is as it was:
Unseen(s0, sweep, i, s) ==
  \A k \in DOMAIN s : ~SeenBy(sweep, i, k) => k \in DOMAIN s0 /\ s[k] = s0[k]

\* what was seen has the address and the state of a device with its key, and the id
\* of a device that has nothing else;
SeenAs(sweep, l, k, r) ==
  /\ KeyOf(sweep[l]) = k /\ IpOf(r) = IpOf(sweep[l])
  /\ Active(r) <=> Present(sweep[l])
  /\ IpOf(sweep[l]) # <<>> \/ MacOf(sweep[l]) # "none" \/ IdOf(r) = IdOf(sweep[l])

AsSeen(sweep, i, s) ==
  \A k \in DOMAIN s : SeenBy(sweep, i, k) => \E l \in 1..i : SeenAs(sweep, l, k, s[k])

\* when two records without MAC have the same id, a device with this id was seen;
SharedSeen(sweep, i, s) ==
  \A j, k \in DOMAIN s :
    /\ j # k /\ MacOf(s[j]) = "none" /\ MacOf(s[k]) = "none"
    /\ IdOf(s[j]) = IdOf(s[k]) /\ ~DocId(s[j])
    => SeenBy(sweep, i, IdOf(s[j]))

\* a record without MAC that a device that is gone took by its address had this
\* address under its own id;
OldPlace(s0, r) ==
  IdOf(r) \in DOMAIN s0 /\ MacOf(s0[IdOf(r)]) = "none" /\ IpOf(s0[IdOf(r)]) = IpOf(r)

Displaced(s0, sweep, i, s) ==
  \A k \in DOMAIN s, l \in 1..i :
    /\ MacOf(s[k]) = "none" /\ IdOf(s[k]) # k
    /\ KeyOf(sweep[l]) = k /\ IpOf(sweep[l]) # <<>> /\ ~Present(sweep[l])
    => OldPlace(s0, s[k])

\* and a record that s0 had under its own key is there, or it was handed over and a newcomer took one.
Descendant(s0, s, k) ==
  \E j \in DOMAIN s : /\ KeyOf(s[j]) = k /\ IdOf(s[j]) = IdOf(s0[k])
                      /\ AtLeast(s[j], s0[k])

Handed(s0, sweep, i, s, k) ==
  \E j \in DOMAIN s : /\ SeenBy(sweep, i, j) /\ MacOf(s[j]) # "none"
                      /\ <<"mac", MacOf(s[j])>> # k /\ IdOf(s[j]) = IdOf(s0[k])

NewcomerTook(s0, sweep, i, s) ==
  \E j \in DOMAIN s :
    /\ SeenBy(sweep, i, j) /\ MacOf(s[j]) # "none"
    /\ \E l \in 1..i : MacOf(sweep[l]) = MacOf(s[j])
    /\ <<"mac", MacOf(s[j])>> \notin DOMAIN s0
    /\ \E k \in DOMAIN s0 : IdOf(s[j]) = IdOf(s0[k])

NoneLost(s0, sweep, i, s) ==
  \A k \in DOMAIN s0 : KeyOf(s0[k]) = k =>
    \/ Descendant(s0, s, k)
    \/ Handed(s0, sweep, i, s, k) /\ NewcomerTook(s0, sweep, i, s)

MidSweep(s0, sweep, i, s) ==
  /\ Loose(s) /\ Unseen(s0, sweep, i, s) /\ AsSeen(sweep, i, s)
  /\ SharedSeen(sweep, i, s) /\ Displaced(s0, sweep, i, s) /\ NoneLost(s0, sweep, i, s)

\* What i devices saw is what i - 1 saw and the key of the last.
LEMMA SeenNext ==
  ASSUME NEW sweep, NEW i \in Nat \ {0}
  PROVE  \A k : SeenBy(sweep, i, k) <=> SeenBy(sweep, i - 1, k) \/ k = KeyOf(sweep[i])
<1>1. \A l : l \in 1..i <=> l \in 1..(i - 1) \/ l = i
  OBVIOUS
<1>q. QED BY <1>1 DEF SeenBy

\* The store that a sweep begins with.
LEMMA BeforeSweep ==
  ASSUME NEW s0, Canonical(s0), NEW sweep
  PROVE  MidSweep(s0, sweep, 0, s0)
<1>1. 1..0 = {} /\ \A k : ~SeenBy(sweep, 0, k)
  BY DEF SeenBy
<1>2. Loose(s0)
  BY CanonicalIsLoose
<1>3. \A k \in DOMAIN s0 : AtLeast(s0[k], s0[k])
  BY DEF AtLeast
<1>4. NoneLost(s0, sweep, 0, s0)
  BY <1>3 DEF NoneLost, Descendant
<1>5. SharedSeen(sweep, 0, s0)
  <2>1. SUFFICES ASSUME NEW j \in DOMAIN s0, NEW k \in DOMAIN s0, MacOf(s0[j]) = "none",
                        MacOf(s0[k]) = "none", IdOf(s0[j]) = IdOf(s0[k]), ~DocId(s0[j])
                 PROVE  j = k
    BY DEF SharedSeen
  <2>2. ~DocId(s0[k])
    BY <2>1 DEF DocId
  <2>q. QED BY <2>1, <2>2, OwnKey, KeyOfIs
<1>6. Unseen(s0, sweep, 0, s0) /\ AsSeen(sweep, 0, s0) /\ Displaced(s0, sweep, 0, s0)
  BY <1>1 DEF Unseen, AsSeen, Displaced
<1>q. QED BY <1>2, <1>4, <1>5, <1>6 DEF MidSweep

\* A device takes a record that keeps its id and its MAC.
LEMMA MovedIs ==
  ASSUME NEW s0, NEW sweep, SweepOK(sweep), NEW i \in DOMAIN sweep, i \in Nat \ {0},
         \A l \in 1..i : l \in DOMAIN sweep, NEW s, MidSweep(s0, sweep, i - 1, s),
         NEW k \in DOMAIN s, NEW key, key = KeyOf(sweep[i]), key \in DOMAIN s => k = key,
         ~DocId(s[k]), NEW u, RecordOK(u), IdOf(u) = IdOf(s[k]), MacOf(u) = MacOf(s[k]), AtLeast(u, s[k]),
         SeenAs(sweep, i, key, u),
         MacKey(key) => key = <<"mac", MacOf(u)>>,
         /\ MacOf(u) = "none" /\ IdOf(u) # key /\ IpOf(sweep[i]) # <<>> /\ ~Present(sweep[i])
           => OldPlace(s0, u),
         NEW t, IsFiniteSet(DOMAIN t), t[key] = u,
         \A x : x \in DOMAIN t <=> (x \in DOMAIN s /\ x # k) \/ x = key,
         \A x \in DOMAIN t : x # key => t[x] = s[x]
  PROVE  MidSweep(s0, sweep, i, t)
<1>1. /\ \A x : SeenBy(sweep, i, x) <=> SeenBy(sweep, i - 1, x) \/ x = key
      /\ i \in 1..i /\ \A l \in 1..(i - 1) : l \in 1..i
  BY SeenNext
<1>2. key \in DOMAIN t /\ \A x \in DOMAIN t : x # key => x \in DOMAIN s /\ x # k
  OBVIOUS
<1>3. /\ Loose(s) /\ Unseen(s0, sweep, i - 1, s) /\ AsSeen(sweep, i - 1, s)
      /\ SharedSeen(sweep, i - 1, s) /\ Displaced(s0, sweep, i - 1, s) /\ NoneLost(s0, sweep, i - 1, s)
  BY DEF MidSweep
<1>4. Loose(t)
  <2>0. ~DocKey(key) /\ ~DocId(u)
    <3>1. ~DocKey(key)
      <4>1. CASE MacOf(sweep[i]) = "none"
        BY <4>1, KeyOfIs DEF SweepOK
      <4>2. CASE MacOf(sweep[i]) # "none"
        <5>1. MacKey(key)
          BY <4>2, KeyOfIs, MacKeyIs
        <5>q. QED BY <5>1 DEF MacKey, DocKey
      <4>q. QED BY <4>1, <4>2
    <3>q. QED BY <3>1 DEF DocId
  <2>1. LooseRecords(t)
    BY <1>2, <1>3, <2>0 DEF Loose, LooseRecords
  <2>2. OneForEachMac(t)
    BY <1>2, <1>3 DEF Loose, OneForEachMac
  <2>q. QED BY <2>1, <2>2 DEF Loose
<1>5. Unseen(s0, sweep, i, t)
  BY <1>1, <1>2, <1>3 DEF Unseen
<1>6. AsSeen(sweep, i, t)
  <2>1. ASSUME NEW x \in DOMAIN t, SeenBy(sweep, i, x)
        PROVE  \E l \in 1..i : SeenAs(sweep, l, x, t[x])
    <3>1. CASE x = key
      BY <1>1, <3>1
    <3>2. CASE x # key
      <4>1. x \in DOMAIN s /\ t[x] = s[x] /\ SeenBy(sweep, i - 1, x)
        BY <1>1, <1>2, <2>1, <3>2
      <4>2. PICK l \in 1..(i - 1) : SeenAs(sweep, l, x, s[x])
        BY <1>3, <4>1 DEF AsSeen
      <4>q. QED BY <1>1, <4>1, <4>2
    <3>q. QED BY <3>1, <3>2
  <2>q. QED BY <2>1 DEF AsSeen
<1>7. SharedSeen(sweep, i, t)
  <2>1. SUFFICES ASSUME NEW x \in DOMAIN t, NEW y \in DOMAIN t, x # y, MacOf(t[x]) = "none",
                        MacOf(t[y]) = "none", IdOf(t[x]) = IdOf(t[y]), ~DocId(t[x])
                 PROVE  SeenBy(sweep, i, IdOf(t[x]))
    BY DEF SharedSeen
  <2>2. ASSUME NEW z \in DOMAIN t
        PROVE  \E w \in DOMAIN s : /\ IdOf(t[z]) = IdOf(s[w]) /\ MacOf(t[z]) = MacOf(s[w])
                                   /\ w = IF z = key THEN k ELSE z
    BY <1>2, <2>2
  <2>3. PICK w \in DOMAIN s : /\ IdOf(t[x]) = IdOf(s[w]) /\ MacOf(t[x]) = MacOf(s[w])
                              /\ w = IF x = key THEN k ELSE x
    BY <2>2
  <2>4. PICK v \in DOMAIN s : /\ IdOf(t[y]) = IdOf(s[v]) /\ MacOf(t[y]) = MacOf(s[v])
                              /\ v = IF y = key THEN k ELSE y
    BY <2>2
  <2>5. w # v
    BY <1>2, <2>1, <2>3, <2>4
  <2>6. ~DocId(s[w])
    BY <2>1, <2>3 DEF DocId
  <2>q. QED BY <1>1, <1>3, <2>1, <2>3, <2>4, <2>5, <2>6 DEF SharedSeen
<1>d. Displaced(s0, sweep, i, t)
  <2>1. SUFFICES ASSUME NEW x \in DOMAIN t, NEW l \in 1..i, MacOf(t[x]) = "none", IdOf(t[x]) # x,
                        KeyOf(sweep[l]) = x, IpOf(sweep[l]) # <<>>, ~Present(sweep[l])
                 PROVE  OldPlace(s0, t[x])
    BY DEF Displaced
  <2>2. CASE x = key
    <3>1. ~MacKey(key)
      <4>1. SUFFICES ASSUME MacKey(key) PROVE FALSE
        OBVIOUS
      <4>2. key = <<"mac", "none">>
        BY <2>1, <2>2, <4>1
      <4>3. ~MacKey(IdOf(sweep[i]))
        BY DEF SweepOK
      <4>4. key = <<"mac", MacOf(sweep[i])>> /\ MacOf(sweep[i]) # "none"
        BY <4>1, <4>3, KeyOfIs
      <4>q. QED BY <4>2, <4>4
    <3>2. l \in DOMAIN sweep /\ KeyOf(sweep[l]) = key /\ KeyOf(sweep[i]) = key
      BY <2>1, <2>2
    <3>3. IdOf(sweep[l]) = key /\ IdOf(sweep[i]) = key
      BY <3>1, <3>2, KeyOfIs, MacKeyIs
    <3>4. l = i
      BY <3>2, <3>3 DEF SweepOK
    <3>q. QED BY <2>1, <2>2, <3>4
  <2>3. CASE x # key
    <3>1. l # i
      BY <2>1, <2>3
    <3>2. l \in 1..(i - 1)
      BY <3>1
    <3>3. x \in DOMAIN s /\ t[x] = s[x]
      BY <1>2, <2>3
    <3>q. QED BY <1>3, <2>1, <3>2, <3>3 DEF Displaced
  <2>q. QED BY <2>2, <2>3
<1>8. ASSUME NEW j \in DOMAIN s
      PROVE  \E x \in DOMAIN t : /\ IdOf(t[x]) = IdOf(s[j]) /\ MacOf(t[x]) = MacOf(s[j])
                                 /\ AtLeast(t[x], s[j])
                                 /\ SeenBy(sweep, i - 1, j) => SeenBy(sweep, i, x)
  <2>1. CASE j = k
    BY <1>1, <1>2, <2>1
  <2>2. CASE j # k
    <3>1. j \in DOMAIN t /\ j # key /\ t[j] = s[j]
      BY <2>2
    <3>2. AtLeast(s[j], s[j])
      BY DEF AtLeast
    <3>q. QED BY <1>1, <3>1, <3>2
  <2>q. QED BY <2>1, <2>2
<1>9. NoneLost(s0, sweep, i, t)
  <2>1. ASSUME NEW x \in DOMAIN s0, Descendant(s0, s, x) PROVE Descendant(s0, t, x)
    <3>1. PICK j \in DOMAIN s : /\ KeyOf(s[j]) = x /\ IdOf(s[j]) = IdOf(s0[x])
                                /\ AtLeast(s[j], s0[x])
      BY <2>1 DEF Descendant
    <3>2. PICK y \in DOMAIN t : /\ IdOf(t[y]) = IdOf(s[j]) /\ MacOf(t[y]) = MacOf(s[j])
                                /\ AtLeast(t[y], s[j])
      BY <1>8
    <3>3. KeyOf(t[y]) = x /\ AtLeast(t[y], s0[x])
      BY <3>1, <3>2, KeyOfIs, AtLeastTransitive
    <3>q. QED BY <3>1, <3>2, <3>3 DEF Descendant
  <2>2. ASSUME NEW x \in DOMAIN s0, Handed(s0, sweep, i - 1, s, x)
        PROVE  Handed(s0, sweep, i, t, x)
    <3>1. PICK j \in DOMAIN s : /\ SeenBy(sweep, i - 1, j) /\ MacOf(s[j]) # "none"
                                /\ <<"mac", MacOf(s[j])>> # x /\ IdOf(s[j]) = IdOf(s0[x])
      BY <2>2 DEF Handed
    <3>2. PICK y \in DOMAIN t : /\ IdOf(t[y]) = IdOf(s[j]) /\ MacOf(t[y]) = MacOf(s[j])
                                /\ SeenBy(sweep, i, y)
      BY <1>8, <3>1
    <3>q. QED BY <3>1, <3>2 DEF Handed
  <2>3. ASSUME NewcomerTook(s0, sweep, i - 1, s) PROVE NewcomerTook(s0, sweep, i, t)
    <3>1. PICK j \in DOMAIN s :
            /\ SeenBy(sweep, i - 1, j) /\ MacOf(s[j]) # "none"
            /\ \E l \in 1..(i - 1) : MacOf(sweep[l]) = MacOf(s[j])
            /\ <<"mac", MacOf(s[j])>> \notin DOMAIN s0
            /\ \E x \in DOMAIN s0 : IdOf(s[j]) = IdOf(s0[x])
      BY <2>3 DEF NewcomerTook
    <3>2. PICK y \in DOMAIN t : /\ IdOf(t[y]) = IdOf(s[j]) /\ MacOf(t[y]) = MacOf(s[j])
                                /\ SeenBy(sweep, i, y)
      BY <1>8, <3>1
    <3>q. QED BY <1>1, <3>1, <3>2 DEF NewcomerTook
  <2>q. QED BY <1>3, <2>1, <2>2, <2>3 DEF NoneLost
<1>q. QED BY <1>4, <1>5, <1>6, <1>7, <1>9, <1>d DEF MidSweep

\* What a step that leaves the records under other keys than k does to them.
LEMMA OthersKept ==
  ASSUME NEW s0, NEW sweep, NEW i \in Nat \ {0}, NEW s, NEW k, NEW t,
         ~SeenBy(sweep, i - 1, k),
         \A x \in DOMAIN s : x # k => x \in DOMAIN t /\ t[x] = s[x]
  PROVE  /\ \A x \in DOMAIN s0 : Handed(s0, sweep, i - 1, s, x) => Handed(s0, sweep, i, t, x)
         /\ NewcomerTook(s0, sweep, i - 1, s) => NewcomerTook(s0, sweep, i, t)
         /\ \A x \in DOMAIN s0 :
              Descendant(s0, s, x) /\ (k \in DOMAIN s => KeyOf(s[k]) # x) => Descendant(s0, t, x)
<1>1. /\ \A x : SeenBy(sweep, i - 1, x) => SeenBy(sweep, i, x)
      /\ \A l \in 1..(i - 1) : l \in 1..i
  <2>1. \A l \in 1..(i - 1) : l \in 1..i
    OBVIOUS
  <2>q. QED BY <2>1 DEF SeenBy
<1>2. \A x \in DOMAIN s : SeenBy(sweep, i - 1, x) => x # k
  OBVIOUS
<1>3. ASSUME NEW x \in DOMAIN s0, Handed(s0, sweep, i - 1, s, x)
      PROVE  Handed(s0, sweep, i, t, x)
  BY <1>1, <1>2, <1>3 DEF Handed
<1>4. ASSUME NewcomerTook(s0, sweep, i - 1, s) PROVE NewcomerTook(s0, sweep, i, t)
  <2>1. PICK j \in DOMAIN s :
          /\ SeenBy(sweep, i - 1, j) /\ MacOf(s[j]) # "none"
          /\ \E l \in 1..(i - 1) : MacOf(sweep[l]) = MacOf(s[j])
          /\ <<"mac", MacOf(s[j])>> \notin DOMAIN s0
          /\ \E x \in DOMAIN s0 : IdOf(s[j]) = IdOf(s0[x])
    BY <1>4 DEF NewcomerTook
  <2>2. j \in DOMAIN t /\ t[j] = s[j]
    BY <1>2, <2>1
  <2>q. QED BY <1>1, <2>1, <2>2 DEF NewcomerTook
<1>5. ASSUME NEW x \in DOMAIN s0, Descendant(s0, s, x), k \in DOMAIN s => KeyOf(s[k]) # x
      PROVE  Descendant(s0, t, x)
  <2>1. PICK j \in DOMAIN s : /\ KeyOf(s[j]) = x /\ IdOf(s[j]) = IdOf(s0[x])
                              /\ AtLeast(s[j], s0[x])
    BY <1>5 DEF Descendant
  <2>2. j \in DOMAIN t /\ t[j] = s[j]
    BY <1>5, <2>1
  <2>q. QED BY <2>1, <2>2 DEF Descendant
<1>q. QED BY <1>3, <1>4, <1>5

\* A device that matches no record.
LEMMA NewIs ==
  ASSUME NEW s0, NEW sweep, NEW i \in Nat \ {0}, NEW s, MidSweep(s0, sweep, i - 1, s),
         NEW key, key = KeyOf(sweep[i]), key \notin DOMAIN s,
         ~MacKey(IdOf(sweep[i])), ~DocKey(IdOf(sweep[i])),
         MacOf(sweep[i]) = "none" => Fits(IdOf(sweep[i]), IpOf(sweep[i])),
         MacOf(sweep[i]) # "none" => \A x \in DOMAIN s : MacOf(s[x]) # MacOf(sweep[i]),
         NEW t, t = With(s, key, NewRecord(sweep[i]))
  PROVE  MidSweep(s0, sweep, i, t)
<1>1. /\ \A x : SeenBy(sweep, i, x) <=> SeenBy(sweep, i - 1, x) \/ x = key
      /\ i \in 1..i /\ \A l \in 1..(i - 1) : l \in 1..i
  BY SeenNext
<1>. DEFINE u == NewRecord(sweep[i])
<1>2. /\ RecordOK(u) /\ IdOf(u) = IdOf(sweep[i]) /\ IpOf(u) = IpOf(sweep[i])
      /\ MacOf(u) = MacOf(sweep[i]) /\ (Active(u) <=> Present(sweep[i]))
  BY NewRecordIs
<1>. HIDE DEF u
<1>3. DOMAIN t = DOMAIN s \cup {key} /\ t[key] = u /\ \A x \in DOMAIN s : t[x] = s[x]
  BY DEF With, u
<1>4. /\ Loose(s) /\ Unseen(s0, sweep, i - 1, s) /\ AsSeen(sweep, i - 1, s)
      /\ SharedSeen(sweep, i - 1, s) /\ Displaced(s0, sweep, i - 1, s) /\ NoneLost(s0, sweep, i - 1, s)
  BY DEF MidSweep
<1>5. key = IF MacOf(u) # "none" THEN <<"mac", MacOf(u)>> ELSE IdOf(u)
  BY <1>2, KeyOfIs
<1>6. /\ key \in DOMAIN t /\ \A x \in DOMAIN t : x = key \/ x \in DOMAIN s
      /\ \A x \in DOMAIN s : x # key /\ x \in DOMAIN t
  BY <1>3
<1>7. Loose(t)
  <2>1. IsFiniteSet(DOMAIN t)
    BY <1>3, <1>4, FS_AddElement DEF Loose
  <2>2. MacKey(key) => key = <<"mac", MacOf(u)>>
    BY <1>2, <1>5
  <2>d. ~DocKey(key) /\ ~DocId(u)
    <3>1. ~DocKey(IdOf(u))
      BY <1>2
    <3>2. MacOf(u) # "none" => MacKey(key)
      BY <1>5, MacKeyIs
    <3>q. QED BY <1>5, <3>1, <3>2 DEF DocKey, DocId, MacKey
  <2>3. LooseRecords(t)
    BY <1>2, <1>3, <1>4, <1>6, <2>2, <2>d DEF Loose, LooseRecords
  <2>4. OneForEachMac(t)
    BY <1>2, <1>3, <1>4, <1>6 DEF Loose, OneForEachMac
  <2>q. QED BY <2>1, <2>3, <2>4 DEF Loose
<1>8. Unseen(s0, sweep, i, t)
  BY <1>1, <1>3, <1>4, <1>6 DEF Unseen
<1>9. AsSeen(sweep, i, t)
  <2>1. ASSUME NEW x \in DOMAIN t, SeenBy(sweep, i, x)
        PROVE  \E l \in 1..i : SeenAs(sweep, l, x, t[x])
    <3>1. CASE x = key
      BY <1>1, <1>2, <1>3, <3>1 DEF SeenAs
    <3>2. CASE x # key
      <4>1. x \in DOMAIN s /\ t[x] = s[x] /\ SeenBy(sweep, i - 1, x)
        BY <1>1, <1>3, <1>6, <2>1, <3>2
      <4>2. PICK l \in 1..(i - 1) : SeenAs(sweep, l, x, s[x])
        BY <1>4, <4>1 DEF AsSeen
      <4>q. QED BY <1>1, <4>1, <4>2
    <3>q. QED BY <3>1, <3>2
  <2>q. QED BY <2>1 DEF AsSeen
<1>10. SharedSeen(sweep, i, t)
  <2>1. SUFFICES ASSUME NEW x \in DOMAIN t, NEW y \in DOMAIN t, x # y, MacOf(t[x]) = "none",
                        MacOf(t[y]) = "none", IdOf(t[x]) = IdOf(t[y]), ~DocId(t[x])
                 PROVE  SeenBy(sweep, i, IdOf(t[x]))
    BY DEF SharedSeen
  <2>2. CASE x = key \/ y = key
    <3>1. IdOf(t[x]) = key
      BY <1>3, <1>5, <2>1, <2>2
    <3>q. QED BY <1>1, <3>1
  <2>3. CASE x # key /\ y # key
    <3>1. x \in DOMAIN s /\ t[x] = s[x] /\ y \in DOMAIN s /\ t[y] = s[y]
      BY <1>3, <1>6, <2>3
    <3>q. QED BY <1>1, <1>4, <2>1, <3>1 DEF SharedSeen
  <2>q. QED BY <2>2, <2>3
<1>d. Displaced(s0, sweep, i, t)
  <2>1. SUFFICES ASSUME NEW x \in DOMAIN t, NEW l \in 1..i, MacOf(t[x]) = "none", IdOf(t[x]) # x,
                        KeyOf(sweep[l]) = x, IpOf(sweep[l]) # <<>>, ~Present(sweep[l])
                 PROVE  OldPlace(s0, t[x])
    BY DEF Displaced
  <2>2. x # key
    BY <1>3, <1>5, <2>1
  <2>3. l # i
    BY <2>1, <2>2
  <2>4. l \in 1..(i - 1)
    BY <2>3
  <2>5. x \in DOMAIN s /\ t[x] = s[x]
    BY <1>3, <1>6, <2>2
  <2>q. QED BY <1>4, <2>1, <2>4, <2>5 DEF Displaced
<1>11. NoneLost(s0, sweep, i, t)
  <2>1. \A x \in DOMAIN s0 : Descendant(s0, s, x) => Descendant(s0, t, x)
    BY <1>3, <1>6 DEF Descendant
  <2>2. \A x \in DOMAIN s0 : Handed(s0, sweep, i - 1, s, x) => Handed(s0, sweep, i, t, x)
    BY <1>1, <1>3, <1>6 DEF Handed
  <2>3. ASSUME NewcomerTook(s0, sweep, i - 1, s) PROVE NewcomerTook(s0, sweep, i, t)
    <3>1. PICK j \in DOMAIN s :
            /\ SeenBy(sweep, i - 1, j) /\ MacOf(s[j]) # "none"
            /\ \E l \in 1..(i - 1) : MacOf(sweep[l]) = MacOf(s[j])
            /\ <<"mac", MacOf(s[j])>> \notin DOMAIN s0
            /\ \E x \in DOMAIN s0 : IdOf(s[j]) = IdOf(s0[x])
      BY <2>3 DEF NewcomerTook
    <3>2. j \in DOMAIN t /\ t[j] = s[j]
      BY <1>3, <1>6
    <3>q. QED BY <1>1, <3>1, <3>2 DEF NewcomerTook
  <2>q. QED BY <1>4, <2>1, <2>2, <2>3 DEF NoneLost
<1>q. QED BY <1>7, <1>8, <1>9, <1>10, <1>11, <1>d DEF MidSweep

\* A device takes the record that has its address, and gives it its MAC.
LEMMA TakenIs ==
  ASSUME NEW s0, Canonical(s0), NEW sweep, SweepOK(sweep), NEW i \in DOMAIN sweep, i \in Nat \ {0},
         \A l \in 1..i : l \in DOMAIN sweep, NEW s, MidSweep(s0, sweep, i - 1, s),
         NEW m, m = MacOf(sweep[i]), m # "none", NEW key, key = <<"mac", m>>,
         key \notin DOMAIN s, \A x \in DOMAIN s : MacOf(s[x]) # m,
         NEW k \in DOMAIN s, IpOf(sweep[i]) # <<>>, IpOf(s[k]) = IpOf(sweep[i]),
         NEW t, t = With(Without(s, k), key, Updated(s[k], sweep[i]))
  PROVE  MidSweep(s0, sweep, i, t)
<1>. DEFINE u == Updated(s[k], sweep[i])
<1>1. /\ Loose(s) /\ Unseen(s0, sweep, i - 1, s) /\ AsSeen(sweep, i - 1, s)
      /\ SharedSeen(sweep, i - 1, s) /\ Displaced(s0, sweep, i - 1, s) /\ NoneLost(s0, sweep, i - 1, s)
  BY DEF MidSweep
<1>2. /\ RecordOK(u) /\ IdOf(u) = IdOf(s[k]) /\ IpOf(u) = IpOf(sweep[i]) /\ MacOf(u) = m
      /\ Active(u) <=> Present(sweep[i])
  <2>1. RecordOK(s[k]) /\ ~DocId(s[k])
    BY <1>1 DEF Loose, LooseRecords, RecordOK
  <2>q. QED BY <2>1, UpdatedIs
<1>. HIDE DEF u
<1>3. DOMAIN t = (DOMAIN s \ {k}) \cup {key} /\ t[key] = u
      /\ \A x \in DOMAIN s : x # k => t[x] = s[x]
  BY DEF With, Without, u
<1>4. key = KeyOf(sweep[i]) /\ MacKey(key)
  BY KeyOfIs, MacKeyIs
<1>5. /\ \A x : SeenBy(sweep, i, x) <=> SeenBy(sweep, i - 1, x) \/ x = key
      /\ i \in 1..i
  BY <1>4, SeenNext
<1>6. \A l \in 1..(i - 1) : l \in 1..i /\ l # i
  OBVIOUS
<1>7. /\ key \in DOMAIN t /\ key # k
      /\ \A x \in DOMAIN t : x = key \/ (x \in DOMAIN s /\ x # k /\ x # key /\ t[x] = s[x])
      /\ \A x \in DOMAIN s : x # k => x \in DOMAIN t /\ t[x] = s[x]
  BY <1>3
<1>8. ~SeenBy(sweep, i - 1, k)
  <2>1. SUFFICES ASSUME SeenBy(sweep, i - 1, k) PROVE FALSE
    OBVIOUS
  <2>2. PICK l \in 1..(i - 1) : IpOf(s[k]) = IpOf(sweep[l])
    BY <1>1, <2>1 DEF AsSeen, SeenAs
  <2>3. l \in DOMAIN sweep /\ l # i
    BY <1>6
  <2>q. QED BY <2>2, <2>3 DEF SweepOK
<1>9. k \in DOMAIN s0 /\ s[k] = s0[k] /\ KeyOf(s[k]) = k
  <2>1. k \in DOMAIN s0 /\ s[k] = s0[k]
    BY <1>1, <1>8 DEF Unseen
  <2>2. ~DocId(s0[k])
    BY <2>1 DEF Canonical, RecordOK
  <2>q. QED BY <2>1, <2>2, OwnKey
<1>10. Loose(t)
  <2>1. IsFiniteSet(DOMAIN t)
    <3>1. IsFiniteSet(DOMAIN s \ {k})
      BY <1>1, FS_RemoveElement DEF Loose
    <3>2. IsFiniteSet((DOMAIN s \ {k}) \cup {key})
      BY <3>1, FS_AddElement
    <3>q. QED BY <1>3, <3>2
  <2>d. ~DocKey(key) /\ ~DocId(u)
    BY <1>2, <1>4 DEF RecordOK, MacKey, DocKey
  <2>2. LooseRecords(t)
    BY <1>1, <1>2, <1>3, <1>7, <2>d DEF Loose, LooseRecords
  <2>3. OneForEachMac(t)
    BY <1>1, <1>2, <1>3, <1>7 DEF Loose, OneForEachMac
  <2>q. QED BY <2>1, <2>2, <2>3 DEF Loose
<1>11. Unseen(s0, sweep, i, t)
  BY <1>1, <1>5, <1>7 DEF Unseen
<1>12. AsSeen(sweep, i, t)
  <2>1. ASSUME NEW x \in DOMAIN t, SeenBy(sweep, i, x)
        PROVE  \E l \in 1..i : SeenAs(sweep, l, x, t[x])
    <3>1. CASE x = key
      BY <1>2, <1>3, <1>4, <1>5, <3>1 DEF SeenAs
    <3>2. CASE x # key
      <4>1. x \in DOMAIN s /\ t[x] = s[x] /\ SeenBy(sweep, i - 1, x)
        BY <1>5, <1>7, <2>1, <3>2
      <4>2. PICK l \in 1..(i - 1) : SeenAs(sweep, l, x, s[x])
        BY <1>1, <4>1 DEF AsSeen
      <4>q. QED BY <1>6, <4>1, <4>2
    <3>q. QED BY <3>1, <3>2
  <2>q. QED BY <2>1 DEF AsSeen
<1>13. SharedSeen(sweep, i, t)
  <2>1. SUFFICES ASSUME NEW x \in DOMAIN t, NEW y \in DOMAIN t, x # y, MacOf(t[x]) = "none",
                        MacOf(t[y]) = "none", IdOf(t[x]) = IdOf(t[y]), ~DocId(t[x])
                 PROVE  SeenBy(sweep, i, IdOf(t[x]))
    BY DEF SharedSeen
  <2>2. x # key /\ y # key
    BY <1>2, <1>3, <2>1
  <2>3. x \in DOMAIN s /\ t[x] = s[x] /\ y \in DOMAIN s /\ t[y] = s[y]
    BY <1>7, <2>2
  <2>q. QED BY <1>1, <1>5, <2>1, <2>3 DEF SharedSeen
<1>d. Displaced(s0, sweep, i, t)
  <2>1. SUFFICES ASSUME NEW x \in DOMAIN t, NEW l \in 1..i, MacOf(t[x]) = "none", IdOf(t[x]) # x,
                        KeyOf(sweep[l]) = x, IpOf(sweep[l]) # <<>>, ~Present(sweep[l])
                 PROVE  OldPlace(s0, t[x])
    BY DEF Displaced
  <2>2. x # key
    BY <1>2, <1>3, <2>1
  <2>3. l # i
    BY <1>4, <2>1, <2>2
  <2>4. l \in 1..(i - 1)
    BY <2>3
  <2>5. x \in DOMAIN s /\ t[x] = s[x]
    BY <1>7, <2>2
  <2>q. QED BY <1>1, <2>1, <2>4, <2>5 DEF Displaced
<1>14. /\ \A x \in DOMAIN s0 : Handed(s0, sweep, i - 1, s, x) => Handed(s0, sweep, i, t, x)
       /\ NewcomerTook(s0, sweep, i - 1, s) => NewcomerTook(s0, sweep, i, t)
       /\ \A x \in DOMAIN s0 :
            Descendant(s0, s, x) /\ (k \in DOMAIN s => KeyOf(s[k]) # x) => Descendant(s0, t, x)
  <2>1. \A x \in DOMAIN s : x # k => x \in DOMAIN t /\ t[x] = s[x]
    BY <1>7
  <2>2. i \in Nat \ {0}
    OBVIOUS
  <2>q. QED BY ONLY <1>8, <2>1, <2>2, OthersKept
<1>15. Handed(s0, sweep, i, t, k)
  BY <1>2, <1>3, <1>5, <1>7, <1>9 DEF Handed
<1>16. NewcomerTook(s0, sweep, i, t)
  <2>1. CASE key \notin DOMAIN s0
    <3>1. /\ key \in DOMAIN t /\ SeenBy(sweep, i, key) /\ MacOf(t[key]) = m
          /\ IdOf(t[key]) = IdOf(s0[k])
      BY <1>2, <1>3, <1>5, <1>7, <1>9
    <3>2. \E l \in 1..i : MacOf(sweep[l]) = m
      BY <1>5
    <3>q. QED BY <1>9, <2>1, <3>1, <3>2 DEF NewcomerTook
  <2>2. CASE key \in DOMAIN s0
    <3>1. ~Descendant(s0, s, key)
      <4>1. SUFFICES ASSUME NEW j \in DOMAIN s, KeyOf(s[j]) = key PROVE FALSE
        BY DEF Descendant
      <4>2. ~MacKey(IdOf(s[j]))
        BY <1>1 DEF Loose, LooseRecords, RecordOK
      <4>3. KeyOf(s[j]) = <<"mac", MacOf(s[j])>>
        BY <1>4, <4>1, <4>2, KeyOfIs
      <4>4. MacOf(s[j]) = m
        BY <4>1, <4>3
      <4>q. QED BY <4>4
    <3>2. KeyOf(s0[key]) = key
      BY <1>4, <2>2, OwnKey
    <3>q. QED BY <1>1, <1>14, <2>2, <3>1, <3>2 DEF NoneLost
  <2>q. QED BY <2>1, <2>2
<1>17. NoneLost(s0, sweep, i, t)
  BY <1>1, <1>9, <1>14, <1>15, <1>16 DEF NoneLost
<1>q. QED BY <1>10, <1>11, <1>12, <1>13, <1>17, <1>d DEF MidSweep

\* What has the key of a device without MAC has its id: it was not seen yet.
LEMMA SameIdUnseen ==
  ASSUME NEW s0, Canonical(s0), NEW sweep, SweepOK(sweep), NEW i \in DOMAIN sweep, i \in Nat \ {0},
         \A l \in 1..i : l \in DOMAIN sweep, NEW s, MidSweep(s0, sweep, i - 1, s),
         MacOf(sweep[i]) = "none", NEW k \in DOMAIN s, k = KeyOf(sweep[i])
  PROVE  IdOf(s[k]) = IdOf(sweep[i]) /\ MacOf(s[k]) = "none"
<1>1. k = IdOf(sweep[i]) /\ ~MacKey(k) /\ ~DocKey(k)
  BY KeyOfIs DEF SweepOK
<1>2. ~SeenBy(sweep, i - 1, k)
  <2>1. SUFFICES ASSUME NEW l \in 1..(i - 1), KeyOf(sweep[l]) = k PROVE FALSE
    BY DEF SeenBy
  <2>2. l \in 1..i /\ l # i
    OBVIOUS
  <2>3. l \in DOMAIN sweep
    BY <2>2
  <2>4. IdOf(sweep[l]) = k
    BY <1>1, <2>1, KeyOfIs, MacKeyIs
  <2>q. QED BY <1>1, <2>2, <2>3, <2>4 DEF SweepOK
<1>3. k \in DOMAIN s0 /\ s[k] = s0[k]
  BY <1>2 DEF MidSweep, Unseen
<1>4. KeyOf(s0[k]) = k
  BY <1>1, <1>3, OwnKey DEF Canonical
<1>q. QED BY <1>1, <1>3, <1>4, KeyOfIs, MacKeyIs

\* One device of a sweep.
LEMMA DeviceIs ==
  ASSUME NEW s0, Canonical(s0), NEW sweep, SweepOK(sweep), NEW i \in DOMAIN sweep, i \in Nat \ {0},
         \A l \in 1..i : l \in DOMAIN sweep, NEW s, MidSweep(s0, sweep, i - 1, s),
         NEW t \in ReconcileDevice(s, sweep[i])
  PROVE  MidSweep(s0, sweep, i, t)
<1>. DEFINE d == sweep[i]
            key == KeyOf(d)
            old == MatchedKeys(s, d)
<1>1. /\ key = IF MacOf(d) # "none" THEN <<"mac", MacOf(d)>> ELSE IdOf(d)
      /\ ~MacKey(IdOf(d)) /\ ~DocKey(IdOf(d))
      /\ MacOf(d) = "none" => Fits(IdOf(d), IpOf(d))
  BY KeyOfIs DEF SweepOK
<1>2. Loose(s)
  BY DEF MidSweep
<1>3. old = IF key \in DOMAIN s THEN {key}
            ELSE IF {k \in DOMAIN s : MacOf(d) # "none" /\ MacOf(s[k]) = MacOf(d)} # {}
                   THEN {k \in DOMAIN s : MacOf(d) # "none" /\ MacOf(s[k]) = MacOf(d)}
                   ELSE {k \in DOMAIN s : IpOf(d) # <<>> /\ IpOf(s[k]) = IpOf(d)}
  BY DEF MatchedKeys, KeyOf, MacOf, IpOf
<1>4. t \in IF old = {} THEN {With(s, key, NewRecord(d))}
            ELSE {With(Without(s, k), key, Updated(s[k], d)) : k \in old}
  BY DEF ReconcileDevice, KeyOf
<1>. HIDE DEF d, key, old
<1>5. CASE old = {}
  <2>1. key \notin DOMAIN s
    BY <1>3, <1>5
  <2>2. MacOf(d) # "none" => \A x \in DOMAIN s : MacOf(s[x]) # MacOf(d)
    BY <1>3, <1>5, <2>1
  <2>3. t = With(s, key, NewRecord(d))
    BY <1>4, <1>5
  <2>q. QED BY <1>1, <2>1, <2>2, <2>3, NewIs DEF d, key
<1>6. ASSUME NEW k \in old, old # {} PROVE k \in DOMAIN s /\ (key \in DOMAIN s => k = key)
  BY <1>3, <1>6
<1>7. ASSUME NEW k \in old, t = With(Without(s, k), key, Updated(s[k], d))
      PROVE  MidSweep(s0, sweep, i, t)
  <2>. DEFINE u == Updated(s[k], d)
  <2>1. k \in DOMAIN s /\ (key \in DOMAIN s => k = key)
    BY <1>6
  <2>2. /\ RecordOK(s[k]) /\ (MacKey(k) => k = <<"mac", MacOf(s[k])>>)
        /\ DocKey(k) <=> DocId(s[k])
    BY <1>2, <2>1 DEF Loose, LooseRecords
  <2>k. MacOf(d) = "none" /\ k = key => IdOf(s[k]) = IdOf(d) /\ MacOf(s[k]) = "none"
    BY <1>1, <2>1, SameIdUnseen DEF d, key
  <2>m. k = key \/ (MacOf(d) # "none" /\ MacOf(s[k]) = MacOf(d))
          \/ (IpOf(d) # <<>> /\ IpOf(s[k]) = IpOf(d))
    BY <1>3, <1>7
  <2>c. ~DocId(s[k])
    <3>1. CASE k = key /\ MacOf(d) # "none"
      <4>1. MacKey(k)
        BY <1>1, <3>1, MacKeyIs
      <4>q. QED BY <2>2, <4>1 DEF MacKey, DocKey
    <3>2. CASE k = key /\ MacOf(d) = "none"
      BY <1>1, <2>k, <3>2 DEF DocId, DocKey
    <3>3. CASE k # key
      BY <2>2, <2>m, <3>3 DEF RecordOK
    <3>q. QED BY <3>1, <3>2, <3>3
  <2>f. MacOf(s[k]) = "none" /\ MacOf(d) = "none" => Fits(IdOf(s[k]), IpOf(d))
    BY <1>1, <2>2, <2>k, <2>m DEF RecordOK
  <2>3. /\ RecordOK(u) /\ IdOf(u) = IdOf(s[k]) /\ IpOf(u) = IpOf(d) /\ AtLeast(u, s[k])
        /\ MacOf(u) = IF MacOf(d) # "none" THEN MacOf(d) ELSE MacOf(s[k])
        /\ Active(u) <=> Present(d)
    BY <2>2, <2>c, <2>f, UpdatedIs
  <2>. HIDE DEF u
  <2>4. CASE MacOf(d) = "none" \/ MacOf(d) = MacOf(s[k])
    <3>1. MacOf(u) = MacOf(s[k])
      BY <2>3, <2>4
    <3>2. MacKey(key) => key = <<"mac", MacOf(u)>>
      BY <1>1, <2>3, <2>4, <3>1
    <3>3. DOMAIN t = (DOMAIN s \ {k}) \cup {key} /\ t[key] = u
          /\ \A x \in DOMAIN t : x # key => t[x] = s[x]
      BY <1>7 DEF With, Without, u
    <3>4. IsFiniteSet(DOMAIN t)
      <4>1. IsFiniteSet(DOMAIN s \ {k})
        BY <1>2, FS_RemoveElement DEF Loose
      <4>2. IsFiniteSet((DOMAIN s \ {k}) \cup {key})
        BY ONLY <4>1, FS_AddElement
      <4>3. DOMAIN t = (DOMAIN s \ {k}) \cup {key}
        BY ONLY <3>3
      <4>q. QED BY ONLY <4>2, <4>3
    <3>5. \A x : x \in DOMAIN t <=> (x \in DOMAIN s /\ x # k) \/ x = key
      BY <3>3
    <3>6. SeenAs(sweep, i, key, u)
      <4>1. IpOf(d) # <<>> \/ MacOf(d) # "none" \/ IdOf(u) = IdOf(d)
        BY <2>3, <2>k, <2>m
      <4>q. QED BY <2>3, <4>1 DEF SeenAs, d, key
    <3>7. ASSUME MacOf(u) = "none", IdOf(u) # key, IpOf(d) # <<>>, ~Present(d)
          PROVE  OldPlace(s0, u)
      <4>1. MacOf(d) = "none" /\ MacOf(s[k]) = "none" /\ IdOf(s[k]) # key
        BY <2>3, <3>1, <3>7
      <4>2. k # key /\ IpOf(s[k]) = IpOf(d)
        BY <1>1, <2>k, <2>m, <4>1
      <4>3. ~SeenBy(sweep, i - 1, k)
        <5>1. SUFFICES ASSUME SeenBy(sweep, i - 1, k) PROVE FALSE
          OBVIOUS
        <5>2. PICK l \in 1..(i - 1) : IpOf(s[k]) = IpOf(sweep[l])
          BY <2>1, <5>1 DEF MidSweep, AsSeen, SeenAs
        <5>3. l \in 1..i /\ l # i
          OBVIOUS
        <5>4. l \in DOMAIN sweep
          BY <5>3
        <5>5. IpOf(sweep[l]) = IpOf(sweep[i]) /\ IpOf(sweep[i]) # <<>> /\ ~Present(sweep[i])
          BY <3>7, <4>2, <5>2 DEF d
        <5>q. QED BY <5>3, <5>4, <5>5 DEF SweepOK
      <4>4. k \in DOMAIN s0 /\ s[k] = s0[k]
        BY <2>1, <4>3 DEF MidSweep, Unseen
      <4>5. KeyOf(s0[k]) = k
        BY <2>c, <4>4, OwnKey
      <4>6. IdOf(s[k]) = k
        BY <4>1, <4>4, <4>5, KeyOfIs
      <4>q. QED BY <2>3, <4>1, <4>2, <4>4, <4>6 DEF OldPlace
    <3>q. QED BY <2>1, <2>3, <2>c, <3>1, <3>2, <3>3, <3>4, <3>5, <3>6, <3>7, MovedIs DEF d, key
  <2>5. CASE MacOf(d) # "none" /\ MacOf(d) # MacOf(s[k])
    <3>1. key = <<"mac", MacOf(d)>>
      BY <1>1, <2>5
    <3>2. key \notin DOMAIN s
      <4>1. SUFFICES ASSUME key \in DOMAIN s PROVE FALSE
        OBVIOUS
      <4>2. k = key /\ MacKey(k)
        BY <2>1, <3>1, <4>1, MacKeyIs
      <4>3. <<"mac", MacOf(d)>> = <<"mac", MacOf(s[k])>>
        BY <2>2, <3>1, <4>2
      <4>q. QED BY <2>5, <4>3
    <3>3. /\ \A x \in DOMAIN s : MacOf(s[x]) # MacOf(d)
          /\ IpOf(d) # <<>> /\ IpOf(s[k]) = IpOf(d)
      BY <1>3, <1>7, <2>5, <3>2
    <3>q. QED BY <1>7, <2>1, <2>5, <3>1, <3>2, <3>3, TakenIs DEF d
  <2>q. QED BY <2>4, <2>5
<1>q. QED BY <1>4, <1>5, <1>7

\* The stores when every device of a sweep has been reconciled.
LEMMA SweptIs ==
  ASSUME NEW s0, Canonical(s0), NEW sweep, NEW n \in Nat, DOMAIN sweep = 1..n, SweepOK(sweep),
         NEW s \in Swept({s0}, sweep)
  PROVE  MidSweep(s0, sweep, n, s)
<1>. DEFINE first == {s0}
<1>. HIDE DEF first
<1>1. PICK f : /\ f[0] = first
               /\ \A i \in 1..n : f[i] = EachReconciled(f[i - 1], sweep[i])
               /\ Swept(first, sweep) = f[n]
  <2>1. SweptRun(first, sweep, n, Swept(first, sweep))
    BY SweepFold
  <2>q. QED BY <2>1 DEF SweptRun
<1>. DEFINE Good == {i \in 0..n : \A r \in f[i] : MidSweep(s0, sweep, i, r)}
<1>2. 0 \in Good
  BY <1>1, BeforeSweep DEF first
<1>3. ASSUME NEW i \in 1..n, i - 1 \in Good PROVE i \in Good
  <2>1. \A r \in f[i - 1] : MidSweep(s0, sweep, i - 1, r)
    BY <1>3
  <2>2. f[i] = UNION {ReconcileDevice(r, sweep[i]) : r \in f[i - 1]}
    BY <1>1 DEF EachReconciled
  <2>3. i \in 0..n /\ i \in DOMAIN sweep /\ i \in Nat \ {0} /\ \A l \in 1..i : l \in DOMAIN sweep
    OBVIOUS
  <2>4. ASSUME NEW t \in f[i] PROVE MidSweep(s0, sweep, i, t)
    <3>1. PICK r \in f[i - 1] : t \in ReconcileDevice(r, sweep[i])
      BY <2>2
    <3>2. MidSweep(s0, sweep, i - 1, r)
      BY <2>1
    <3>. HIDE DEF Good
    <3>q. QED BY <2>3, <3>1, <3>2, DeviceIs
  <2>q. QED BY <2>3, <2>4
<1>4. n \in Good
  <2>1. \A i \in 1..n : i - 1 \in Good => i \in Good
    BY <1>3
  <2>2. n \in 0..n /\ n \in Nat
    OBVIOUS
  <2>. HIDE DEF Good
  <2>q. QED BY ONLY <1>2, <2>1, <2>2, Induct
<1>q. QED BY <1>1, <1>4 DEF first

\* Records that were not seen become inactive, and nothing else (mark_missing).
LEMMA MissingMarked ==
  ASSUME NEW s, Loose(s), NEW sweep, NEW n \in Nat, DOMAIN sweep = 1..n,
         NEW r, r = MarkMissing(s, sweep)
  PROVE  /\ Loose(r) /\ DOMAIN r = DOMAIN s
         /\ \A k \in DOMAIN s :
              /\ KeyOf(r[k]) = KeyOf(s[k]) /\ IdOf(r[k]) = IdOf(s[k])
              /\ MacOf(r[k]) = MacOf(s[k]) /\ IpOf(r[k]) = IpOf(s[k]) /\ AtLeast(r[k], s[k])
              /\ Active(r[k]) => Active(s[k]) /\ SeenBy(sweep, n, k)
<1>1. \A k : k \in SeenKeys(sweep) <=> SeenBy(sweep, n, k)
  BY DEF SeenKeys, SeenBy, KeyOf
<1>2. DOMAIN r = DOMAIN s
  BY DEF MarkMissing
<1>3. ASSUME NEW k \in DOMAIN s
      PROVE  /\ RecordOK(r[k])
             /\ KeyOf(r[k]) = KeyOf(s[k]) /\ IdOf(r[k]) = IdOf(s[k])
             /\ MacOf(r[k]) = MacOf(s[k]) /\ IpOf(r[k]) = IpOf(s[k]) /\ AtLeast(r[k], s[k])
             /\ Active(r[k]) => Active(s[k]) /\ SeenBy(sweep, n, k)
  <2>1. RecordOK(s[k])
    BY DEF Loose, LooseRecords
  <2>2. CASE k \in SeenKeys(sweep)
    <3>1. r[k] = s[k]
      BY <2>2 DEF MarkMissing
    <3>q. QED BY <1>1, <2>1, <2>2, <3>1 DEF AtLeast
  <2>3. CASE k \notin SeenKeys(sweep)
    <3>1. r[k] = [s[k] EXCEPT !.active = FALSE]
      BY <2>3 DEF MarkMissing
    <3>q. QED BY <2>1, <3>1, MissingIs
  <2>q. QED BY <2>2, <2>3
<1>4. LooseRecords(r)
  <2>1. \A k \in DOMAIN s : DocId(r[k]) <=> DocId(s[k])
    BY <1>3 DEF DocId
  <2>q. QED BY <1>2, <1>3, <2>1 DEF Loose, LooseRecords
<1>5. OneForEachMac(r)
  BY <1>2, <1>3 DEF Loose, OneForEachMac
<1>q. QED BY <1>2, <1>3, <1>4, <1>5 DEF Loose

\* A record without MAC that was seen has the id of a device for its key.
LEMMA SeenById ==
  ASSUME NEW s, Loose(s), NEW sweep, NEW k \in DOMAIN s, MacOf(s[k]) = "none",
         NEW l, KeyOf(sweep[l]) = k
  PROVE  MacOf(sweep[l]) = "none" /\ IdOf(sweep[l]) = k
<1>1. SUFFICES ASSUME MacOf(sweep[l]) # "none" PROVE FALSE
  BY KeyOfIs
<1>2. k = <<"mac", MacOf(sweep[l])>> /\ MacKey(k)
  BY <1>1, KeyOfIs, MacKeyIs
<1>3. k = <<"mac", MacOf(s[k])>>
  BY <1>2 DEF Loose, LooseRecords
<1>q. QED BY <1>1, <1>2, <1>3

\* What a device reports of an active record.
Reports(d, r) ==
  /\ Present(d)
  /\ \/ MacOf(d) # "none" /\ MacOf(d) = MacOf(r)
     \/ IpOf(d) # <<>> /\ IpOf(d) = IpOf(r)
     \/ IdOf(d) = IdOf(r)

Reported(sweep, r) == \E i \in DOMAIN sweep : Reports(sweep[i], r)

\* A record is reported when it has the id and MAC of an active record, and the
\* address of one that has the same key.
LEMMA OwnActive ==
  ASSUME NEW s0, Canonical(s0), NEW sweep, NEW n \in Nat, DOMAIN sweep = 1..n, SweepOK(sweep),
         NEW s, MidSweep(s0, sweep, n, s), NEW j \in DOMAIN s, NEW k \in DOMAIN s,
         KeyOf(s[j]) = KeyOf(s[k]), Active(s[j]), SeenBy(sweep, n, j),
         NEW q, RecordOK(q), IdOf(q) = IdOf(s[j]), MacOf(q) = MacOf(s[j]), IpOf(q) = IpOf(s[k])
  PROVE  Reported(sweep, q)
<1>1. Loose(s) /\ AsSeen(sweep, n, s) /\ SharedSeen(sweep, n, s)
  BY DEF MidSweep
<1>2. PICK l \in 1..n : SeenAs(sweep, l, j, s[j])
  BY <1>1 DEF AsSeen
<1>3. Present(sweep[l]) /\ l \in DOMAIN sweep /\ IpOf(s[j]) = IpOf(sweep[l]) /\ KeyOf(sweep[l]) = j
  BY <1>2 DEF SeenAs
<1>4. CASE IdOf(sweep[l]) = IdOf(s[j])
  BY <1>3, <1>4 DEF Reported, Reports
<1>5. CASE k = j /\ IpOf(sweep[l]) # <<>>
  BY <1>3, <1>5 DEF Reported, Reports
<1>6. CASE MacOf(s[j]) # "none"
  <2>1. k = j
    BY <1>1, <1>6, SameKey
  <2>2. CASE MacOf(sweep[l]) # "none"
    <3>1. j = <<"mac", MacOf(sweep[l])>> /\ MacKey(j)
      BY <1>3, <2>2, KeyOfIs, MacKeyIs
    <3>2. j = <<"mac", MacOf(s[j])>>
      BY <1>1, <3>1 DEF Loose, LooseRecords
    <3>3. MacOf(sweep[l]) = MacOf(s[j])
      BY <3>1, <3>2
    <3>q. QED BY <1>3, <2>2, <3>3 DEF Reported, Reports
  <2>3. CASE MacOf(sweep[l]) = "none"
    BY <1>2, <1>4, <1>5, <2>1, <2>3 DEF SeenAs
  <2>q. QED BY <2>2, <2>3
<1>7. CASE MacOf(s[j]) = "none" /\ k = j
  <2>1. MacOf(sweep[l]) = "none"
    BY <1>1, <1>3, <1>7, SeenById
  <2>q. QED BY <1>2, <1>4, <1>5, <1>7, <2>1 DEF SeenAs
<1>8. CASE MacOf(s[j]) = "none" /\ k # j
  <2>1. IdOf(s[j]) = IdOf(s[k]) /\ MacOf(s[k]) = "none"
    BY <1>1, <1>8, SameKey
  <2>2. RecordOK(s[j]) /\ ~DocId(s[j])
    BY <1>1 DEF Loose, LooseRecords, RecordOK
  <2>. DEFINE x == IdOf(s[j])
  <2>3. PICK h \in 1..n : KeyOf(sweep[h]) = x
    BY <1>1, <1>8, <2>1, <2>2 DEF SharedSeen, SeenBy
  <2>4. MacOf(sweep[h]) = "none" /\ IdOf(sweep[h]) = x /\ h \in DOMAIN sweep
    <3>1. ~MacKey(x)
      BY <2>2 DEF RecordOK
    <3>q. QED BY <2>3, <3>1, KeyOfIs, MacKeyIs
  <2>5. CASE Present(sweep[h])
    BY <2>4, <2>5 DEF Reported, Reports
  <2>6. CASE ~Present(sweep[h]) /\ x[1] = "net-ip"
    <3>1. IpOf(s[j]) = <<x[2]>> /\ IpOf(q) = <<x[2]>>
      BY <1>8, <2>2, <2>6 DEF RecordOK, Fits
    <3>2. <<x[2]>> # <<>>
      OBVIOUS
    <3>q. QED BY <1>3, <3>1, <3>2 DEF Reported, Reports
  <2>7. CASE ~Present(sweep[h]) /\ x[1] = "net-raw"
    <3>1. IpOf(s[j]) = <<>>
      BY <1>8, <2>2, <2>7 DEF RecordOK, Fits
    <3>2. MacOf(sweep[l]) = "none"
      BY <1>1, <1>3, <1>8, SeenById
    <3>q. QED BY <1>2, <1>3, <1>4, <3>1, <3>2 DEF SeenAs
  <2>q. QED BY <2>4, <2>5, <2>6, <2>7 DEF SweepOK
<1>q. QED BY <1>6, <1>7, <1>8

\* A record with a MAC is reported when its address is that of a record that has
\* the same id as an active one.
LEMMA BodyActive ==
  ASSUME NEW s0, Stored(s0), NEW sweep, NEW n \in Nat, DOMAIN sweep = 1..n, SweepOK(sweep),
         NEW s, MidSweep(s0, sweep, n, s), NEW j \in DOMAIN s, NEW k \in DOMAIN s,
         KeyOf(s[j]) = KeyOf(s[k]), Active(s[j]), SeenBy(sweep, n, j), MacOf(s[j]) = "none",
         NEW y \in DOMAIN s, MacOf(s[y]) # "none", IpOf(s[y]) = IpOf(s[k]), IpOf(s[k]) # <<>>,
         NEW q, IpOf(q) = IpOf(s[k])
  PROVE  Reported(sweep, q)
<1>1. /\ Loose(s) /\ Unseen(s0, sweep, n, s) /\ AsSeen(sweep, n, s) /\ SharedSeen(sweep, n, s)
      /\ Displaced(s0, sweep, n, s)
  BY DEF MidSweep
<1>2. PICK l \in 1..n : SeenAs(sweep, l, j, s[j])
  BY <1>1 DEF AsSeen
<1>3. Present(sweep[l]) /\ l \in DOMAIN sweep /\ IpOf(s[j]) = IpOf(sweep[l])
  BY <1>2 DEF SeenAs
<1>4. CASE IpOf(s[j]) = IpOf(s[k])
  BY <1>3, <1>4 DEF Reported, Reports
<1>5. ASSUME IpOf(s[j]) # IpOf(s[k]) PROVE Reported(sweep, q)
  <2>1. j # k /\ IdOf(s[j]) = IdOf(s[k]) /\ MacOf(s[k]) = "none"
    BY <1>1, <1>5, SameKey
  <2>2. RecordOK(s[j]) /\ RecordOK(s[k]) /\ ~DocId(s[j]) /\ ~DocId(s[k])
    BY <1>1 DEF Loose, LooseRecords, RecordOK
  <2>. DEFINE x == IdOf(s[k])
  <2>3. x[1] # "net-ip"
    BY <1>5, <2>1, <2>2 DEF RecordOK, Fits
  <2>4. SeenBy(sweep, n, x)
    BY <1>1, <2>1, <2>2 DEF SharedSeen
  <2>5. SeenBy(sweep, n, k)
    <3>1. SUFFICES ASSUME ~SeenBy(sweep, n, k) PROVE FALSE
      OBVIOUS
    <3>2. k \in DOMAIN s0 /\ s[k] = s0[k]
      BY <1>1, <3>1 DEF Unseen
    <3>3. KeyOf(s0[k]) = k
      BY <2>2, <3>2, OwnKey DEF Stored
    <3>q. QED BY <2>1, <2>4, <3>1, <3>2, <3>3, KeyOfIs
  <2>6. PICK h \in 1..n : SeenAs(sweep, h, k, s[k])
    BY <1>1, <2>5 DEF AsSeen
  <2>7. /\ h \in DOMAIN sweep /\ KeyOf(sweep[h]) = k /\ IpOf(sweep[h]) = IpOf(s[k])
        /\ MacOf(sweep[h]) = "none" /\ IdOf(sweep[h]) = k
    BY <1>1, <2>1, <2>6, SeenById DEF SeenAs
  <2>8. CASE Present(sweep[h])
    BY <2>7, <2>8 DEF Reported, Reports
  <2>9. ASSUME ~Present(sweep[h]) PROVE FALSE
    <3>1. k[1] \in {"net-ip", "net-raw"} /\ Fits(k, IpOf(s[k]))
      BY <2>7, <2>9 DEF SweepOK
    <3>2. k[1] = "net-ip" /\ IpOf(s[k]) = <<k[2]>>
      BY <3>1 DEF Fits
    <3>3. x # k
      BY <2>3, <3>2
    <3>4. OldPlace(s0, s[k])
      BY <1>1, <2>1, <2>7, <2>9, <3>3 DEF Displaced
    <3>5. ~SeenBy(sweep, n, y)
      <4>1. SUFFICES ASSUME SeenBy(sweep, n, y) PROVE FALSE
        OBVIOUS
      <4>2. PICK g \in 1..n : SeenAs(sweep, g, y, s[y])
        BY <1>1, <4>1 DEF AsSeen
      <4>3. g \in DOMAIN sweep /\ IpOf(sweep[g]) = IpOf(sweep[h]) /\ KeyOf(sweep[g]) = y /\ y # k
        BY <2>1, <2>7, <4>2 DEF SeenAs
      <4>q. QED BY <2>7, <2>9, <4>3 DEF SweepOK
    <3>6. y \in DOMAIN s0 /\ s[y] = s0[y]
      BY <1>1, <3>5 DEF Unseen
    <3>7. x \in DOMAIN s0 /\ MacOf(s0[x]) = "none" /\ IpOf(s0[x]) = IpOf(s0[y])
      BY <3>4, <3>6 DEF OldPlace
    <3>8. IpOf(s0[x]) = <<k[2]>> /\ MacOf(s0[y]) # "none"
      BY <3>2, <3>6, <3>7
    <3>9. IdOf(s0[x])[1] = "net-ip"
      BY <3>6, <3>7, <3>8 DEF Stored, OldGhosts
    <3>10. x[1] # "doc"
      BY <2>2 DEF RecordOK
    <3>11. IdOf(s0[x]) = x
      BY <3>7, <3>10, KeyOfIs DEF Stored, Canonical
    <3>q. QED BY <2>3, <3>9, <3>11
  <2>q. QED BY <2>8, <2>9
<1>q. QED BY <1>4, <1>5

\* n is the key of a MAC that the store s0 did not have and took a record's id.
NewMac(s0, sweep, t, n) ==
  /\ n \in DOMAIN t /\ n \notin DOMAIN s0 /\ n = <<"mac", MacOf(t[n])>>
  /\ MacOf(t[n]) # "none" /\ \E l \in DOMAIN sweep : MacOf(sweep[l]) = MacOf(t[n])
  /\ \E j \in DOMAIN s0 : IdOf(t[n]) = IdOf(s0[j])

NewMacs(s0, sweep, t) == \E n : NewMac(s0, sweep, t, n)

\* The record that s had under k is under another key.
HandedTo(s, t, k) == \E j \in DOMAIN t : j # k /\ IdOf(t[j]) = IdOf(s[k])

\* A record that stays is at least what it was, or it was handed over; one with a
\* MAC stays or was handed over.
StoreStep(s, t, sweep) ==
  \A k \in DOMAIN s : k \in DOMAIN t \/ MacKey(k) =>
    \/ k \in DOMAIN t /\ AtLeast(t[k], s[k])
    \/ HandedTo(s, t, k) /\ NewMacs(s, sweep, t)

\* What a sweep makes of a store.
LEMMA ReconciledIs ==
  ASSUME NEW s0, Stored(s0), NEW sweep, NEW n \in Nat, DOMAIN sweep = 1..n, SweepOK(sweep),
         NEW t \in ReconcileSweep(s0, sweep)
  PROVE  /\ Keyed(t) /\ Ghosts(t) = {}
         /\ \A k \in DOMAIN t : Active(t[k]) => Reported(sweep, t[k])
         /\ StoreStep(s0, t, sweep)
<1>1. PICK s \in Swept({s0}, sweep) : t \in CleanupDuplicates(MarkMissing(s, sweep))
  BY Zenon DEF ReconcileSweep, Swept
<1>0. Canonical(s0)
  BY DEF Stored
<1>2. MidSweep(s0, sweep, n, s)
  BY <1>0, SweptIs
<1>3. Loose(s) /\ NoneLost(s0, sweep, n, s)
  BY <1>2 DEF MidSweep
<1>. DEFINE r == MarkMissing(s, sweep)
<1>4. /\ Loose(r) /\ DOMAIN r = DOMAIN s
      /\ \A k \in DOMAIN s :
           /\ KeyOf(r[k]) = KeyOf(s[k]) /\ IdOf(r[k]) = IdOf(s[k])
           /\ MacOf(r[k]) = MacOf(s[k]) /\ IpOf(r[k]) = IpOf(s[k]) /\ AtLeast(r[k], s[k])
           /\ Active(r[k]) => Active(s[k]) /\ SeenBy(sweep, n, k)
  BY <1>3, MissingMarked
<1>5. t \in CleanupDuplicates(r)
  BY <1>1
<1>. HIDE DEF r
<1>6. /\ Keyed(t) /\ Ghosts(t) = {}
      /\ \A k \in DOMAIN r : MacOf(r[k]) # "none" => KeyOf(r[k]) \in DOMAIN t
      /\ \A k \in DOMAIN r : KeyOf(r[k]) \in DOMAIN t =>
           /\ AtLeast(t[KeyOf(r[k])], r[k]) /\ IdOf(t[KeyOf(r[k])]) = IdOf(r[k])
           /\ MacOf(t[KeyOf(r[k])]) = MacOf(r[k])
      /\ \A x \in DOMAIN t :
           /\ \E k \in DOMAIN r : KeyOf(r[k]) = x /\ IpOf(t[x]) = IpOf(r[k])
           /\ Active(t[x]) =>
                \/ \E k \in DOMAIN r : KeyOf(r[k]) = x /\ Active(r[k])
                \/ /\ MacOf(t[x]) # "none" /\ IpOf(t[x]) # <<>>
                   /\ \E j, k \in DOMAIN r : /\ KeyOf(r[j]) = KeyOf(r[k]) /\ Active(r[j])
                                             /\ MacOf(r[j]) = "none" /\ IpOf(r[k]) = IpOf(t[x])
  BY <1>4, <1>5, CleanedIs
<1>7. /\ \A k \in DOMAIN s : MacOf(s[k]) # "none" => KeyOf(s[k]) \in DOMAIN t
      /\ \A k \in DOMAIN s : KeyOf(s[k]) \in DOMAIN t =>
           /\ AtLeast(t[KeyOf(s[k])], s[k]) /\ IdOf(t[KeyOf(s[k])]) = IdOf(s[k])
           /\ MacOf(t[KeyOf(s[k])]) = MacOf(s[k])
  <2>1. ASSUME NEW k \in DOMAIN s, KeyOf(s[k]) \in DOMAIN t
        PROVE  /\ AtLeast(t[KeyOf(s[k])], s[k]) /\ IdOf(t[KeyOf(s[k])]) = IdOf(s[k])
               /\ MacOf(t[KeyOf(s[k])]) = MacOf(s[k])
    <3>1. /\ AtLeast(t[KeyOf(s[k])], r[k]) /\ IdOf(t[KeyOf(s[k])]) = IdOf(r[k])
          /\ MacOf(t[KeyOf(s[k])]) = MacOf(r[k])
      BY <1>4, <1>6, <2>1
    <3>2. AtLeast(r[k], s[k]) /\ IdOf(r[k]) = IdOf(s[k]) /\ MacOf(r[k]) = MacOf(s[k])
      BY <1>4
    <3>q. QED BY <3>1, <3>2, AtLeastTransitive
  <2>2. \A k \in DOMAIN s : MacOf(s[k]) # "none" => KeyOf(s[k]) \in DOMAIN t
    BY <1>4, <1>6
  <2>q. QED BY <2>1, <2>2
<1>8. ASSUME NEW x \in DOMAIN t, Active(t[x]) PROVE Reported(sweep, t[x])
  <2>1. PICK y \in DOMAIN s : KeyOf(s[y]) = x /\ IpOf(t[x]) = IpOf(s[y])
    BY <1>4, <1>6
  <2>2. RecordOK(t[x])
    BY <1>6 DEF Keyed
  <2>3. ASSUME NEW j \in DOMAIN s, KeyOf(s[j]) = x, Active(r[j]) PROVE Reported(sweep, t[x])
    <3>1. Active(s[j]) /\ SeenBy(sweep, n, j)
      BY <1>4, <2>3
    <3>2. IdOf(t[x]) = IdOf(s[j]) /\ MacOf(t[x]) = MacOf(s[j]) /\ KeyOf(s[j]) = KeyOf(s[y])
      BY <1>7, <2>1, <2>3
    <3>q. QED BY ONLY <1>0, <1>2, <2>1, <2>2, <3>1, <3>2, OwnActive, n \in Nat, DOMAIN sweep = 1..n,
                      SweepOK(sweep), j \in DOMAIN s
  <2>4. ASSUME NEW j \in DOMAIN s, NEW k \in DOMAIN s, KeyOf(s[j]) = KeyOf(s[k]), Active(r[j]),
               MacOf(s[j]) = "none", IpOf(s[k]) = IpOf(t[x]), MacOf(t[x]) # "none", IpOf(t[x]) # <<>>
        PROVE  Reported(sweep, t[x])
    <3>1. Active(s[j]) /\ SeenBy(sweep, n, j)
      BY <1>4, <2>4
    <3>2. MacOf(s[y]) # "none"
      BY <1>7, <2>1, <2>4
    <3>3. IpOf(s[y]) = IpOf(s[k]) /\ IpOf(s[k]) # <<>> /\ IpOf(t[x]) = IpOf(s[k])
      BY <2>1, <2>4
    <3>q. QED BY ONLY <1>2, <2>1, <2>4, <3>1, <3>2, <3>3, BodyActive, n \in Nat, DOMAIN sweep = 1..n,
                      SweepOK(sweep), Stored(s0), j \in DOMAIN s, k \in DOMAIN s
  <2>5. \/ \E k \in DOMAIN s : KeyOf(s[k]) = x /\ Active(r[k])
        \/ /\ MacOf(t[x]) # "none" /\ IpOf(t[x]) # <<>>
           /\ \E j, k \in DOMAIN s : /\ KeyOf(s[j]) = KeyOf(s[k]) /\ Active(r[j])
                                     /\ MacOf(s[j]) = "none" /\ IpOf(s[k]) = IpOf(t[x])
    BY <1>4, <1>6, <1>8
  <2>q. QED BY <2>3, <2>4, <2>5
<1>9. ASSUME NEW k \in DOMAIN s0, k \in DOMAIN t \/ MacKey(k)
      PROVE  \/ k \in DOMAIN t /\ AtLeast(t[k], s0[k])
             \/ HandedTo(s0, t, k) /\ NewMacs(s0, sweep, t)
  <2>0. KeyOf(s0[k]) = k
    <3>1. CASE MacKey(k)
      BY <1>0, <3>1, OwnKey
    <3>2. CASE k \in DOMAIN t
      BY <1>0, <1>6, <3>2, KeyedIsCanonical, PlainKey DEF Canonical
    <3>q. QED BY <1>9, <3>1, <3>2
  <2>1. CASE Descendant(s0, s, k)
    <3>1. PICK j \in DOMAIN s : KeyOf(s[j]) = k /\ AtLeast(s[j], s0[k])
      BY <2>1 DEF Descendant
    <3>2. k \in DOMAIN t
      <4>1. SUFFICES ASSUME MacKey(k) PROVE k \in DOMAIN t
        BY <1>9
      <4>2. ~MacKey(IdOf(s[j]))
        BY <1>3 DEF Loose, LooseRecords, RecordOK
      <4>3. MacOf(s[j]) # "none"
        BY <3>1, <4>1, <4>2, KeyOfIs
      <4>q. QED BY <1>7, <3>1, <4>3
    <3>3. AtLeast(t[k], s[j])
      BY <1>7, <3>1, <3>2
    <3>q. QED BY <3>1, <3>2, <3>3, AtLeastTransitive
  <2>2. CASE Handed(s0, sweep, n, s, k) /\ NewcomerTook(s0, sweep, n, s)
    <3>1. PICK j \in DOMAIN s : /\ MacOf(s[j]) # "none"
                                /\ <<"mac", MacOf(s[j])>> # k /\ IdOf(s[j]) = IdOf(s0[k])
      BY <2>2 DEF Handed
    <3>2. KeyOf(s[j]) \in DOMAIN t /\ KeyOf(s[j]) # k /\ IdOf(t[KeyOf(s[j])]) = IdOf(s0[k])
      BY <1>7, <3>1, KeyOfIs
    <3>3. PICK i \in DOMAIN s :
            /\ MacOf(s[i]) # "none"
            /\ \E l \in 1..n : MacOf(sweep[l]) = MacOf(s[i])
            /\ <<"mac", MacOf(s[i])>> \notin DOMAIN s0
            /\ \E x \in DOMAIN s0 : IdOf(s[i]) = IdOf(s0[x])
      BY <2>2 DEF NewcomerTook
    <3>4. KeyOf(s[i]) = <<"mac", MacOf(s[i])>> /\ KeyOf(s[i]) \in DOMAIN t
          /\ MacOf(t[KeyOf(s[i])]) = MacOf(s[i]) /\ IdOf(t[KeyOf(s[i])]) = IdOf(s[i])
      BY <1>7, <3>3, KeyOfIs
    <3>5. NewMac(s0, sweep, t, KeyOf(s[i]))
      BY <3>3, <3>4 DEF NewMac
    <3>q. QED BY <3>2, <3>5 DEF HandedTo, NewMacs
  <2>q. QED BY <1>3, <2>0, <2>1, <2>2 DEF NoneLost
<1>q. QED BY <1>6, <1>8, <1>9 DEF StoreStep

-----------------------------------------------------------------------------
(* Observations and the devices they make                                  *)

ObsFields == {"ip", "mac", "host", "source", "hint"}
DeviceFields == {"id", "name", "ip", "mac", "host", "iface", "sources", "hint", "url",
                 "fabrics", "kind"}
AnyMac == Macs \cup {"none"}

\* An observation has an address of the network or none.
ObsOK(o) ==
  /\ DOMAIN o = ObsFields
  /\ IpOf(o) = <<>> \/ \E a \in Addresses : IpOf(o) = <<a>>
  /\ MacOf(o) \in AnyMac

AllObs(q) == \E A : q \in Seq(A) /\ \A o \in A : ObsOK(o)

DeviceOK(d) ==
  /\ DOMAIN d = DeviceFields /\ MacOf(d) \in AnyMac
  /\ ~MacKey(IdOf(d)) /\ ~DocKey(IdOf(d))
  /\ MacOf(d) = "none" =>
       Fits(IdOf(d), IpOf(d)) /\ (~Present(d) => IdOf(d)[1] \in {"net-ip", "net-raw"})

\* d is the device that the observation o belongs to.
EntryOf(d, o) ==
  /\ IdOf(d) = DeviceId(o) /\ IpOf(d) = IpOf(o)
  /\ IpOf(o) = <<>> => MacOf(d) = MacOf(o)

LEMMA ObservationIs ==
  ASSUME NEW ip, NEW mac, NEW host, NEW source, NEW hint,
         NEW o, o = Observation(ip, mac, host, source, hint)
  PROVE  /\ DOMAIN o = ObsFields /\ IpOf(o) = ip /\ MacOf(o) = mac
         /\ Present(o) <=> hint # "no"
BY DEF Observation, ObsFields, IpOf, MacOf, Present

LEMMA ObsEmpty == AllObs(<<>>)
<1>. DEFINE A == {}
<1>1. <<>> \in Seq(A) /\ \A o \in A : ObsOK(o)
  OBVIOUS
<1>. HIDE DEF A
<1>q. QED BY <1>1 DEF AllObs

\* Observations joined are observations.
LEMMA ObsJoined ==
  ASSUME NEW p, NEW q, AllObs(p), AllObs(q)
  PROVE  AllObs(p \o q)
<1>1. PICK A : p \in Seq(A) /\ \A o \in A : ObsOK(o)
  BY DEF AllObs
<1>2. PICK B : q \in Seq(B) /\ \A o \in B : ObsOK(o)
  BY DEF AllObs
<1>3. p \o q \in Seq(A \cup B)
  BY <1>1, <1>2, Joined
<1>q. QED BY <1>1, <1>2, <1>3 DEF AllObs

\* A sequence of observations.
LEMMA ObsListed ==
  ASSUME NEW n \in Nat, NEW q, q = [i \in 1..n |-> q[i]], \A i \in 1..n : ObsOK(q[i])
  PROVE  AllObs(q)
<1>. DEFINE A == {q[i] : i \in 1..n}
<1>1. q \in [1..n -> A]
  OBVIOUS
<1>2. q \in Seq(A)
  BY <1>1, SeqDef
<1>3. \A o \in A : ObsOK(o)
  OBVIOUS
<1>. HIDE DEF A
<1>q. QED BY <1>2, <1>3 DEF AllObs

LEMMA ObsAre ==
  ASSUME NEW q, AllObs(q)
  PROVE  /\ Len(q) \in Nat /\ DOMAIN q = 1..Len(q) /\ q = [i \in 1..Len(q) |-> q[i]]
         /\ \A i \in 1..Len(q) : ObsOK(q[i])
<1>1. PICK A : q \in Seq(A) /\ \A o \in A : ObsOK(o)
  BY DEF AllObs
<1>q. QED BY <1>1, LenProperties, ElementOfSeq

\* The key of an observation says which device it belongs to.
LEMMA KeyIs ==
  ASSUME NEW o, ObsOK(o), NEW p, ObsOK(p)
  PROVE  /\ DeviceId(o) = DeviceId(p) => Key(o) = Key(p)
         /\ Key(o) = Key(p) => /\ DeviceId(o) = DeviceId(p) /\ IpOf(o) = IpOf(p)
                               /\ IpOf(o) = <<>> => MacOf(o) = MacOf(p)
         /\ IpOf(o) # <<>> /\ IpOf(o) = IpOf(p) => DeviceId(o) = DeviceId(p)
         /\ ~MacKey(DeviceId(o)) /\ DeviceId(o)[1] \in {"net-ip", "net-mac", "net-raw"}
<1>1. ASSUME NEW r, ObsOK(r)
      PROVE  \/ \E a \in Addresses : IpOf(r) = <<a>> /\ Key(r) = <<"ip", a>> /\ DeviceId(r) = <<"net-ip", a>>
             \/ /\ IpOf(r) = <<>> /\ MacOf(r) # "none"
                /\ Key(r) = <<"mac", MacOf(r)>> /\ DeviceId(r) = <<"net-mac", MacOf(r)>>
             \/ /\ IpOf(r) = <<>> /\ MacOf(r) = "none"
                /\ Key(r) = <<"raw", r.source>> /\ DeviceId(r) = <<"net-raw", r.source>>
  BY <1>1 DEF ObsOK, Key, DeviceId, IpOf, MacOf
<1>. DEFINE Of(r) ==
       \/ \E a \in Addresses : IpOf(r) = <<a>> /\ Key(r) = <<"ip", a>> /\ DeviceId(r) = <<"net-ip", a>>
       \/ /\ IpOf(r) = <<>> /\ MacOf(r) # "none"
          /\ Key(r) = <<"mac", MacOf(r)>> /\ DeviceId(r) = <<"net-mac", MacOf(r)>>
       \/ /\ IpOf(r) = <<>> /\ MacOf(r) = "none"
          /\ Key(r) = <<"raw", r.source>> /\ DeviceId(r) = <<"net-raw", r.source>>
<1>2. Of(o) /\ Of(p)
  BY <1>1
<1>q. QED BY ONLY <1>2 DEF MacKey

\* What the key says of a device without MAC is right.
LEMMA EntryIsOK ==
  ASSUME NEW o, ObsOK(o), NEW d, EntryOf(d, o), DOMAIN d = DeviceFields, MacOf(d) \in AnyMac
  PROVE  DeviceOK(d)
<1>. DEFINE i == DeviceId(o)
<1>1. \/ \E x \in Addresses : IpOf(o) = <<x>> /\ i = <<"net-ip", x>>
      \/ IpOf(o) = <<>> /\ MacOf(o) # "none" /\ i = <<"net-mac", MacOf(o)>>
      \/ IpOf(o) = <<>> /\ MacOf(o) = "none" /\ i = <<"net-raw", o.source>>
  BY DEF ObsOK, DeviceId, IpOf, MacOf
<1>. HIDE DEF i
<1>2. IdOf(d) = i /\ IpOf(d) = IpOf(o) /\ (IpOf(o) = <<>> => MacOf(d) = MacOf(o))
  BY DEF EntryOf, i
<1>3. CASE \E x \in Addresses : IpOf(o) = <<x>> /\ i = <<"net-ip", x>>
  <2>1. PICK x : IpOf(d) = <<x>> /\ IdOf(d) = <<"net-ip", x>>
    BY <1>2, <1>3
  <2>2. IdOf(d)[1] = "net-ip" /\ IdOf(d)[2] = x
    BY <2>1
  <2>q. QED BY <2>1, <2>2 DEF DeviceOK, MacKey, DocKey, Fits
<1>4. CASE IpOf(o) = <<>> /\ MacOf(o) # "none" /\ i = <<"net-mac", MacOf(o)>>
  <2>1. IdOf(d)[1] = "net-mac" /\ MacOf(d) # "none"
    BY <1>2, <1>4
  <2>q. QED BY <2>1 DEF DeviceOK, MacKey, DocKey
<1>5. CASE IpOf(o) = <<>> /\ MacOf(o) = "none" /\ i = <<"net-raw", o.source>>
  <2>1. IdOf(d)[1] = "net-raw" /\ IpOf(d) = <<>>
    BY <1>2, <1>5
  <2>q. QED BY <2>1 DEF DeviceOK, MacKey, DocKey, Fits
<1>q. QED BY <1>1, <1>3, <1>4, <1>5

LEMMA TakeMacIs ==
  ASSUME NEW d, NEW o, DOMAIN d = DeviceFields, NEW e, e = TakeMac(d, o)
  PROVE  /\ DOMAIN e = DeviceFields /\ IdOf(e) = IdOf(d) /\ IpOf(e) = IpOf(d)
         /\ e.hint = d.hint
         /\ MacOf(e) = IF MacOf(d) # "none" \/ MacOf(o) = "none" THEN MacOf(d) ELSE MacOf(o)
BY DEF TakeMac, DeviceFields, IdOf, IpOf, MacOf

LEMMA TakeHostIs ==
  ASSUME NEW d, NEW o, DOMAIN d = DeviceFields, NEW e, e = TakeHost(d, o)
  PROVE  /\ DOMAIN e = DeviceFields /\ IdOf(e) = IdOf(d) /\ IpOf(e) = IpOf(d)
         /\ e.hint = d.hint /\ MacOf(e) = MacOf(d)
BY DEF TakeHost, DeviceFields, IdOf, IpOf, MacOf

LEMMA TakeHintIs ==
  ASSUME NEW d, NEW o, DOMAIN d = DeviceFields, NEW e, e = TakeHint(d, o)
  PROVE  /\ DOMAIN e = DeviceFields /\ IdOf(e) = IdOf(d) /\ IpOf(e) = IpOf(d)
         /\ MacOf(e) = MacOf(d) /\ e.hint \in {d.hint, o.hint}
BY DEF TakeHint, DeviceFields, IdOf, IpOf, MacOf

\* A device that takes an observation of its own key stays one.
LEMMA TakenEntry ==
  ASSUME NEW d, DeviceOK(d), NEW o, ObsOK(o), EntryOf(d, o), NEW e, e = Taken(d, o)
  PROVE  DeviceOK(e) /\ EntryOf(e, o)
<1>. DEFINE a == TakeMac(d, o)
            b == TakeHost(a, o)
            c == TakeHint(b, o)
<1>1. /\ DOMAIN a = DeviceFields /\ IdOf(a) = IdOf(d) /\ IpOf(a) = IpOf(d) /\ a.hint = d.hint
      /\ MacOf(a) = IF MacOf(d) # "none" \/ MacOf(o) = "none" THEN MacOf(d) ELSE MacOf(o)
  BY TakeMacIs DEF DeviceOK
<1>. HIDE DEF a
<1>2. /\ DOMAIN b = DeviceFields /\ IdOf(b) = IdOf(a) /\ IpOf(b) = IpOf(a) /\ b.hint = a.hint
      /\ MacOf(b) = MacOf(a)
  BY <1>1, TakeHostIs
<1>. HIDE DEF b
<1>3. /\ DOMAIN c = DeviceFields /\ IdOf(c) = IdOf(b) /\ IpOf(c) = IpOf(b)
      /\ MacOf(c) = MacOf(b) /\ c.hint \in {b.hint, o.hint}
  BY <1>2, TakeHintIs
<1>4. e = [c EXCEPT !.sources = @ \cup {o.source}]
  BY DEF Taken, a, b
<1>. HIDE DEF c
<1>5. /\ DOMAIN e = DeviceFields /\ IdOf(e) = IdOf(c) /\ IpOf(e) = IpOf(c)
      /\ MacOf(e) = MacOf(c) /\ e.hint = c.hint
  BY <1>3, <1>4 DEF DeviceFields, IdOf, IpOf, MacOf
<1>6. /\ IdOf(e) = IdOf(d) /\ IpOf(e) = IpOf(d) /\ e.hint \in {d.hint, o.hint}
      /\ MacOf(e) = IF MacOf(d) # "none" \/ MacOf(o) = "none" THEN MacOf(d) ELSE MacOf(o)
  BY <1>1, <1>2, <1>3, <1>5
<1>7. EntryOf(e, o) /\ MacOf(e) \in AnyMac
  BY <1>6 DEF DeviceOK, ObsOK, EntryOf
<1>q. QED BY <1>5, <1>7, EntryIsOK

\* The device that the first observation of a key makes.
LEMMA FirstIs ==
  ASSUME NEW o, ObsOK(o), NEW d, d = FirstEntry(o)
  PROVE  DeviceOK(d) /\ EntryOf(d, o)
<1>1. /\ DOMAIN d = DeviceFields /\ IdOf(d) = DeviceId(o) /\ IpOf(d) = IpOf(o)
      /\ MacOf(d) = MacOf(o) /\ (Present(d) <=> Present(o))
  BY DEF FirstEntry, DeviceFields, IdOf, IpOf, MacOf, Present
<1>2. EntryOf(d, o) /\ MacOf(d) \in AnyMac
  BY <1>1 DEF ObsOK, EntryOf
<1>q. QED BY <1>1, <1>2, EntryIsOK

\* The devices of the observations obs: one for each key.
FoundSet(S, obs) ==
  /\ IsFiniteSet(S)
  /\ \A d \in S : DeviceOK(d) /\ \E l \in DOMAIN obs : EntryOf(d, obs[l])
  /\ \A d, e \in S : IdOf(d) = IdOf(e) => d = e
  /\ \A l \in DOMAIN obs : \E d \in S : EntryOf(d, obs[l])

\* Aggregation makes one device of each key (aggregate_and_classify).
LEMMA AggregatedIs ==
  ASSUME NEW obs, AllObs(obs)
  PROVE  FoundSet(Aggregated(obs), obs)
<1>. DEFINE n == Len(obs)
            none == [k \in {} |-> k]
<1>1. n \in Nat /\ DOMAIN obs = 1..n /\ \A i \in 1..n : ObsOK(obs[i])
  BY ObsAre
<1>2. DOMAIN none = {}
  OBVIOUS
<1>. DEFINE all == EnteredAll(none, obs)
<1>3. Aggregated(obs) = {all[k] : k \in DOMAIN all}
  BY Zenon DEF Aggregated, EnteredAll
<1>. HIDE DEF n, none
<1>r. EnteredAllRun(none, obs, n, all)
  BY <1>1, EnteredFold
<1>4. PICK f : /\ f[0] = none
               /\ \A i \in 1..n : f[i] = Entered(f[i - 1], obs[i])
               /\ all = f[n]
  BY <1>r DEF EnteredAllRun
<1>. HIDE DEF all
<1>. DEFINE Own(e, i) == \A k \in DOMAIN e : \E l \in 1..i : /\ Key(obs[l]) = k /\ DeviceOK(e[k])
                                                             /\ EntryOf(e[k], obs[l])
            Has(e, i) == \A l \in 1..i : Key(obs[l]) \in DOMAIN e
            Good == {i \in 0..n : IsFiniteSet(DOMAIN f[i]) /\ Own(f[i], i) /\ Has(f[i], i)}
<1>5. 0 \in Good
  <2>1. 0 \in 0..n /\ 1..0 = {}
    BY <1>1
  <2>q. QED BY <1>2, <1>4, <2>1, FS_EmptySet
<1>6. ASSUME NEW i \in 1..n, i - 1 \in Good PROVE i \in Good
  <2>. DEFINE a == f[i - 1]
              b == f[i]
              o == obs[i]
              key == Key(o)
              old == IF key \in DOMAIN a THEN a[key] ELSE FirstEntry(o)
  <2>1. IsFiniteSet(DOMAIN a) /\ Own(a, i - 1) /\ Has(a, i - 1)
    BY <1>6
  <2>2. i \in 0..n /\ i \in 1..i /\ \A l : l \in 1..i <=> l \in 1..(i - 1) \/ l = i
    BY <1>1
  <2>3. b = [k \in DOMAIN a \cup {key} |-> IF k = key THEN Taken(old, o) ELSE a[k]]
    BY <1>4 DEF Entered
  <2>4. ObsOK(o) /\ \A l \in 1..(i - 1) : ObsOK(obs[l])
    BY <1>1
  <2>. HIDE DEF Good, a, b, o, key
  <2>5. DeviceOK(old) /\ EntryOf(old, o)
    <3>1. CASE key \in DOMAIN a
      <4>1. PICK l \in 1..(i - 1) : Key(obs[l]) = key /\ DeviceOK(a[key]) /\ EntryOf(a[key], obs[l])
        BY <2>1, <3>1
      <4>2. ObsOK(obs[l]) /\ Key(obs[l]) = Key(o)
        BY <2>4, <4>1 DEF key
      <4>3. DeviceId(obs[l]) = DeviceId(o) /\ IpOf(obs[l]) = IpOf(o)
            /\ (IpOf(o) = <<>> => MacOf(obs[l]) = MacOf(o))
        BY <2>4, <4>2, KeyIs
      <4>q. QED BY <3>1, <4>1, <4>3 DEF EntryOf
    <3>2. CASE key \notin DOMAIN a
      BY <2>4, <3>2, FirstIs
    <3>q. QED BY <3>1, <3>2
  <2>. HIDE DEF old
  <2>6. DeviceOK(Taken(old, o)) /\ EntryOf(Taken(old, o), o)
    BY <2>4, <2>5, TakenEntry
  <2>7. DOMAIN b = DOMAIN a \cup {key} /\ b[key] = Taken(old, o)
        /\ \A k \in DOMAIN b : k # key => k \in DOMAIN a /\ b[k] = a[k]
    BY <2>3
  <2>8. IsFiniteSet(DOMAIN b)
    BY <2>1, <2>7, FS_AddElement
  <2>9. Own(b, i)
    <3>1. ASSUME NEW k \in DOMAIN b
          PROVE  \E l \in 1..i : Key(obs[l]) = k /\ DeviceOK(b[k]) /\ EntryOf(b[k], obs[l])
      <4>1. CASE k = key
        BY <2>2, <2>6, <2>7, <4>1 DEF key, o
      <4>2. CASE k # key
        BY <2>1, <2>2, <2>7, <4>2
      <4>q. QED BY <4>1, <4>2
    <3>q. QED BY <3>1
  <2>10. Has(b, i)
    BY <2>1, <2>2, <2>7 DEF key, o
  <2>q. QED BY <2>2, <2>8, <2>9, <2>10 DEF Good, b
<1>7. n \in Good
  <2>1. \A i \in 1..n : i - 1 \in Good => i \in Good
    BY <1>6
  <2>2. n \in 0..n
    BY <1>1
  <2>. HIDE DEF Good
  <2>q. QED BY ONLY <1>1, <1>5, <2>1, <2>2, Induct
<1>8. IsFiniteSet(DOMAIN all) /\ Own(all, n) /\ Has(all, n)
  BY <1>4, <1>7
<1>. HIDE DEF Good
<1>. DEFINE S == Aggregated(obs)
<1>9. IsFiniteSet(S)
  <2>1. [k \in DOMAIN all |-> all[k]] \in Surjection(DOMAIN all, S)
    BY <1>3 DEF Surjection
  <2>q. QED BY <1>8, <2>1, FS_Surjection
<1>10. \A d : d \in S <=> \E k \in DOMAIN all : d = all[k]
  BY <1>3
<1>. HIDE DEF S
<1>11. ASSUME NEW d \in S PROVE DeviceOK(d) /\ \E l \in DOMAIN obs : EntryOf(d, obs[l])
  BY <1>1, <1>8, <1>10
<1>12. ASSUME NEW d \in S, NEW e \in S, IdOf(d) = IdOf(e) PROVE d = e
  <2>1. PICK j \in DOMAIN all : d = all[j]
    BY <1>10
  <2>2. PICK k \in DOMAIN all : e = all[k]
    BY <1>10
  <2>3. PICK l \in 1..n : Key(obs[l]) = j /\ EntryOf(d, obs[l])
    BY <1>8, <2>1
  <2>4. PICK h \in 1..n : Key(obs[h]) = k /\ EntryOf(e, obs[h])
    BY <1>8, <2>2
  <2>5. DeviceId(obs[l]) = DeviceId(obs[h]) /\ ObsOK(obs[l]) /\ ObsOK(obs[h])
    BY <1>1, <1>12, <2>3, <2>4 DEF EntryOf
  <2>6. j = k
    BY <2>3, <2>4, <2>5, KeyIs
  <2>q. QED BY <2>1, <2>2, <2>6
<1>13. ASSUME NEW l \in DOMAIN obs PROVE \E d \in S : EntryOf(d, obs[l])
  <2>1. PICK h \in 1..n : /\ Key(obs[h]) = Key(obs[l])
                          /\ EntryOf(all[Key(obs[l])], obs[h])
    BY <1>1, <1>8
  <2>2. all[Key(obs[l])] \in S
    BY <1>1, <1>8, <1>10
  <2>3. ObsOK(obs[l]) /\ ObsOK(obs[h])
    BY <1>1
  <2>4. DeviceId(obs[h]) = DeviceId(obs[l]) /\ IpOf(obs[h]) = IpOf(obs[l])
        /\ (IpOf(obs[l]) = <<>> => MacOf(obs[h]) = MacOf(obs[l]))
    BY <2>1, <2>3, KeyIs
  <2>5. EntryOf(all[Key(obs[l])], obs[l])
    BY <2>1, <2>4 DEF EntryOf
  <2>q. QED BY <2>2, <2>5
<1>q. QED BY <1>9, <1>11, <1>12, <1>13 DEF FoundSet, S

\* Marking the VPN peers keeps addresses, ids and MACs.
LEMMA VpnMarkedIs ==
  ASSUME NEW obs, NEW S, FoundSet(S, obs)
  PROVE  FoundSet(VpnMarked(S), obs)
<1>. DEFINE vpn(d) == ProxyPeer(d, S) \/ NamedPeer(d)
            marked(d) ==
              IF vpn(d) THEN [d EXCEPT !.iface = "vpn", !.kind = "vpn", !.name = PeerName(d),
                                       !.host = IF NamedPeer(d) THEN "iphonestephan" ELSE @]
              ELSE d
            T == VpnMarked(S)
<1>1. T = {marked(d) : d \in S}
  BY DEF VpnMarked
<1>2. ASSUME NEW d \in S
      PROVE  /\ DeviceOK(marked(d)) /\ IdOf(marked(d)) = IdOf(d)
             /\ \A o : EntryOf(d, o) => EntryOf(marked(d), o)
  <2>1. DeviceOK(d)
    BY DEF FoundSet
  <2>. DEFINE e == marked(d)
  <2>2. /\ DOMAIN e = DeviceFields /\ IdOf(e) = IdOf(d) /\ IpOf(e) = IpOf(d)
        /\ MacOf(e) = MacOf(d) /\ (Present(e) <=> Present(d))
    <3>1. DOMAIN d = DeviceFields
      BY <2>1 DEF DeviceOK
    <3>. HIDE DEF vpn
    <3>q. QED BY <3>1 DEF DeviceFields, IdOf, IpOf, MacOf, Present
  <2>. HIDE DEF e
  <2>3. DeviceOK(e) /\ IdOf(e) = IdOf(d) /\ \A o : EntryOf(d, o) => EntryOf(e, o)
    BY <2>1, <2>2 DEF DeviceOK, EntryOf
  <2>q. QED BY <2>3 DEF e
<1>. HIDE DEF marked
<1>3. \A e : e \in T <=> \E d \in S : e = marked(d)
  BY <1>1
<1>4. IsFiniteSet(T)
  <2>1. [d \in S |-> marked(d)] \in Surjection(S, T)
    BY <1>1 DEF Surjection
  <2>q. QED BY <2>1, FS_Surjection DEF FoundSet
<1>. HIDE DEF T
<1>5. \A e \in T : DeviceOK(e) /\ \E l \in DOMAIN obs : EntryOf(e, obs[l])
  BY <1>2, <1>3 DEF FoundSet
<1>6. \A d, e \in T : IdOf(d) = IdOf(e) => d = e
  BY <1>2, <1>3 DEF FoundSet
<1>7. \A l \in DOMAIN obs : \E e \in T : EntryOf(e, obs[l])
  BY <1>2, <1>3 DEF FoundSet
<1>q. QED BY <1>4, <1>5, <1>6, <1>7 DEF FoundSet, T

\* The result of aggregate_and_classify, in order.
LEMMA ClassifiedIs ==
  ASSUME NEW obs, AllObs(obs), NEW q, q = AggregateAndClassify(obs)
  PROVE  \E S : FoundSet(S, obs) /\ Enumerates(q, S)
<1>. DEFINE S == VpnMarked(Aggregated(obs))
<1>1. FoundSet(S, obs)
  BY AggregatedIs, VpnMarkedIs
<1>2. q = InOrder(S)
  BY DEF AggregateAndClassify
<1>. HIDE DEF S
<1>3. \A d \in S : d.ip = <<>> \/ \E a \in Int : d.ip = <<a>>
  <2>1. ASSUME NEW d \in S PROVE IpOf(d) = <<>> \/ \E a \in Addresses : IpOf(d) = <<a>>
    <3>1. PICK l \in DOMAIN obs : EntryOf(d, obs[l])
      BY <1>1 DEF FoundSet
    <3>2. ObsOK(obs[l])
      BY ObsAre
    <3>q. QED BY <3>1, <3>2 DEF EntryOf, ObsOK
  <2>2. Addresses \subseteq Int
    BY AddressAssumption DEF Addresses
  <2>q. QED BY <2>1, <2>2 DEF IpOf
<1>4. Enumerates(q, S)
  BY <1>1, <1>2, <1>3, InOrderIs DEF FoundSet
<1>q. QED BY <1>1, <1>4

-----------------------------------------------------------------------------
(* The result of a scan                                                    *)

HostOf(d) == d.host
Shown(d) == d.fabrics # {}

\* The parts of what a scan promises of the devices q: a sequence,
Listed(q) == (\E A : q \in Seq(A)) /\ \A i \in DOMAIN q : DeviceOK(q[i])

\* whose ids differ,
Distinct(q) == \A i, j \in DOMAIN q : IdOf(q[i]) = IdOf(q[j]) => i = j

\* of which only devices without MAC that are there share an address,
Shares(d) == MacOf(d) = "none" /\ Present(d)

Apart(q) ==
  \A i, j \in DOMAIN q : i # j /\ IpOf(q[i]) = IpOf(q[j]) /\ IpOf(q[i]) # <<>> =>
    Shares(q[i]) /\ Shares(q[j])

\* that cover the observations,
Covers(q, obs) ==
  \A l \in DOMAIN obs : \E j \in DOMAIN q : EntryOf(q[j], obs[l])

ScanOK(q, obs) == Listed(q) /\ Distinct(q) /\ Apart(q) /\ Covers(q, obs)

\* have plain addresses, or none with a port,
Plain(q) == \A i \in DOMAIN q : IpOf(q[i]) = <<>> \/ \E a : IpOf(q[i]) = <<a>>

Portless(q) == \A i \in DOMAIN q : \A a, port : IpOf(q[i]) # <<a, port>>

\* and show the Matter nodes.
ShowsNode(d, n, nodes) ==
  /\ Shown(d)
  /\ HostOf(d) = n.target \/ \E m \in nodes : m.target = n.target /\ Matches(d, m)

AllShown(q, nodes) == \A n \in nodes : \E i \in DOMAIN q : ShowsNode(q[i], n, nodes)

\* e is d as far as these are concerned.
SameDevice(e, d) ==
  /\ DOMAIN e = DeviceFields /\ IdOf(e) = IdOf(d) /\ IpOf(e) = IpOf(d) /\ MacOf(e) = MacOf(d)
  /\ HostOf(e) = HostOf(d) /\ (Present(e) <=> Present(d)) /\ (Shown(d) => Shown(e))

\* A device matches the nodes it matched.
LEMMA SameMatches ==
  ASSUME NEW d, NEW e, SameDevice(e, d), NEW n
  PROVE  Matches(e, n) <=> Matches(d, n)
BY DEF Matches, SameDevice, IpOf, MacOf, HostOf

\* Devices that stay as they are keep what the scan promises.
LEMMA SameIs ==
  ASSUME NEW q, NEW obs, NEW nodes, NEW r, r = [i \in DOMAIN q |-> r[i]], ScanOK(q, obs),
         \A i \in DOMAIN q : SameDevice(r[i], q[i])
  PROVE  /\ DOMAIN r = DOMAIN q /\ ScanOK(r, obs)
         /\ AllShown(q, nodes) => AllShown(r, nodes)
         /\ Plain(q) => Plain(r)
<1>1. DOMAIN r = DOMAIN q
  OBVIOUS
<1>2. \A i \in DOMAIN q :
        /\ DOMAIN r[i] = DeviceFields /\ IdOf(r[i]) = IdOf(q[i]) /\ IpOf(r[i]) = IpOf(q[i])
        /\ MacOf(r[i]) = MacOf(q[i]) /\ (Present(r[i]) <=> Present(q[i]))
  BY DEF SameDevice
<1>3. Listed(r)
  <2>1. PICK A : q \in Seq(A)
    BY DEF ScanOK, Listed
  <2>. DEFINE B == {r[i] : i \in DOMAIN q}
  <2>2. Len(q) \in Nat /\ DOMAIN q = 1..Len(q)
    BY <2>1, LenProperties
  <2>3. r \in [1..Len(q) -> B]
    BY <2>2
  <2>4. r \in Seq(B)
    BY <2>2, <2>3, SeqDef
  <2>. HIDE DEF B
  <2>5. \A i \in DOMAIN q : DeviceOK(q[i])
    BY DEF ScanOK, Listed
  <2>6. \A i \in DOMAIN r : DeviceOK(r[i])
    BY <1>1, <1>2, <2>5 DEF DeviceOK
  <2>q. QED BY <2>4, <2>6 DEF Listed
<1>4. Distinct(r)
  BY <1>1, <1>2 DEF ScanOK, Distinct
<1>5. Apart(r)
  BY <1>1, <1>2 DEF ScanOK, Apart, Shares
<1>6. Covers(r, obs)
  BY <1>1, <1>2 DEF ScanOK, Covers, EntryOf
<1>7. ASSUME AllShown(q, nodes) PROVE AllShown(r, nodes)
  <2>1. ASSUME NEW n \in nodes PROVE \E i \in DOMAIN r : ShowsNode(r[i], n, nodes)
    <3>1. PICK i \in DOMAIN q : ShowsNode(q[i], n, nodes)
      BY <1>7 DEF AllShown
    <3>2. SameDevice(r[i], q[i])
      OBVIOUS
    <3>3. \A m \in nodes : Matches(r[i], m) <=> Matches(q[i], m)
      BY <3>2, SameMatches
    <3>4. ShowsNode(r[i], n, nodes)
      BY <3>1, <3>2, <3>3 DEF ShowsNode, SameDevice
    <3>q. QED BY <1>1, <3>4
  <2>q. QED BY <2>1 DEF AllShown
<1>8. Plain(q) => Plain(r)
  BY <1>1, <1>2 DEF Plain
<1>q. QED BY <1>1, <1>3, <1>4, <1>5, <1>6, <1>7, <1>8 DEF ScanOK

\* What more devices leave as it is.
LEMMA MoreDevices ==
  ASSUME NEW q, NEW obs, NEW nodes, NEW r,
         \A i \in DOMAIN q : i \in DOMAIN r /\ r[i] = q[i]
  PROVE  /\ Covers(q, obs) => Covers(r, obs)
         /\ AllShown(q, nodes) => AllShown(r, nodes)
<1>1. ASSUME Covers(q, obs) PROVE Covers(r, obs)
  <2>1. ASSUME NEW l \in DOMAIN obs
        PROVE  \E j \in DOMAIN r : EntryOf(r[j], obs[l])
    <3>1. PICK j \in DOMAIN q : EntryOf(q[j], obs[l])
      BY <1>1 DEF Covers
    <3>2. j \in DOMAIN r /\ r[j] = q[j]
      OBVIOUS
    <3>q. QED BY ONLY <3>1, <3>2
  <2>q. QED BY <2>1 DEF Covers
<1>2. ASSUME AllShown(q, nodes) PROVE AllShown(r, nodes)
  BY <1>2 DEF AllShown
<1>q. QED BY <1>1, <1>2

-----------------------------------------------------------------------------
(* The stages of a scan                                                    *)

Kinds == {"net-ip", "net-mac", "net-raw"}

\* What aggregate_and_classify promises.
LEMMA FoundIs ==
  ASSUME NEW obs, AllObs(obs), NEW q, q = AggregateAndClassify(obs)
  PROVE  /\ ScanOK(q, obs) /\ Plain(q)
         /\ \A i \in DOMAIN q : IdOf(q[i])[1] \in Kinds
<1>1. PICK S : FoundSet(S, obs) /\ Enumerates(q, S)
  BY ClassifiedIs
<1>2. /\ q \in Seq(S) /\ Len(q) \in Nat /\ DOMAIN q = 1..Len(q)
      /\ \A i \in DOMAIN q : q[i] \in S
      /\ \A d \in S : \E i \in DOMAIN q : q[i] = d
      /\ \A i, j \in DOMAIN q : q[i] = q[j] => i = j
  BY <1>1, LenProperties, ElementOfSeq DEF Enumerates
<1>3. /\ \A d \in S : DeviceOK(d) /\ \E l \in DOMAIN obs : EntryOf(d, obs[l])
      /\ \A d, e \in S : IdOf(d) = IdOf(e) => d = e
      /\ \A l \in DOMAIN obs : \E d \in S : EntryOf(d, obs[l])
  BY <1>1 DEF FoundSet
<1>4. \A l \in DOMAIN obs : ObsOK(obs[l])
  BY ObsAre
<1>5. Listed(q)
  BY <1>2, <1>3 DEF Listed
<1>6. Distinct(q)
  BY <1>2, <1>3 DEF Distinct
<1>7. Apart(q)
  <2>1. ASSUME NEW i \in DOMAIN q, NEW j \in DOMAIN q, IpOf(q[i]) = IpOf(q[j]), IpOf(q[i]) # <<>>
        PROVE  i = j
    <3>1. PICK l \in DOMAIN obs : EntryOf(q[i], obs[l])
      BY <1>2, <1>3
    <3>2. PICK m \in DOMAIN obs : EntryOf(q[j], obs[m])
      BY <1>2, <1>3
    <3>3. DeviceId(obs[l]) = DeviceId(obs[m])
      BY <1>4, <2>1, <3>1, <3>2, KeyIs DEF EntryOf
    <3>q. QED BY <1>6, <3>1, <3>2, <3>3 DEF EntryOf, Distinct
  <2>q. QED BY <2>1 DEF Apart
<1>8. Covers(q, obs)
  <2>1. ASSUME NEW l \in DOMAIN obs
        PROVE  \E j \in DOMAIN q : EntryOf(q[j], obs[l])
    <3>1. PICK d \in S : EntryOf(d, obs[l])
      BY <1>3
    <3>2. PICK j \in DOMAIN q : q[j] = d
      BY <1>2
    <3>q. QED BY <3>1, <3>2
  <2>q. QED BY <2>1 DEF Covers
<1>9. ASSUME NEW i \in DOMAIN q
      PROVE  /\ IpOf(q[i]) = <<>> \/ \E a : IpOf(q[i]) = <<a>>
             /\ IdOf(q[i])[1] \in Kinds
  <2>1. PICK l \in DOMAIN obs : EntryOf(q[i], obs[l])
    BY <1>2, <1>3
  <2>2. ObsOK(obs[l])
    BY <1>4
  <2>3. IpOf(q[i]) = <<>> \/ \E a : IpOf(q[i]) = <<a>>
    BY <2>1, <2>2 DEF EntryOf, ObsOK
  <2>4. DeviceId(obs[l])[1] \in Kinds
    BY <2>2, KeyIs DEF Kinds
  <2>q. QED BY <2>1, <2>3, <2>4 DEF EntryOf
<1>q. QED BY <1>5, <1>6, <1>7, <1>8, <1>9 DEF ScanOK, Plain

\* The nodes that mDNS reports: no MAC, and an address or none.
NodesOK(nodes) ==
  /\ IsFiniteSet(nodes)
  /\ \A n \in nodes : n.mac = "none" /\ (n.ip = <<>> \/ \E a : n.ip = <<a>>)

\* A device that a node matches shows its fabric.
LEMMA WithFabricsIs ==
  ASSUME NEW d, NEW nodes, DOMAIN d = DeviceFields, NEW e, e = WithFabrics(d, nodes)
  PROVE  /\ SameDevice(e, d)
         /\ (\E n \in nodes : Matches(d, n)) => Shown(e)
<1>. DEFINE own == {n \in nodes : Matches(d, n)}
<1>1. CASE own = {}
  <2>1. e = d
    BY <1>1 DEF WithFabrics
  <2>q. QED BY <1>1, <2>1 DEF SameDevice
<1>2. CASE own # {}
  <2>1. e = [d EXCEPT !.sources = @ \cup {"matter-mdns"}, !.fabrics = FabricsOf(own)]
    BY <1>2 DEF WithFabrics
  <2>2. FabricsOf(own) # {}
    BY <1>2 DEF FabricsOf
  <2>. HIDE DEF own
  <2>q. QED BY <2>1, <2>2
        DEF SameDevice, Shown, DeviceFields, IdOf, IpOf, MacOf, HostOf, Present
<1>q. QED BY <1>1, <1>2

\* The device of a target host whose nodes match no device.
LEMMA ThreadIs ==
  ASSUME NEW nodes, NodesOK(nodes), NEW left, left \subseteq nodes, NEW t, NEW n \in left,
         n.target = t, NEW e, e = ThreadDevice(t, left)
  PROVE  /\ DeviceOK(e) /\ IdOf(e) = <<"net-matter", t>> /\ MacOf(e) = "none"
         /\ HostOf(e) = t /\ Shown(e) /\ Present(e)
         /\ IpOf(e) = NoAddress("host", t) \/ \E m \in left : IpOf(e) = m.ip /\ m.ip # <<>>
<1>. DEFINE first == CHOOSE m \in left : m.target = t
<1>1. first \in left
  OBVIOUS
<1>2. FabricsOf({m \in left : m.target = t}) # {}
  BY DEF FabricsOf
<1>. HIDE DEF first
<1>3. first.mac = "none"
  BY <1>1 DEF NodesOK
<1>4. /\ DOMAIN e = DeviceFields /\ IdOf(e) = <<"net-matter", t>> /\ MacOf(e) = first.mac
      /\ HostOf(e) = t /\ Present(e)
      /\ IpOf(e) = IF first.ip = <<>> THEN NoAddress("host", t) ELSE first.ip
      /\ e.fabrics = FabricsOf({m \in left : m.target = t})
  BY DEF ThreadDevice, first, DeviceFields, IdOf, MacOf, HostOf, IpOf, Present
<1>5. DeviceOK(e)
  BY <1>3, <1>4 DEF DeviceOK, MacKey, DocKey, Fits, AnyMac
<1>q. QED BY <1>1, <1>2, <1>3, <1>4, <1>5 DEF Shown

\* A longer sequence of devices whose new ones are apart from all the others.
LEMMA Longer ==
  ASSUME NEW q, NEW obs, ScanOK(q, obs), NEW r, \E A : r \in Seq(A),
         \A i \in DOMAIN q : i \in DOMAIN r /\ r[i] = q[i],
         \A i \in DOMAIN r : i \notin DOMAIN q =>
           /\ DeviceOK(r[i])
           /\ \A j \in DOMAIN r : j # i =>
                /\ IdOf(r[j]) # IdOf(r[i])
                /\ IpOf(r[j]) = IpOf(r[i]) /\ IpOf(r[i]) # <<>> => Shares(r[i]) /\ Shares(r[j])
  PROVE  ScanOK(r, obs)
<1>1. Listed(r)
  BY DEF ScanOK, Listed
<1>2. Distinct(r)
  BY DEF ScanOK, Distinct
<1>3. Apart(r)
  <2>1. ASSUME NEW i \in DOMAIN r, NEW j \in DOMAIN r, i # j, IpOf(r[i]) = IpOf(r[j]), IpOf(r[i]) # <<>>
        PROVE  Shares(r[i]) /\ Shares(r[j])
    <3>1. CASE i \notin DOMAIN q
      BY <2>1, <3>1
    <3>2. CASE j \notin DOMAIN q
      BY <2>1, <3>2
    <3>3. CASE i \in DOMAIN q /\ j \in DOMAIN q
      <4>1. r[i] = q[i] /\ r[j] = q[j]
        BY <3>3
      <4>q. QED BY <2>1, <3>3, <4>1 DEF ScanOK, Apart
    <3>q. QED BY <3>1, <3>2, <3>3
  <2>q. QED BY <2>1 DEF Apart
<1>4. Covers(r, obs)
  BY MoreDevices DEF ScanOK
<1>q. QED BY <1>1, <1>2, <1>3, <1>4 DEF ScanOK

\* What enrich_matter_fabrics adds: devices of their own, for every node that no device has.
LEMMA MatterIs ==
  ASSUME NEW obs, NEW nodes, NodesOK(nodes), NEW q, ScanOK(q, obs), Plain(q),
         \A i \in DOMAIN q : IdOf(q[i])[1] \in Kinds,
         NEW r, r = EnrichMatterFabrics(q, nodes)
  PROVE  ScanOK(r, obs) /\ Portless(r) /\ AllShown(r, nodes)
<1>. DEFINE left == Unmatched(ToSet(q), nodes)
            targets == {n.target : n \in left}
            T == {ThreadDevice(t, left) : t \in targets}
            a == [i \in DOMAIN q |-> WithFabrics(q[i], nodes)]
            b == Listing(T)
<1>1. r = a \o b
  BY DEF EnrichMatterFabrics
<1>2. /\ left \subseteq nodes
      /\ \A n \in left : \A d \in ToSet(q) : ~Matches(d, n)
      /\ \A n \in nodes : n \in left \/ \E m \in nodes : m.target = n.target /\ \E d \in ToSet(q) : Matches(d, m)
  BY DEF Unmatched
<1>3. \A i \in DOMAIN q : q[i] \in ToSet(q)
  BY DEF ToSet
<1>4. \A d \in ToSet(q) : \E i \in DOMAIN q : d = q[i]
  BY DEF ToSet
<1>5. IsFiniteSet(T)
  <2>1. IsFiniteSet(left)
    BY <1>2, FS_Subset DEF NodesOK
  <2>. HIDE DEF left
  <2>2. [n \in left |-> n.target] \in Surjection(left, targets)
    BY DEF Surjection
  <2>3. IsFiniteSet(targets)
    BY <2>1, <2>2, FS_Surjection
  <2>. HIDE DEF targets
  <2>4. [t \in targets |-> ThreadDevice(t, left)] \in Surjection(targets, T)
    BY DEF Surjection
  <2>q. QED BY <2>3, <2>4, FS_Surjection
<1>6. Enumerates(b, T)
  BY <1>5, ListingIs
<1>7. \A d \in T : \E n \in left : d = ThreadDevice(n.target, left)
  OBVIOUS
<1>8. \A n \in left : ThreadDevice(n.target, left) \in T
  OBVIOUS
<1>9. a = [i \in DOMAIN q |-> a[i]] /\ \A i \in DOMAIN q : a[i] = WithFabrics(q[i], nodes)
  OBVIOUS
<1>. HIDE DEF left, targets, T, a, b
<1>10. \A i \in DOMAIN q : DOMAIN q[i] = DeviceFields
  BY DEF ScanOK, Listed, DeviceOK
<1>11. \A i \in DOMAIN q : SameDevice(a[i], q[i]) /\ ((\E n \in nodes : Matches(q[i], n)) => Shown(a[i]))
  BY <1>9, <1>10, WithFabricsIs
<1>12. DOMAIN a = DOMAIN q /\ ScanOK(a, obs) /\ Plain(a)
  <2>1. \A i \in DOMAIN q : SameDevice(a[i], q[i])
    BY <1>11
  <2>2. a = [i \in DOMAIN q |-> a[i]]
    BY <1>9
  <2>q. QED BY ONLY <2>1, <2>2, ScanOK(q, obs), Plain(q), SameIs
<1>13. /\ \E A : a \in Seq(A)
       /\ b \in Seq(T)
  BY <1>6, <1>12 DEF ScanOK, Listed, Enumerates
<1>14. /\ \E A : r \in Seq(A)
       /\ Len(a) \in Nat /\ Len(b) \in Nat /\ DOMAIN a = 1..Len(a) /\ DOMAIN b = 1..Len(b)
       /\ DOMAIN r = 1..(Len(a) + Len(b))
       /\ \A i \in 1..Len(a) : r[i] = a[i]
       /\ \A i \in 1..Len(b) : r[Len(a) + i] = b[i] /\ b[i] \in T
  <2>1. PICK A : a \in Seq(A)
    BY <1>13
  <2>2. /\ r \in Seq(A \cup T) /\ Len(a) \in Nat /\ Len(b) \in Nat /\ Len(r) = Len(a) + Len(b)
        /\ \A i \in 1..Len(a) : r[i] = a[i]
        /\ \A i \in 1..Len(b) : r[Len(a) + i] = b[i] /\ b[i] \in T
    BY <1>1, <1>13, <2>1, Joined
  <2>3. DOMAIN a = 1..Len(a) /\ DOMAIN b = 1..Len(b) /\ DOMAIN r = 1..Len(r)
    BY <1>13, <2>1, <2>2, LenProperties
  <2>q. QED BY ONLY <2>2, <2>3
<1>15. \A d \in T : /\ DeviceOK(d) /\ Shares(d) /\ Shown(d)
                    /\ IdOf(d) = <<"net-matter", HostOf(d)>>
                    /\ \E n \in left : d = ThreadDevice(n.target, left) /\ HostOf(d) = n.target
                    /\ \/ IpOf(d) = NoAddress("host", HostOf(d))
                       \/ \E m \in left : IpOf(d) = m.ip /\ m.ip # <<>>
  BY <1>2, <1>7, ThreadIs DEF Shares
<1>16. \A i \in DOMAIN a : \A d \in T : IdOf(a[i]) # IdOf(d) /\ IpOf(a[i]) # IpOf(d)
  <2>1. ASSUME NEW i \in DOMAIN a, NEW d \in T
        PROVE  IdOf(a[i]) # IdOf(d) /\ IpOf(a[i]) # IpOf(d)
    <3>1. SameDevice(a[i], q[i]) /\ IdOf(q[i])[1] \in Kinds /\ q[i] \in ToSet(q)
      BY <1>3, <1>11, <1>12
    <3>2. IdOf(d)[1] = "net-matter"
      BY <1>15
    <3>3. IdOf(a[i]) # IdOf(d)
      BY <3>1, <3>2 DEF SameDevice, Kinds
    <3>4. CASE IpOf(d) = NoAddress("host", HostOf(d))
      <4>1. IpOf(a[i]) = <<>> \/ \E x : IpOf(a[i]) = <<x>>
        BY <1>12 DEF Plain
      <4>q. QED BY <3>3, <3>4, <4>1, NoAddressIs
    <3>5. ASSUME NEW m \in left, IpOf(d) = m.ip, m.ip # <<>> PROVE IpOf(a[i]) # IpOf(d)
      <4>1. ~Matches(q[i], m)
        BY <1>2, <3>1
      <4>2. m.ip # IpOf(q[i])
        BY <3>5, <4>1 DEF Matches, IpOf
      <4>q. QED BY <3>1, <3>5, <4>2 DEF SameDevice
    <3>q. QED BY <1>15, <3>3, <3>4, <3>5
  <2>q. QED BY <2>1
<1>17. \A d, e \in T : IdOf(d) = IdOf(e) => d = e
  <2>1. ASSUME NEW d \in T, NEW e \in T, IdOf(d) = IdOf(e) PROVE d = e
    <3>1. <<"net-matter", HostOf(d)>> = <<"net-matter", HostOf(e)>>
      BY <1>15, <2>1
    <3>2. HostOf(d) = HostOf(e)
      BY <3>1
    <3>3. PICK n \in left : d = ThreadDevice(n.target, left) /\ HostOf(d) = n.target
      BY <1>15
    <3>4. PICK m \in left : e = ThreadDevice(m.target, left) /\ HostOf(e) = m.target
      BY <1>15
    <3>q. QED BY <3>2, <3>3, <3>4
  <2>q. QED BY <2>1
<1>18. \A i \in DOMAIN r : i \in DOMAIN a \/ \E j \in 1..Len(b) : i = Len(a) + j /\ r[i] = b[j] /\ r[i] \in T
  <2>1. ASSUME NEW i \in DOMAIN r, i \notin DOMAIN a
        PROVE  \E j \in 1..Len(b) : i = Len(a) + j /\ r[i] = b[j] /\ r[i] \in T
    <3>1. i - Len(a) \in 1..Len(b) /\ i = Len(a) + (i - Len(a))
      BY <1>14, <2>1
    <3>q. QED BY <1>14, <3>1
  <2>q. QED BY <2>1
<1>19. \A i, j \in 1..Len(b) : b[i] = b[j] => i = j
  BY <1>6, <1>14 DEF Enumerates
<1>20. ASSUME NEW i \in DOMAIN r, i \notin DOMAIN a
       PROVE  /\ DeviceOK(r[i])
              /\ \A j \in DOMAIN r : j # i =>
                   /\ IdOf(r[j]) # IdOf(r[i])
                   /\ IpOf(r[j]) = IpOf(r[i]) /\ IpOf(r[i]) # <<>> => Shares(r[i]) /\ Shares(r[j])
  <2>1. PICK k \in 1..Len(b) : i = Len(a) + k /\ r[i] = b[k] /\ r[i] \in T
    BY <1>18, <1>20
  <2>2. ASSUME NEW j \in DOMAIN r, j # i
        PROVE  /\ IdOf(r[j]) # IdOf(r[i])
               /\ IpOf(r[j]) = IpOf(r[i]) /\ IpOf(r[i]) # <<>> => Shares(r[i]) /\ Shares(r[j])
    <3>1. CASE j \in DOMAIN a
      <4>1. r[j] = a[j]
        BY <1>14, <3>1
      <4>q. QED BY <1>16, <2>1, <3>1, <4>1
    <3>2. CASE j \notin DOMAIN a
      <4>1. PICK l \in 1..Len(b) : j = Len(a) + l /\ r[j] = b[l] /\ r[j] \in T
        BY <1>18, <3>2
      <4>2. r[j] # r[i]
        BY <1>19, <2>1, <2>2, <4>1
      <4>q. QED BY <1>15, <1>17, <2>1, <4>1, <4>2
    <3>q. QED BY <3>1, <3>2
  <2>q. QED BY <1>15, <2>1, <2>2
<1>21. \A i \in DOMAIN a : i \in DOMAIN r /\ r[i] = a[i]
  BY <1>14
<1>22. ScanOK(r, obs)
  BY <1>12, <1>14, <1>20, <1>21, Longer
<1>23. Portless(r)
  <2>1. ASSUME NEW i \in DOMAIN r, NEW x, NEW port PROVE IpOf(r[i]) # <<x, port>>
    <3>1. IpOf(r[i]) = <<>> \/ (\E y : IpOf(r[i]) = <<y>>) \/ \E t : IpOf(r[i]) = NoAddress("host", t)
      <4>1. CASE i \in DOMAIN a
        BY <1>12, <1>21, <4>1 DEF Plain
      <4>2. CASE i \notin DOMAIN a
        <5>1. r[i] \in T
          BY <1>18, <4>2
        <5>2. CASE IpOf(r[i]) = NoAddress("host", HostOf(r[i]))
          BY <5>2
        <5>3. ASSUME NEW m \in left, IpOf(r[i]) = m.ip, m.ip # <<>> PROVE \E y : IpOf(r[i]) = <<y>>
          <6>1. m \in nodes
            BY <1>2
          <6>2. \E y : m.ip = <<y>>
            BY <5>3, <6>1 DEF NodesOK
          <6>q. QED BY <5>3, <6>2
        <5>q. QED BY <1>15, <5>1, <5>2, <5>3
      <4>q. QED BY <4>1, <4>2
    <3>2. <<>> # <<x, port>> /\ \A y : <<y>> # <<x, port>>
      OBVIOUS
    <3>q. QED BY <3>1, <3>2, NoAddressIs
  <2>q. QED BY <2>1 DEF Portless
<1>24. AllShown(r, nodes)
  <2>1. ASSUME NEW n \in nodes PROVE \E i \in DOMAIN r : ShowsNode(r[i], n, nodes)
    <3>1. CASE n \in left
      <4>1. PICK j \in 1..Len(b) : b[j] = ThreadDevice(n.target, left)
        BY <1>6, <1>8, <1>14, <3>1 DEF Enumerates
      <4>2. Len(a) + j \in DOMAIN r /\ r[Len(a) + j] = b[j]
        BY <1>14
      <4>3. Shown(b[j]) /\ HostOf(b[j]) = n.target
        BY <1>2, <3>1, <4>1, ThreadIs
      <4>4. ShowsNode(r[Len(a) + j], n, nodes)
        BY <4>2, <4>3 DEF ShowsNode
      <4>q. QED BY <4>2, <4>4
    <3>2. CASE n \notin left
      <4>1. PICK m \in nodes : m.target = n.target /\ \E d \in ToSet(q) : Matches(d, m)
        BY <1>2, <3>2
      <4>2. PICK i \in DOMAIN q : Matches(q[i], m)
        BY <1>4, <4>1
      <4>3. Shown(a[i]) /\ SameDevice(a[i], q[i])
        BY <1>11, <4>2
      <4>4. Matches(a[i], m)
        BY <4>2, <4>3, SameMatches
      <4>5. i \in DOMAIN r /\ r[i] = a[i]
        BY <1>12, <1>21
      <4>6. ShowsNode(r[i], n, nodes)
        BY <4>1, <4>3, <4>4, <4>5 DEF ShowsNode
      <4>q. QED BY <4>5, <4>6
    <3>q. QED BY <3>1, <3>2
  <2>q. QED BY <2>1 DEF AllShown
<1>q. QED BY <1>22, <1>23, <1>24

\* An instance of Home Assistant is on a device or becomes one.
LEMMA HubIs ==
  ASSUME NEW obs, NEW nodes, NEW q, ScanOK(q, obs), Portless(q), AllShown(q, nodes), NEW h,
         NEW r, r = AddHub(q, h)
  PROVE  ScanOK(r, obs) /\ AllShown(r, nodes)
<1>. DEFINE x == HubDevice(h, q)
            taken == \E d \in ToSet(q) : d.id = <<"net-ha", h.id>> \/ d.url = <<h.ip, h.port>>
<1>1. CASE taken
  BY <1>1 DEF AddHub
<1>2. CASE ~taken
  <2>1. r = Append(q, x)
    BY <1>2 DEF AddHub
  <2>2. \A i \in DOMAIN q : IdOf(q[i]) # <<"net-ha", h.id>>
    BY <1>2 DEF ToSet, IdOf
  <2>3. PICK A : q \in Seq(A)
    BY DEF ScanOK, Listed
  <2>4. Len(q) \in Nat /\ DOMAIN q = 1..Len(q)
    BY <2>3, LenProperties
  <2>. DEFINE on == {i \in DOMAIN q : q[i].ip = <<h.ip>>}
  <2>5. x.mac = IF on = {} THEN "none" ELSE q[Min(on)].mac
    BY DEF HubDevice
  <2>6. /\ DOMAIN x = DeviceFields /\ IdOf(x) = <<"net-ha", h.id>> /\ IpOf(x) = <<h.ip, h.port>>
        /\ Present(x)
    BY DEF HubDevice, DeviceFields, IdOf, IpOf, Present
  <2>. HIDE DEF x
  <2>7. MacOf(x) \in AnyMac
    <3>1. CASE on = {}
      BY <2>5, <3>1 DEF MacOf, AnyMac
    <3>2. CASE on # {}
      <4>1. on \subseteq Nat
        BY <2>4
      <4>2. Min(on) \in on
        <5>. HIDE DEF on
        <5>1. \E n \in on : \A m \in on : n <= m
          BY <3>2, <4>1, LeastNat
        <5>q. QED BY <5>1 DEF Min
      <4>. DEFINE l == Min(on)
      <4>3. l \in DOMAIN q
        BY <4>2
      <4>4. MacOf(x) = MacOf(q[l])
        BY <2>5, <3>2 DEF MacOf
      <4>. HIDE DEF l
      <4>5. MacOf(q[l]) \in AnyMac
        BY <4>3 DEF ScanOK, Listed, DeviceOK
      <4>q. QED BY <4>4, <4>5
    <3>q. QED BY <3>1, <3>2
  <2>. HIDE DEF on
  <2>8. DeviceOK(x)
    BY <2>6, <2>7 DEF DeviceOK, MacKey, DocKey, Fits
  <2>9. /\ r \in Seq(A \cup {x}) /\ DOMAIN r = 1..(Len(q) + 1)
        /\ r[Len(q) + 1] = x /\ \A i \in 1..Len(q) : r[i] = q[i]
    <3>1. q \in Seq(A \cup {x}) /\ x \in A \cup {x}
      BY <2>3, SeqMonotonic
    <3>q. QED BY <2>1, <3>1, AppendProperties, LenProperties
  <2>10. \A i \in DOMAIN q : i \in DOMAIN r /\ r[i] = q[i]
    BY <2>4, <2>9
  <2>11. \A i \in DOMAIN q : IpOf(q[i]) # IpOf(x)
    BY <2>6 DEF Portless
  <2>12. ASSUME NEW i \in DOMAIN r, i \notin DOMAIN q
         PROVE  /\ DeviceOK(r[i])
                /\ \A j \in DOMAIN r : j # i =>
                     /\ IdOf(r[j]) # IdOf(r[i])
                     /\ IpOf(r[j]) = IpOf(r[i]) /\ IpOf(r[i]) # <<>> => Shares(r[i]) /\ Shares(r[j])
    <3>1. i = Len(q) + 1 /\ r[i] = x
      BY <2>4, <2>9, <2>12
    <3>2. \A j \in DOMAIN r : j # i => j \in DOMAIN q /\ r[j] = q[j]
      BY <2>4, <2>9, <3>1
    <3>q. QED BY <2>2, <2>6, <2>8, <2>11, <3>1, <3>2
  <2>13. ScanOK(r, obs)
    BY <2>9, <2>10, <2>12, Longer
  <2>q. QED BY <2>10, <2>13, MoreDevices
<1>q. QED BY <1>1, <1>2

\* The fold over one instance.
LEMMA OneHub ==
  ASSUME NEW q, NEW hubs, NEW h, hubs = <<h>>, NEW all, all = HubsAdded(q, hubs)
  PROVE  all = AddHub(q, h)
<1>1. DOMAIN hubs = 1..1 /\ 1 \in 1..1 /\ hubs[1] = h /\ 1 - 1 = 0
  OBVIOUS
<1>2. HubsAddedRun(q, hubs, 1, all)
  BY <1>1, HubFold
<1>q. QED BY <1>1, <1>2 DEF HubsAddedRun

\* What discover_home_assistant adds.
LEMMA HubsAre ==
  ASSUME NEW obs, NEW nodes, NEW q, ScanOK(q, obs), Portless(q), AllShown(q, nodes),
         NEW silent, NEW hubs \in HubInstances(silent, q),
         NEW r, r = DiscoverHomeAssistant(q, hubs)
  PROVE  ScanOK(r, obs) /\ AllShown(r, nodes)
<1>0. ASSUME NEW id PROVE \E h : HubInstance(id) = <<h>>
  <2>1. HubInstance(id) = <<HubInstance(id)[1]>>
    BY DEF HubInstance
  <2>q. QED BY <2>1
<1>1. hubs = <<>> \/ \E h : hubs = <<h>>
  BY <1>0 DEF HubInstances
<1>2. r = HubsAdded(q, hubs)
  BY Zenon DEF DiscoverHomeAssistant, HubsAdded
<1>3. CASE hubs = <<>>
  <2>1. 0 \in Nat /\ DOMAIN hubs = 1..0
    BY <1>3
  <2>2. HubsAddedRun(q, hubs, 0, r)
    BY <1>2, <2>1, HubFold
  <2>3. r = q
    BY <2>2 DEF HubsAddedRun
  <2>q. QED BY <2>3
<1>4. ASSUME NEW h, hubs = <<h>> PROVE ScanOK(r, obs) /\ AllShown(r, nodes)
  BY <1>2, <1>4, OneHub, HubIs
<1>q. QED BY <1>1, <1>3, <1>4

\* The web probe changes no id, address or MAC (enrich_web_urls).
LEMMA PagesAre ==
  ASSUME NEW obs, NEW nodes, NEW q, ScanOK(q, obs), AllShown(q, nodes),
         NEW pages, NEW r, r = EnrichWebUrls(q, pages)
  PROVE  ScanOK(r, obs) /\ AllShown(r, nodes)
<1>1. r = [i \in DOMAIN q |-> r[i]]
  BY DEF EnrichWebUrls
<1>2. ASSUME NEW i \in DOMAIN q PROVE SameDevice(r[i], q[i])
  <2>. DEFINE d == q[i]
              e == [d EXCEPT !.url = d.ip, !.sources = @ \cup {"http-probe"}]
  <2>1. r[i] = e \/ r[i] = d
    BY DEF EnrichWebUrls
  <2>2. DOMAIN d = DeviceFields
    BY DEF ScanOK, Listed, DeviceOK
  <2>. HIDE DEF d
  <2>3. SameDevice(e, d) /\ SameDevice(d, d)
    BY <2>2 DEF SameDevice, DeviceFields, IdOf, IpOf, MacOf, HostOf, Present, Shown
  <2>. HIDE DEF e
  <2>q. QED BY <2>1, <2>3 DEF d
<1>q. QED BY <1>1, <1>2, SameIs

\* What a scan makes of its observations and of the nodes it heard.
LEMMA ScannedIs ==
  ASSUME NEW obs, AllObs(obs), NEW nodes, NodesOK(nodes), NEW silent,
         NEW r \in Scanned(obs, nodes, silent)
  PROVE  ScanOK(r, obs) /\ AllShown(r, nodes)
<1>. DEFINE found  == AggregateAndClassify(obs)
            fabric == EnrichMatterFabrics(found, nodes)
            pages  == IF "web" \in silent THEN {} ELSE Live
<1>1. PICK hubs \in HubInstances("homeassistant" \in silent, fabric) :
        r = EnrichWebUrls(DiscoverHomeAssistant(fabric, hubs), pages)
  BY DEF Scanned
<1>2. /\ ScanOK(found, obs) /\ Plain(found)
      /\ \A i \in DOMAIN found : IdOf(found[i])[1] \in Kinds
  BY FoundIs
<1>. HIDE DEF found
<1>3. ScanOK(fabric, obs) /\ Portless(fabric) /\ AllShown(fabric, nodes)
  BY <1>2, MatterIs
<1>. HIDE DEF fabric
<1>. DEFINE all == DiscoverHomeAssistant(fabric, hubs)
<1>4. ScanOK(all, obs) /\ AllShown(all, nodes)
  BY <1>1, <1>3, HubsAre
<1>. HIDE DEF all, pages
<1>5. r = EnrichWebUrls(all, pages)
  BY <1>1 DEF all
<1>q. QED BY <1>4, <1>5, PagesAre

-----------------------------------------------------------------------------
(* The sources of a scan                                                   *)

NetOK == net \in [Stations -> Pool \cup {0}]
LeaseOK == lease \in [Stations -> Pool \cup {0}]
CacheOK(c) == c \in [Addresses -> AnyMac]

\* The network has finitely many addresses.
LEMMA AddressesFinite == IsFiniteSet(Addresses)
<1>1. IsFiniteSet(Pool \cup Peers)
  BY StationAssumption, FS_Union
<1>2. IsFiniteSet((Pool \cup Peers) \cup {Gateway})
  BY <1>1, FS_AddElement
<1>q. QED BY <1>2 DEF Addresses

\* Who answers at an address is a MAC or nobody.
LEMMA MacAtIs ==
  ASSUME NEW a
  PROVE  MacAt(a) \in AnyMac
<1>1. CASE a \in Peers \cup {Gateway}
  BY <1>1 DEF MacAt, AnyMac, Macs
<1>2. CASE a \notin Peers \cup {Gateway}
  BY <1>2 DEF MacAt, AnyMac, Macs
<1>q. QED BY <1>1, <1>2

\* A list that is made of the listing of a set.
LEMMA ObsMade ==
  ASSUME NEW S, IsFiniteSet(S), NEW q, q = [i \in DOMAIN Listing(S) |-> q[i]],
         NEW f, \A i \in DOMAIN Listing(S) : q[i] = f[Listing(S)[i]],
         \A x \in S : ObsOK(f[x])
  PROVE  AllObs(q)
<1>. DEFINE p == Listing(S)
<1>1. Enumerates(p, S)
  BY ListingIs
<1>2. p = [i \in DOMAIN p |-> p[i]] /\ q = [i \in DOMAIN p |-> q[i]]
      /\ \A i \in DOMAIN p : q[i] = f[p[i]]
  BY <1>1 DEF Enumerates
<1>. HIDE DEF p
<1>3. Len(p) \in Nat /\ DOMAIN p = 1..Len(p) /\ \A i \in 1..Len(p) : p[i] \in S
  BY <1>1, LenProperties, ElementOfSeq DEF Enumerates
<1>. DEFINE n == Len(p)
<1>4. n \in Nat /\ q = [i \in 1..n |-> q[i]] /\ \A i \in 1..n : ObsOK(q[i])
  BY <1>2, <1>3
<1>. HIDE DEF n
<1>q. QED BY <1>4, ObsListed

\* The neighbours of one tool.
LEMMA CollectedIs ==
  ASSUME NEW c, CacheOK(c), NEW source
  PROVE  AllObs(CollectFrom(c, source))
<1>. DEFINE S == {a \in Addresses : c[a] # "none"}
            q == CollectFrom(c, source)
            f == [a \in S |-> Observation(<<a>>, c[a], "none", source, "unknown")]
            p == Listing(S)
<1>1. IsFiniteSet(S)
  BY AddressesFinite, FS_Subset
<1>2. q = [i \in DOMAIN p |-> Observation(<<p[i]>>, c[p[i]], "none", source, "unknown")]
  BY DEF CollectFrom
<1>3. Enumerates(p, S)
  BY <1>1, ListingIs
<1>4. ASSUME NEW a \in S PROVE ObsOK(f[a])
  <2>1. f[a] = Observation(<<a>>, c[a], "none", source, "unknown")
    OBVIOUS
  <2>. HIDE DEF f
  <2>2. /\ DOMAIN f[a] = ObsFields /\ IpOf(f[a]) = <<a>> /\ MacOf(f[a]) = c[a] /\ Present(f[a])
    BY <2>1, ObservationIs
  <2>3. a \in Addresses /\ c[a] \in AnyMac
    BY DEF CacheOK
  <2>q. QED BY <2>2, <2>3 DEF ObsOK
<1>. HIDE DEF q, p
<1>5. \A i \in DOMAIN p : p[i] \in S
  BY <1>3, LenProperties, ElementOfSeq DEF Enumerates
<1>. HIDE DEF S
<1>6. q = [i \in DOMAIN p |-> q[i]] /\ \A i \in DOMAIN p : q[i] = f[p[i]]
  BY <1>2, <1>5
<1>. HIDE DEF f
<1>7. AllObs(q)
  BY <1>1, <1>4, <1>6, ObsMade DEF p
<1>q. QED BY <1>7 DEF q

\* The neighbours of both.
LEMMA NeighboursAre ==
  ASSUME NEW c, CacheOK(c)
  PROVE  AllObs(Neighbours(c))
BY CollectedIs, ObsJoined DEF Neighbours

\* The answers to the probes.
LEMMA ProbesAre ==
  ASSUME NEW answers, answers \subseteq Addresses
  PROVE  AllObs(Probes(answers))
<1>. DEFINE q == Probes(answers)
            f == [a \in answers |-> Observation(<<a>>, "none", "none", "active-probe", "unknown")]
            p == Listing(answers)
<1>1. IsFiniteSet(answers)
  BY AddressesFinite, FS_Subset
<1>2. q = [i \in DOMAIN p |-> Observation(<<p[i]>>, "none", "none", "active-probe", "unknown")]
  BY DEF Probes
<1>3. Enumerates(p, answers)
  BY <1>1, ListingIs
<1>4. ASSUME NEW a \in answers PROVE ObsOK(f[a])
  <2>1. f[a] = Observation(<<a>>, "none", "none", "active-probe", "unknown")
    OBVIOUS
  <2>. HIDE DEF f
  <2>2. /\ DOMAIN f[a] = ObsFields /\ IpOf(f[a]) = <<a>> /\ MacOf(f[a]) = "none" /\ Present(f[a])
    BY <2>1, ObservationIs
  <2>q. QED BY <2>2 DEF ObsOK, AnyMac
<1>. HIDE DEF q, p
<1>5. \A i \in DOMAIN p : p[i] \in answers
  BY <1>3, LenProperties, ElementOfSeq DEF Enumerates
<1>6. q = [i \in DOMAIN p |-> q[i]] /\ \A i \in DOMAIN p : q[i] = f[p[i]]
  BY <1>2, <1>5
<1>. HIDE DEF f
<1>7. AllObs(q)
  BY <1>1, <1>4, <1>6, ObsMade DEF p
<1>q. QED BY <1>7 DEF q

\* The names that mDNS gives.
LEMMA HintsAre ==
  ASSUME NetOK
  PROVE  AllObs(MdnsHints)
<1>. DEFINE S == {m \in Advertising : net[m] # 0}
            q == MdnsHints
            f == [s \in S |-> Observation(<<net[s]>>, "none", NameOf[s], "mdns", "unknown")]
            p == Listing(S)
<1>1. IsFiniteSet(S)
  BY StationAssumption, FS_Subset
<1>2. q = [i \in DOMAIN p |-> Observation(<<net[p[i]]>>, "none", NameOf[p[i]], "mdns", "unknown")]
  BY DEF MdnsHints
<1>3. Enumerates(p, S)
  BY <1>1, ListingIs
<1>4. ASSUME NEW s \in S PROVE ObsOK(f[s])
  <2>1. f[s] = Observation(<<net[s]>>, "none", NameOf[s], "mdns", "unknown")
    OBVIOUS
  <2>. HIDE DEF f
  <2>2. /\ DOMAIN f[s] = ObsFields /\ IpOf(f[s]) = <<net[s]>> /\ MacOf(f[s]) = "none"
        /\ Present(f[s])
    BY <2>1, ObservationIs
  <2>3. net[s] \in Addresses
    BY StationAssumption DEF NetOK, Addresses
  <2>q. QED BY <2>2, <2>3 DEF ObsOK, AnyMac
<1>. HIDE DEF q, p
<1>5. \A i \in DOMAIN p : p[i] \in S
  BY <1>3, LenProperties, ElementOfSeq DEF Enumerates
<1>. HIDE DEF S
<1>6. q = [i \in DOMAIN p |-> q[i]] /\ \A i \in DOMAIN p : q[i] = f[p[i]]
  BY <1>2, <1>5
<1>. HIDE DEF f
<1>7. AllObs(q)
  BY <1>1, <1>4, <1>6, ObsMade DEF p
<1>q. QED BY <1>7 DEF q

\* What the router lists, in any order and with or without MACs.
LEMMA EntriesAre ==
  ASSUME LeaseOK, NEW listed \in SUBSET Registered, NEW order \in Listings(listed),
         NEW stale, NEW bare
  PROVE  AllObs(RouterEntries(order, stale, bare))
<1>. DEFINE q == RouterEntries(order, stale, bare)
            A == listed \ Switches
            B == listed \cap Switches
<1>1. A \subseteq Stations /\ \A s \in A : s \notin Switches /\ lease[s] \in Addresses
  BY DEF LeaseOK, Registered, Leased, Addresses
<1>2. IsFiniteSet(A) /\ IsFiniteSet(B)
  BY <1>1, StationAssumption, FS_Subset
<1>3. PICK hosts \in SetToSeqs(A) : order = hosts \o Listing(B)
  BY DEF Listings
<1>4. hosts \in Seq(A) /\ Listing(B) \in Seq(B)
  BY <1>2, <1>3, PermutationIs, ListingIs DEF Enumerates
<1>5. order \in Seq(A \cup B)
  BY <1>3, <1>4, Joined
<1>6. Len(order) \in Nat /\ DOMAIN order = 1..Len(order) /\ \A i \in DOMAIN order : order[i] \in A \cup B
  BY <1>5, LenProperties, ElementOfSeq
<1>7. ASSUME NEW s \in A \cup B
      PROVE  s \in AnyMac /\ (s \in Switches \/ lease[s] \in Addresses)
  BY <1>1 DEF AnyMac, Macs
<1>. HIDE DEF A, B
<1>8. q = [i \in DOMAIN order |-> q[i]]
      /\ \A i \in DOMAIN order :
           q[i] = Observation(IF order[i] \in Switches THEN <<>> ELSE <<lease[order[i]]>>,
                              IF order[i] \in bare THEN "none" ELSE order[i],
                              NameOf[order[i]], "fritzbox-tr064", RouterSays(order[i], stale))
  BY DEF RouterEntries
<1>. HIDE DEF q
<1>9. ASSUME NEW i \in DOMAIN order PROVE ObsOK(q[i])
  <2>. DEFINE s == order[i]
              ip == IF s \in Switches THEN <<>> ELSE <<lease[s]>>
              mac == IF s \in bare THEN "none" ELSE s
  <2>1. q[i] = Observation(ip, mac, NameOf[s], "fritzbox-tr064", RouterSays(s, stale))
    BY <1>8
  <2>2. s \in A \cup B
    BY <1>6
  <2>. HIDE DEF s
  <2>3. mac \in AnyMac /\ (ip = <<>> \/ \E a \in Addresses : ip = <<a>>)
    BY <1>7, <2>2 DEF AnyMac
  <2>. HIDE DEF ip, mac
  <2>4. DOMAIN q[i] = ObsFields /\ IpOf(q[i]) = ip /\ MacOf(q[i]) = mac
    BY <2>1, ObservationIs
  <2>q. QED BY <2>3, <2>4 DEF ObsOK
<1>10. AllObs(q)
  BY <1>6, <1>8, <1>9, ObsListed
<1>q. QED BY <1>10 DEF q

\* Reverse DNS changes the names alone.
LEMMA NamedAre ==
  ASSUME NEW obs, AllObs(obs)
  PROVE  AllObs(EnrichHostnames(obs))
<1>. DEFINE q == EnrichHostnames(obs)
            n == Len(obs)
<1>1. n \in Nat /\ DOMAIN obs = 1..n /\ \A i \in 1..n : ObsOK(obs[i])
  BY ObsAre
<1>2. q = [i \in 1..n |-> q[i]]
  BY <1>1 DEF EnrichHostnames
<1>3. ASSUME NEW i \in 1..n PROVE ObsOK(q[i])
  <2>. DEFINE o == obs[i]
              name == Resolved(o.ip[1])
              e == [o EXCEPT !.host = name]
  <2>1. q[i] = e \/ q[i] = o
    BY <1>1 DEF EnrichHostnames
  <2>2. ObsOK(o)
    BY <1>1
  <2>. HIDE DEF o, q, name
  <2>3. /\ DOMAIN e = ObsFields /\ IpOf(e) = IpOf(o) /\ MacOf(e) = MacOf(o)
        /\ Present(e) <=> Present(o)
    BY <2>2 DEF ObsOK, ObsFields, IpOf, MacOf, Present
  <2>. HIDE DEF e
  <2>q. QED BY <2>1, <2>2, <2>3 DEF ObsOK
<1>. HIDE DEF q, n
<1>4. AllObs(q)
  BY <1>1, <1>2, <1>3, ObsListed
<1>q. QED BY <1>4 DEF q

\* All that a scan observes, whichever sources are silent.
LEMMA ObservedIs ==
  ASSUME NetOK, LeaseOK, AllObs(observations), NEW silent, NEW stale, NEW bare,
         NEW listed \in SUBSET Registered, NEW order \in Listings(listed)
  PROVE  AllObs(Observed(silent, order, stale, bare))
<1>. DEFINE hints == IF "mdns" \in silent THEN <<>> ELSE MdnsHints
            hosts == IF "fritzbox" \in silent THEN <<>> ELSE RouterEntries(order, stale, bare)
            all == observations \o hints \o hosts
<1>1. AllObs(hints)
  BY HintsAre, ObsEmpty
<1>2. AllObs(hosts)
  BY EntriesAre, ObsEmpty
<1>. HIDE DEF hints, hosts
<1>3. AllObs(observations \o hints)
  BY <1>1, ObsJoined
<1>4. AllObs(all)
  BY <1>2, <1>3, ObsJoined
<1>5. Observed(silent, order, stale, bare) = IF "dns" \in silent THEN all ELSE EnrichHostnames(all)
  BY DEF Observed, hints, hosts
<1>. HIDE DEF all
<1>q. QED BY <1>4, <1>5, NamedAre

\* The Matter nodes that mDNS reports.
LEMMA NodesAre ==
  ASSUME NetOK
  PROVE  NodesOK(CollectMatterNodes)
<1>. DEFINE S == {m \in MatterNodes : m.station \in Stations => net[m.station] # 0}
            ip(n) == IF n.addressed THEN <<net[n.station]>> ELSE <<>>
            node(n) == [fabric |-> n.fabric, target |-> n.target, mac |-> "none", ip |-> ip(n)]
            T == CollectMatterNodes
<1>1. T = {node(n) : n \in S}
  BY DEF CollectMatterNodes
<1>2. IsFiniteSet(S)
  BY StationAssumption, FS_Subset
<1>3. \A n : node(n).mac = "none" /\ (node(n).ip = <<>> \/ \E a : node(n).ip = <<a>>)
  OBVIOUS
<1>. HIDE DEF S, node, T
<1>4. [n \in S |-> node(n)] \in Surjection(S, T)
  BY <1>1 DEF Surjection
<1>5. IsFiniteSet(T)
  BY <1>2, <1>4, FS_Surjection
<1>6. \A e \in T : \E n \in S : e = node(n)
  BY <1>1
<1>q. QED BY <1>3, <1>5, <1>6 DEF NodesOK, T

\* What a scan finds can be reconciled.
LEMMA ScanIsSweep ==
  ASSUME NEW q, NEW obs, ScanOK(q, obs)
  PROVE  /\ SweepOK(q) /\ Len(q) \in Nat /\ DOMAIN q = 1..Len(q)
         /\ \A i \in DOMAIN q : MacOf(q[i]) \in AnyMac
<1>1. PICK A : q \in Seq(A)
  BY DEF ScanOK, Listed
<1>2. Len(q) \in Nat /\ DOMAIN q = 1..Len(q)
  BY <1>1, LenProperties
<1>3. /\ \A i \in DOMAIN q : DeviceOK(q[i])
      /\ Distinct(q) /\ Apart(q)
  BY DEF ScanOK, Listed
<1>4. SweepOK(q)
  BY <1>3 DEF Distinct, Apart, Shares, DeviceOK, SweepOK
<1>q. QED BY <1>2, <1>3, <1>4 DEF DeviceOK

-----------------------------------------------------------------------------
(* The invariant                                                           *)

\* The network and what the sources know of it: the types on which the scan and
\* the history rely.
WorldOK ==
  /\ NetOK /\ LeaseOK /\ CacheOK(cache)
  /\ phase \in {"idle", "probing", "enriching", "scanned"}

\* The observations are those of a scan that has begun, and its result is complete.
ResultOK ==
  /\ AllObs(observations)
  /\ phase = "idle" => observations = <<>>
  /\ phase # "scanned" => devices = <<>> /\ heard = {}
  /\ phase = "scanned" => ScanOK(devices, observations) /\ AllShown(devices, heard)

ScanInv == WorldOK /\ ResultOK /\ Stored(store)

\* A sweep that saw nothing.
LEMMA NothingSeen == ScanOK(<<>>, <<>>) /\ AllShown(<<>>, {})
<1>. DEFINE A == {}
<1>1. <<>> \in Seq(A) /\ DOMAIN <<>> = {}
  OBVIOUS
<1>. HIDE DEF A
<1>2. Listed(<<>>)
  BY <1>1 DEF Listed
<1>q. QED BY <1>1, <1>2 DEF ScanOK, Distinct, Apart, Covers, AllShown

\* The store of a first start.
LEMMA EmptyIsStored == Stored(Empty) /\ DOMAIN Empty = {}
<1>1. DOMAIN Empty = {}
  BY DEF Empty
<1>q. QED BY <1>1, FS_EmptySet DEF Stored, Canonical, OldGhosts

\* The invariant holds at the start.
LEMMA ScanInit ==
  ASSUME Init
  PROVE  ScanInv
<1>1. WorldOK
  BY DEF Init, WorldOK, NetOK, LeaseOK, CacheOK, AnyMac
<1>2. ResultOK
  BY ObsEmpty DEF Init, ResultOK
<1>3. Stored(store)
  BY EmptyIsStored, SeededIs DEF Init
<1>q. QED BY <1>1, <1>2, <1>3 DEF ScanInv

-----------------------------------------------------------------------------
(* The steps of the store                                                  *)

\* What stays is at least what it was.
Kept(s, t) == \A k \in DOMAIN s : k \in DOMAIN t => AtLeast(t[k], s[k])

\* A store keeps itself.
LEMMA KeptItself ==
  ASSUME NEW s
  PROVE  Kept(s, s)
BY DEF Kept, AtLeast

\* Forgetting drops records and changes none (forget_device).
LEMMA ForgottenIs ==
  ASSUME NEW s, Stored(s), NEW k, NEW t, t = ForgetDevice(s, k)
  PROVE  Stored(t) /\ Kept(s, t)
<1>. DEFINE D == {j \in DOMAIN s : j # k /\ s[j].id # k /\ KeyOf(s[j]) # k}
<1>1. t = [j \in D |-> s[j]]
  BY DEF ForgetDevice
<1>2. IsFiniteSet(D)
  BY FS_Subset DEF Stored, Canonical
<1>3. D \subseteq DOMAIN s
  OBVIOUS
<1>. HIDE DEF D
<1>4. DOMAIN t = D /\ \A j \in D : t[j] = s[j]
  BY <1>1
<1>5. Canonical(t)
  BY <1>2, <1>3, <1>4 DEF Stored, Canonical
<1>6. OldGhosts(t)
  <2>1. \A j \in DOMAIN t : j \in DOMAIN s /\ t[j] = s[j]
    BY <1>3, <1>4
  <2>2. OldGhosts(s)
    BY DEF Stored
  <2>3. ASSUME NEW g \in DOMAIN t, NEW k2 \in DOMAIN t,
               MacOf(t[g]) = "none", MacOf(t[k2]) # "none", IpOf(t[g]) = IpOf(t[k2]),
               NEW a, IpOf(t[g]) = <<a>>
        PROVE  IdOf(t[g])[1] = "net-ip"
    <3>1. g \in DOMAIN s /\ k2 \in DOMAIN s /\ t[g] = s[g] /\ t[k2] = s[k2]
      BY <2>1
    <3>2. MacOf(s[g]) = "none" /\ MacOf(s[k2]) # "none" /\ IpOf(s[g]) = IpOf(s[k2])
      BY <2>3, <3>1
    <3>3. \E x : IpOf(s[g]) = <<x>>
      BY <2>3, <3>1
    <3>q. QED BY <2>2, <3>1, <3>2, <3>3 DEF OldGhosts
  <2>q. QED BY <2>3 DEF OldGhosts
<1>7. Kept(s, t)
  BY <1>3, <1>4 DEF Kept, AtLeast
<1>q. QED BY <1>5, <1>6, <1>7 DEF Stored

\* A restart loads and seeds: what stays is at least what it was, and a record
\* with a MAC stays.
LEMMA RestartedIs ==
  ASSUME NEW s, Stored(s), NEW u \in LoadFromPath(s), NEW t, t = SeedKnownDevices(u)
  PROVE  /\ Stored(t) /\ Kept(s, t)
         /\ \A k \in DOMAIN s : MacKey(k) => k \in DOMAIN t
<1>1. /\ Keyed(u) /\ Ghosts(u) = {}
      /\ \A k \in DOMAIN u : k \in DOMAIN s => AtLeast(u[k], s[k])
      /\ \A k \in DOMAIN s : MacKey(k) => k \in DOMAIN u
  BY LoadedIs DEF Stored
<1>2. Stored(u)
  BY <1>1, KeyedIsStored
<1>3. Stored(t) /\ Seeded(u, t)
  BY <1>2, SeededIs
<1>4. ASSUME NEW k \in DOMAIN s, k \in DOMAIN t PROVE AtLeast(t[k], s[k])
  <2>1. CASE k \in DOMAIN u
    <3>1. AtLeast(t[k], u[k]) /\ AtLeast(u[k], s[k])
      BY <1>1, <1>3, <2>1 DEF Seeded
    <3>q. QED BY <3>1, AtLeastTransitive
  <2>2. CASE k \notin DOMAIN u
    BY <1>3, <1>4, <2>2, FirmIsAtLeast DEF Seeded
  <2>q. QED BY <2>1, <2>2
<1>5. \A k \in DOMAIN s : MacKey(k) => k \in DOMAIN t
  BY <1>1, <1>3 DEF Seeded
<1>q. QED BY <1>3, <1>4, <1>5 DEF Kept

\* A sweep over the result of a scan.
LEMMA SweepReconciled ==
  ASSUME NEW s, Stored(s), NEW sweep, NEW obs, ScanOK(sweep, obs),
         NEW t \in ReconcileSweep(s, sweep)
  PROVE  /\ Stored(t) /\ Keyed(t) /\ Ghosts(t) = {} /\ StoreStep(s, t, sweep)
         /\ \A k \in DOMAIN t : Active(t[k]) => Reported(sweep, t[k])
<1>. DEFINE n == Len(sweep)
<1>1. n \in Nat /\ DOMAIN sweep = 1..n /\ SweepOK(sweep)
  BY ScanIsSweep
<1>. HIDE DEF n
<1>q. QED BY <1>1, ReconciledIs, KeyedIsStored

\* What a step does to the store: Reconcile as above, every other step keeps.
LEMMA StoreIs ==
  ASSUME ScanInv, [Next]_vars
  PROVE  /\ Stored(store')
         /\ Kept(store, store') \/ Reconcile
<1>1. Stored(store)
  BY DEF ScanInv
<1>2. CASE UNCHANGED store
  BY <1>1, <1>2, KeptItself
<1>3. CASE Reconcile
  <2>1. ScanOK(devices, observations) /\ store' \in ReconcileSweep(store, devices)
    BY <1>3 DEF Reconcile, ScanInv, ResultOK
  <2>q. QED BY <1>1, <1>3, <2>1, SweepReconciled
<1>4. ASSUME NEW k \in DOMAIN store, Forget(k)
      PROVE  Stored(store') /\ Kept(store, store')
  BY <1>1, <1>4, ForgottenIs DEF Forget
<1>5. CASE Restart
  <2>1. PICK u \in LoadFromPath(store) : store' = SeedKnownDevices(u)
    BY <1>5 DEF Restart
  <2>q. QED BY <1>1, <2>1, RestartedIs
<1>q. QED BY <1>2, <1>3, <1>4, <1>5
      DEF Next, vars, world, Move, BeginScan, Probe, Enrich, ScanFails

-----------------------------------------------------------------------------
(* The steps of the scan                                                   *)

\* A station moves.
LEMMA MoveKeeps ==
  ASSUME ScanInv, NEW s \in Stations, NEW a \in Pool \cup {0}, Move(s, a)
  PROVE  WorldOK' /\ ResultOK'
<1>1. WorldOK'
  BY DEF ScanInv, WorldOK, NetOK, LeaseOK, CacheOK, Move
<1>2. ResultOK'
  BY DEF ScanInv, ResultOK, Move
<1>q. QED BY <1>1, <1>2

\* A scan begins.
LEMMA BeginKeeps ==
  ASSUME ScanInv, BeginScan
  PROVE  WorldOK' /\ ResultOK'
<1>1. WorldOK'
  BY DEF ScanInv, WorldOK, NetOK, LeaseOK, CacheOK, BeginScan, world
<1>2. AllObs(observations')
  BY NeighboursAre DEF ScanInv, WorldOK, BeginScan
<1>3. ResultOK'
  BY <1>2 DEF ScanInv, ResultOK, BeginScan
<1>q. QED BY <1>1, <1>3

\* The addresses are probed.
LEMMA ProbeKeeps ==
  ASSUME ScanInv, Probe
  PROVE  WorldOK' /\ ResultOK'
<1>0. Few(Live) \subseteq SUBSET Live
  BY DEF Few
<1>1. PICK lost \in Few(Live), old \in BOOLEAN :
        /\ cache' = [a \in Addresses |->
                      IF a \in Live THEN MacAt(a) ELSE IF old THEN cache[a] ELSE "none"]
        /\ observations' = observations \o Probes(Live \ lost) \o Neighbours(cache')
  BY DEF Probe
<1>2. CacheOK(cache')
  BY <1>1, MacAtIs DEF ScanInv, WorldOK, CacheOK, AnyMac
<1>3. WorldOK'
  BY <1>2 DEF ScanInv, WorldOK, NetOK, LeaseOK, CacheOK, Probe, world
<1>4. AllObs(observations) /\ AllObs(Neighbours(cache'))
  BY <1>2, NeighboursAre DEF ScanInv, ResultOK
<1>5. AllObs(Probes(Live \ lost))
  BY <1>0, ProbesAre DEF Live
<1>6. AllObs(observations \o Probes(Live \ lost))
  BY <1>4, <1>5, ObsJoined
<1>7. AllObs(observations')
  BY <1>1, <1>4, <1>6, ObsJoined
<1>8. ResultOK'
  BY <1>7 DEF ScanInv, ResultOK, Probe
<1>q. QED BY <1>3, <1>8

\* The sources are asked and the result is made.
LEMMA EnrichKeeps ==
  ASSUME ScanInv, Enrich
  PROVE  WorldOK' /\ ResultOK'
<1>1. WorldOK'
  BY DEF ScanInv, WorldOK, NetOK, LeaseOK, CacheOK, Enrich, world
<1>2. PICK silent \in Few(Sources), missed \in Few(Registered) :
        \E stale \in Few(Registered \ missed), bare \in Few(Bare \ missed) :
        \E order \in Listings(Registered \ missed) :
          /\ heard' = IF "matter" \in silent THEN {} ELSE CollectMatterNodes
          /\ observations' = Observed(silent, order, stale, bare)
          /\ devices' \in Scanned(observations', heard', silent)
  BY DEF Enrich
<1>3. AllObs(observations')
  BY <1>2, ObservedIs DEF ScanInv, WorldOK, ResultOK
<1>4. NodesOK({})
  BY FS_EmptySet DEF NodesOK
<1>5. NodesOK(heard')
  BY <1>2, <1>4, NodesAre DEF ScanInv, WorldOK
<1>6. ScanOK(devices', observations') /\ AllShown(devices', heard')
  BY <1>2, <1>3, <1>5, ScannedIs
<1>7. ResultOK'
  BY <1>3, <1>6 DEF ResultOK, Enrich
<1>q. QED BY <1>1, <1>7

\* The scan is over, or lost to a restart.
LEMMA ResetKeeps ==
  ASSUME ScanInv, Reconcile \/ Restart
  PROVE  WorldOK' /\ ResultOK'
<1>1. WorldOK'
  BY DEF ScanInv, WorldOK, NetOK, LeaseOK, CacheOK, Reconcile, Restart, world
<1>2. ResultOK'
  BY ObsEmpty DEF ResultOK, Reconcile, Restart
<1>q. QED BY <1>1, <1>2

\* Every step preserves the invariant.
LEMMA ScanNext ==
  ASSUME ScanInv, [Next]_vars
  PROVE  ScanInv'
<1>1. Stored(store')
  BY StoreIs
<1>2. CASE \E s \in Stations, a \in Pool \cup {0} : Move(s, a)
  BY <1>1, <1>2, MoveKeeps DEF ScanInv
<1>3. CASE BeginScan
  BY <1>1, <1>3, BeginKeeps DEF ScanInv
<1>4. CASE Probe
  BY <1>1, <1>4, ProbeKeeps DEF ScanInv
<1>5. CASE Enrich
  BY <1>1, <1>5, EnrichKeeps DEF ScanInv
<1>6. CASE ScanFails
  <2>1. WorldOK'
    BY <1>6 DEF ScanInv, WorldOK, NetOK, LeaseOK, CacheOK, ScanFails, world
  <2>2. ResultOK'
    BY <1>6, NothingSeen DEF ScanInv, ResultOK, ScanFails
  <2>q. QED BY <1>1, <2>1, <2>2 DEF ScanInv
<1>7. CASE Reconcile \/ Restart
  BY <1>1, <1>7, ResetKeeps DEF ScanInv
<1>8. CASE \E k \in DOMAIN store : Forget(k)
  <2>1. WorldOK'
    BY <1>8 DEF ScanInv, WorldOK, NetOK, LeaseOK, CacheOK, Forget, world
  <2>2. ResultOK'
    BY <1>8 DEF ScanInv, ResultOK, Forget
  <2>q. QED BY <1>1, <2>1, <2>2 DEF ScanInv
<1>9. CASE UNCHANGED vars
  <2>1. WorldOK'
    BY <1>9 DEF ScanInv, WorldOK, NetOK, LeaseOK, CacheOK, vars
  <2>2. ResultOK'
    BY <1>9 DEF ScanInv, ResultOK, vars
  <2>q. QED BY <1>1, <2>1, <2>2 DEF ScanInv
<1>q. QED BY <1>2, <1>3, <1>4, <1>5, <1>6, <1>7, <1>8, <1>9 DEF Next

-----------------------------------------------------------------------------
(* What holds in every state                                               *)

\* The inductive invariant: the network keeps its types, the result of the scan
\* is complete for what the sources said, and the records of the history are under
\* their keys.
THEOREM ScanInvariant == Spec => []ScanInv
<1>1. Init => ScanInv
  BY ScanInit
<1>2. ScanInv /\ [Next]_vars => ScanInv'
  BY ScanNext
<1>q. QED BY <1>1, <1>2, PTL DEF Spec

\* Every observation of a scan is a device of its result, and the ids differ
\* (aggregate_and_classify and the stages after it in scan).
THEOREM ScanIsComplete == Spec => []ScanComplete
<1>1. ScanInv => ScanComplete
  <2>1. SUFFICES ASSUME ScanInv, phase = "scanned" PROVE ScanComplete
    BY DEF ScanComplete
  <2>2. ScanOK(devices, observations)
    BY <2>1 DEF ScanInv, ResultOK
  <2>3. \A i, j \in DOMAIN devices : devices[i].id = devices[j].id => i = j
    BY <2>2 DEF ScanOK, Distinct, IdOf
  <2>4. ASSUME NEW i \in DOMAIN observations
        PROVE  \E j \in DOMAIN devices :
                 /\ devices[j].id = DeviceId(observations[i])
                 /\ devices[j].ip = observations[i].ip
                 /\ observations[i].ip = <<>> => devices[j].mac = observations[i].mac
    BY <2>2 DEF ScanOK, Covers, EntryOf, IdOf, IpOf, MacOf
  <2>q. QED BY <2>3, <2>4 DEF ScanComplete
<1>q. QED BY <1>1, ScanInvariant, PTL

\* A Matter node that was heard is on a device of the result or is one of its own
\* (enrich_matter_fabrics), and the later stages leave it there.
THEOREM MatterIsPlaced == Spec => []MatterPlaced
<1>1. ScanInv => MatterPlaced
  BY DEF ScanInv, ResultOK, AllShown, ShowsNode, Shown, HostOf, MatterPlaced
<1>q. QED BY <1>1, ScanInvariant, PTL

-----------------------------------------------------------------------------
(* What every step of the history does                                     *)

\* What Reconcile does to the store.
LEMMA ReconcileIs ==
  ASSUME ScanInv, Reconcile
  PROVE  /\ Keyed(store') /\ Ghosts(store') = {} /\ StoreStep(store, store', devices)
         /\ \A k \in DOMAIN store' : Active(store'[k]) => Reported(devices, store'[k])
         /\ \A i \in DOMAIN devices : MacOf(devices[i]) \in AnyMac
<1>1. /\ ScanOK(devices, observations) /\ Stored(store)
      /\ store' \in ReconcileSweep(store, devices)
  BY DEF Reconcile, ScanInv, ResultOK
<1>q. QED BY <1>1, SweepReconciled, ScanIsSweep

\* One record for each MAC after every sweep and every restart, and no ghost
\* beside it after a sweep (cleanup_duplicates).
THEOREM NoDuplicatesHold == Spec => NoDuplicates
<1>1. ScanInv /\ [Next]_vars =>
        [Reconcile \/ Restart =>
          /\ \A j, k \in DOMAIN store' :
               store'[j].mac # "none" /\ store'[j].mac = store'[k].mac => j = k
          /\ Reconcile => \A k \in DOMAIN store' : KeyOf(store'[k]) = k
          /\ Reconcile => Ghosts(store') = {}]_vars
  <2>1. SUFFICES ASSUME ScanInv, [Next]_vars
        PROVE  /\ \A j, k \in DOMAIN store' :
                    store'[j].mac # "none" /\ store'[j].mac = store'[k].mac => j = k
               /\ Reconcile => \A k \in DOMAIN store' : KeyOf(store'[k]) = k
               /\ Reconcile => Ghosts(store') = {}
    OBVIOUS
  <2>2. Canonical(store')
    BY <2>1, StoreIs DEF Stored
  <2>3. ASSUME NEW j \in DOMAIN store', NEW k \in DOMAIN store',
               store'[j].mac # "none", store'[j].mac = store'[k].mac
        PROVE  j = k
    <3>1. MacOf(store'[j]) # "none" /\ MacOf(store'[k]) # "none"
      BY <2>3 DEF MacOf
    <3>2. ~DocId(store'[j]) /\ ~DocId(store'[k])
      BY <2>2, <3>1 DEF Canonical, RecordOK
    <3>3. KeyOf(store'[j]) = j /\ KeyOf(store'[k]) = k
      BY <2>2, <3>2, OwnKey
    <3>4. KeyOf(store'[j]) = KeyOf(store'[k])
      BY <2>3, KeyOfIs DEF MacOf
    <3>q. QED BY <3>3, <3>4
  <2>4. Reconcile => Keyed(store') /\ Ghosts(store') = {}
    BY <2>1, ReconcileIs
  <2>q. QED BY <2>3, <2>4 DEF Keyed
<1>q. QED BY <1>1, ScanInvariant, PTL DEF Spec, NoDuplicates

\* After a sweep only what the sweep reports as present is active
\* (reconcile_sweep, mark_missing).
THEOREM ActiveWasSeen == Spec => ActiveIsSeen
<1>1. ScanInv /\ [Next]_vars =>
        [Reconcile =>
          \A k \in DOMAIN store' : store'[k].active =>
            \E i \in DOMAIN devices :
              /\ Present(devices[i])
              /\ \/ devices[i].mac # "none" /\ devices[i].mac = store'[k].mac
                 \/ devices[i].ip # <<>> /\ devices[i].ip = store'[k].ip
                 \/ devices[i].id = store'[k].id]_vars
  BY ReconcileIs DEF Reported, Reports, Active, MacOf, IpOf, IdOf
<1>q. QED BY <1>1, ScanInvariant, PTL DEF Spec, ActiveIsSeen

\* A record whose id went to another, while a newcomer took one, is handed over.
LEMMA HandedIs ==
  ASSUME NEW k, HandedTo(store, store', k), NewMacs(store, devices, store')
  PROVE  HandedOver(k)
<1>1. \E n \in DOMAIN store' \ {k} : store'[n].id = store[k].id
  BY DEF HandedTo, IdOf
<1>2. \E n \in DOMAIN store' \ DOMAIN store :
        \E j \in DOMAIN store : store'[n].id = store[j].id
  BY DEF NewMacs, NewMac, IdOf
<1>q. QED BY <1>1, <1>2 DEF HandedOver

\* A record that stays is at least what it was, or it was handed over.
LEMMA StaysOrGoes ==
  ASSUME ScanInv, [Next]_vars, NEW k \in DOMAIN store, k \in DOMAIN store'
  PROVE  \/ AtLeast(store'[k], store[k])
         \/ /\ HandedTo(store, store', k) /\ NewMacs(store, devices, store')
            /\ \A i \in DOMAIN devices : MacOf(devices[i]) \in AnyMac
<1>1. CASE Kept(store, store')
  BY <1>1 DEF Kept
<1>2. CASE Reconcile
  BY <1>2, ReconcileIs DEF StoreStep
<1>q. QED BY <1>1, <1>2, StoreIs

\* A record with a MAC goes at no restart, and in a sweep only when it is handed
\* over (reconcile_sweep, cleanup_duplicates).
THEOREM RecordsStay == Spec => RecordsKept
<1>1. ScanInv /\ [Next]_vars =>
        [(Reconcile \/ Restart) =>
           \A k \in DOMAIN store :
             k[1] = "mac" /\ k \notin DOMAIN store' => Reconcile /\ HandedOver(k)]_vars
  <2>1. SUFFICES ASSUME ScanInv, [Next]_vars, Reconcile \/ Restart,
                        NEW k \in DOMAIN store, k[1] = "mac", k \notin DOMAIN store'
        PROVE  Reconcile /\ HandedOver(k)
    OBVIOUS
  <2>2. MacKey(k)
    BY <2>1 DEF MacKey
  <2>3. CASE Restart
    <3>1. PICK u \in LoadFromPath(store) : store' = SeedKnownDevices(u)
      BY <2>3 DEF Restart
    <3>q. QED BY <2>1, <2>2, <3>1, RestartedIs DEF ScanInv
  <2>4. CASE Reconcile
    <3>1. HandedTo(store, store', k) /\ NewMacs(store, devices, store')
      BY <2>1, <2>2, <2>4, ReconcileIs DEF StoreStep
    <3>q. QED BY <2>4, <3>1, HandedIs
  <2>q. QED BY <2>1, <2>3, <2>4
<1>q. QED BY <1>1, ScanInvariant, PTL DEF Spec, RecordsKept

\* No step takes a friendly name or a specific kind from a record that stays
\* under its key, unless the record is handed over (better_name, better_kind).
THEOREM NothingDowngraded == Spec => NeverDowngraded
<1>1. ScanInv /\ [Next]_vars =>
        [\A k \in DOMAIN store \cap DOMAIN store' :
           \/ HandedOver(k)
           \/ /\ Generic(store'[k].name) => Generic(store[k].name)
              /\ store'[k].kind = "network-device" => store[k].kind = "network-device"]_vars
  <2>1. SUFFICES ASSUME ScanInv, [Next]_vars, NEW k \in DOMAIN store, k \in DOMAIN store'
        PROVE  \/ HandedOver(k)
               \/ /\ Generic(store'[k].name) => Generic(store[k].name)
                  /\ store'[k].kind = "network-device" => store[k].kind = "network-device"
    OBVIOUS
  <2>2. CASE AtLeast(store'[k], store[k])
    BY <2>2 DEF AtLeast
  <2>3. CASE HandedTo(store, store', k) /\ NewMacs(store, devices, store')
    BY <2>3, HandedIs
  <2>q. QED BY <2>1, <2>2, <2>3, StaysOrGoes
<1>q. QED BY <1>1, ScanInvariant, PTL DEF Spec, NeverDowngraded

-----------------------------------------------------------------------------
(* The life of a status                                                    *)

StatusOK(c) == c \in {"none", "archive", "inactive", "active"}

\* The status of a record (to_proto_device).
LEMMA StatusIs ==
  ASSUME NEW r
  PROVE  /\ StatusOK(Status(r)) /\ Status(r) # "none"
         /\ Status(r) = "archive" => ~Ever(r)
         /\ Status(r) \in {"active", "inactive"} => Active(r) \/ Ever(r)
         /\ Status(r) = "active" => Active(r)
BY DEF Status, StatusOK, Active, Ever

\* The refinement: what the store says of each MAC is a behaviour of StatusLife.
THEOREM LifeIsRefined == Spec => LifeSpec
<1>. DEFINE status == [m \in Macs |-> StatusOf(m)]
<1>1. ASSUME NEW m \in Macs
      PROVE  StatusOK(StatusOf(m)) /\ (StatusOf(m) # "none" <=> <<"mac", m>> \in DOMAIN store)
  BY StatusIs DEF StatusOf, StatusOK
<1>2. ASSUME NEW m \in Macs
      PROVE  StatusOK(StatusOf(m)') /\ (StatusOf(m)' # "none" <=> <<"mac", m>> \in DOMAIN store')
  BY StatusIs DEF StatusOf, StatusOK
<1>3. Init => Life!Init
  <2>1. SUFFICES ASSUME Init, NEW m \in Macs PROVE StatusOf(m) \in {"none", "inactive"}
    BY DEF Life!Init
  <2>2. Seeded(Empty, store) /\ DOMAIN Empty = {}
    BY <2>1, EmptyIsStored, SeededIs DEF Init
  <2>3. CASE <<"mac", m>> \in DOMAIN store
    <3>1. ~Active(store[<<"mac", m>>]) /\ Ever(store[<<"mac", m>>])
      BY <2>2, <2>3 DEF Seeded, Firm
    <3>2. StatusOf(m) = Status(store[<<"mac", m>>])
      BY <2>3 DEF StatusOf
    <3>q. QED BY <3>1, <3>2, StatusIs DEF StatusOK
  <2>q. QED BY <2>3 DEF StatusOf
<1>4. ScanInv /\ [Next]_vars => [Life!Step]_status
  <2>1. SUFFICES ASSUME ScanInv, [Next]_vars PROVE Life!Step
    OBVIOUS
  <2>2. status' \in [Macs -> {"none", "archive", "inactive", "active"}]
    BY <1>2 DEF StatusOK
  <2>3. ASSUME NEW m \in Macs
        PROVE  \/ Life!Allowed(StatusOf(m), StatusOf(m)')
               \/ \E n \in Macs \ {m} : StatusOf(n) = "none" /\ StatusOf(n)' # "none"
    <3>. DEFINE k == <<"mac", m>>
    <3>1. CASE k \notin DOMAIN store \/ k \notin DOMAIN store'
      BY <1>1, <1>2, <3>1 DEF Life!Allowed
    <3>2. ASSUME k \in DOMAIN store, k \in DOMAIN store', AtLeast(store'[k], store[k])
          PROVE  Life!Allowed(StatusOf(m), StatusOf(m)')
      <4>1. StatusOf(m) = Status(store[k]) /\ StatusOf(m)' = Status(store'[k])
        BY <3>2 DEF StatusOf
      <4>2. Active(store[k]) => Ever(store[k])
        BY <2>1, <3>2 DEF ScanInv, Stored, Canonical, RecordOK
      <4>3. Ever(store[k]) => Ever(store'[k])
        BY <3>2 DEF AtLeast
      <4>. HIDE DEF k
      <4>q. QED BY <4>1, <4>2, <4>3, StatusIs DEF Life!Allowed
    <3>3. ASSUME k \in DOMAIN store, NewMacs(store, devices, store'),
                 \A i \in DOMAIN devices : MacOf(devices[i]) \in AnyMac
          PROVE  \E n \in Macs \ {m} : StatusOf(n) = "none" /\ StatusOf(n)' # "none"
      <4>1. PICK j : NewMac(store, devices, store', j)
        BY <3>3 DEF NewMacs
      <4>. DEFINE n == MacOf(store'[j])
      <4>2. /\ j \in DOMAIN store' /\ j \notin DOMAIN store /\ j = <<"mac", n>> /\ n # "none"
            /\ \E l \in DOMAIN devices : MacOf(devices[l]) = n
        BY <4>1 DEF NewMac
      <4>. HIDE DEF n
      <4>3. n \in Macs /\ n # m
        BY <3>3, <4>2 DEF AnyMac
      <4>q. QED BY <1>1, <1>2, <4>2, <4>3
    <3>4. k \in DOMAIN store /\ k \in DOMAIN store' =>
            \/ AtLeast(store'[k], store[k])
            \/ /\ NewMacs(store, devices, store')
               /\ \A i \in DOMAIN devices : MacOf(devices[i]) \in AnyMac
      BY <2>1, StaysOrGoes
    <3>. HIDE DEF k
    <3>q. QED BY <3>1, <3>2, <3>3, <3>4
  <2>q. QED BY <2>2, <2>3 DEF Life!Step, Life!Newcomer
<1>q. QED BY <1>3, <1>4, ScanInvariant, PTL DEF Spec, LifeSpec, Life!Spec
=============================================================================
