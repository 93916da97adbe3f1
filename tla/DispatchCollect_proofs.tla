------------------------ MODULE DispatchCollect_proofs ------------------------
(***************************************************************************)
(* Lemmas about splitting a batch over ranks and putting it together       *)
(* again, for every number of ranks, mesh and batch.                       *)
(***************************************************************************)
EXTENDS DispatchCollect, FiniteSetTheorems, SequenceTheorems, TLAPS

-----------------------------------------------------------------------------
(* Induction over the natural numbers, for a set of them. *)

LEMMA SetInduction ==
  ASSUME NEW G, 0 \in G, \A n \in Nat : n \in G => n + 1 \in G
  PROVE  \A n \in Nat : n \in G
<1> SUFFICES ASSUME NEW n \in Nat, n \notin G PROVE FALSE
  OBVIOUS
<1> DEFINE all == 0 .. n
           Bad == {k \in all : k \notin G}
           T == {0 .. k : k \in Bad}
<1>1. IsFiniteSet(all)
  <2>1. 0 \in Int /\ n \in Int
    OBVIOUS
  <2> QED
    BY <2>1, FS_Interval
<1>2. T \subseteq FiniteSubsetsOf(all) /\ T # {}
  <2>1. n \in Bad
    OBVIOUS
  <2>2. T \subseteq SUBSET all /\ T # {}
    <3>1. ASSUME NEW t \in T PROVE t \subseteq all
      <4>1. PICK k \in Bad : t = 0 .. k
        OBVIOUS
      <4> QED
        BY <4>1
    <3> QED
      BY <2>1, <3>1
  <2> HIDE DEF all, T
  <2> QED
    BY <1>1, <2>2, FS_FiniteSubsetsOfFinite
<1> HIDE DEF all, T
<1>3. PICK t \in T : \A u \in T : ~ (<<u, t>> \in StrictSubsetOrdering(all))
  BY <1>1, <1>2, FS_StrictSubsetOrderingWellFounded, WFMin
<1>4. PICK x \in Bad : t = 0 .. x
  BY <1>3 DEF T
<1>5. x \in 0 .. n /\ x \notin G /\ x # 0
  BY DEF all
<1>6. x - 1 \in Nat /\ x - 1 \in 0 .. n /\ (x - 1) + 1 = x
  BY <1>5
<1>7. CASE x - 1 \in G
  BY <1>5, <1>6, <1>7
<1>8. CASE x - 1 \notin G
  <2>1. 0 .. (x - 1) \in T
    BY <1>6, <1>8 DEF T, all
  <2>2. 0 .. (x - 1) \subseteq 0 .. x /\ 0 .. (x - 1) # 0 .. x /\ 0 .. x \subseteq all
    <3>1. x \in 0 .. x /\ x \notin 0 .. (x - 1)
      BY <1>5, <1>6
    <3> QED
      BY <1>5, <1>6, <3>1 DEF all
  <2>3. <<0 .. (x - 1), 0 .. x>> \in StrictSubsetOrdering(all)
    BY <2>2 DEF StrictSubsetOrdering
  <2> QED
    BY <1>3, <1>4, <2>1, <2>3
<1> QED
  BY <1>7, <1>8

-----------------------------------------------------------------------------

(* Arithmetic of rows, parts and ranks. *)

LEMMA Product ==
  ASSUME NEW a \in Nat, NEW b \in Nat
  PROVE  a * b \in Nat /\ a * b = b * a
OBVIOUS

(* a places of size d and r more: the quotient and the remainder.          *)
LEMMA PlaceOf ==
  ASSUME NEW d \in Nat \ {0}, NEW a \in Nat, NEW r \in 0 .. d - 1
  PROVE  (a * d + r) \div d = a /\ (a * d + r) % d = r
OBVIOUS

LEMMA DivMod ==
  ASSUME NEW d \in Nat \ {0}, NEW x \in Nat
  PROVE  x = (x \div d) * d + (x % d) /\ x \div d \in Nat /\ x % d \in 0 .. d - 1
OBVIOUS

LEMMA LessTimes ==
  ASSUME NEW d \in Nat \ {0}, NEW a \in Nat, NEW b \in Nat
  PROVE  a < b <=> a * d < b * d
<1>1. CASE a < b
  <2>1. b - a \in Nat \ {0} /\ b = a + (b - a)
    BY <1>1
  <2>2. b * d = a * d + (b - a) * d /\ (b - a) * d > 0
    BY <2>1
  <2> QED
    BY <1>1, <2>2
<1>2. CASE b <= a
  <2>1. a - b \in Nat /\ a = b + (a - b)
    BY <1>2
  <2>2. a * d = b * d + (a - b) * d /\ (a - b) * d >= 0
    BY <2>1
  <2> QED
    BY <1>2, <2>2
<1> QED
  BY <1>1, <1>2

-----------------------------------------------------------------------------
(* Concatenation. *)

(* f holds what the first parts of s concatenate to.                       *)
PartialConcats(s, n, f) == f = [i \in 1 .. n |-> IF i = 1 THEN s[i] ELSE f[i - 1] \o s[i]]

LEMMA PartialConcatsExist ==
  ASSUME NEW s, NEW n \in Nat \ {0}
  PROVE  \E f : PartialConcats(s, n, f)
<1> DEFINE G == {m \in Nat : \E f : PartialConcats(s, m + 1, f)}
<1>1. 0 \in G
  <2>1. PartialConcats(s, 0 + 1, [i \in 1 .. 1 |-> s[i]])
    BY DEF PartialConcats
  <2> QED
    BY <2>1
<1>2. ASSUME NEW m \in Nat, m \in G PROVE m + 1 \in G
  <2>1. PICK f : PartialConcats(s, m + 1, f)
    BY <1>2
  <2> DEFINE g == [i \in 1 .. (m + 1) + 1 |-> IF i <= m + 1 THEN f[i] ELSE f[m + 1] \o s[i]]
  <2>2. ASSUME NEW i \in 1 .. (m + 1) + 1
        PROVE  g[i] = IF i = 1 THEN s[i] ELSE g[i - 1] \o s[i]
    <3>1. CASE i <= m + 1
      <4>1. i \in 1 .. m + 1 /\ g[i] = f[i] /\ (i # 1 => g[i - 1] = f[i - 1])
        BY <3>1
      <4>2. f[i] = IF i = 1 THEN s[i] ELSE f[i - 1] \o s[i]
        BY <2>1, <4>1 DEF PartialConcats
      <4> QED
        BY <4>1, <4>2
    <3>2. CASE i = m + 2
      <4>1. i # 1 /\ i - 1 = m + 1 /\ ~ (i <= m + 1) /\ m + 1 \in 1 .. (m + 1) + 1
        BY <3>2
      <4>2. g[i] = f[m + 1] \o s[i]
        BY <4>1
      <4>3. g[m + 1] = f[m + 1]
        BY <4>1
      <4> QED
        BY <4>1, <4>2, <4>3
    <3> QED
      BY <3>1, <3>2
  <2>3. PartialConcats(s, (m + 1) + 1, g)
    BY <2>2 DEF PartialConcats
  <2> QED
    BY <2>3
<1> HIDE DEF G
<1>3. \A m \in Nat : m \in G
  BY <1>1, <1>2, SetInduction
<1>4. n - 1 \in Nat /\ (n - 1) + 1 = n
  OBVIOUS
<1> QED
  BY <1>3, <1>4 DEF G

LEMMA FlattenIsLast ==
  ASSUME NEW s, Len(s) \in Nat \ {0}
  PROVE  \E f : PartialConcats(s, Len(s), f) /\ FlattenSeq(s) = f[Len(s)]
<1> DEFINE chosen == CHOOSE f : PartialConcats(s, Len(s), f)
<1>1. PartialConcats(s, Len(s), chosen)
  BY PartialConcatsExist
<1>2. FlattenSeq(s) = chosen[Len(s)]
  BY DEF FlattenSeq, PartialConcats
<1> QED
  BY <1>1, <1>2

(* What is concatenated has no other elements than its parts.              *)
LEMMA FlattenType ==
  ASSUME NEW S, NEW s \in Seq(Seq(S))
  PROVE  FlattenSeq(s) \in Seq(S)
<1>1. CASE Len(s) = 0
  <2>1. s = << >>
    BY <1>1
  <2>2. FlattenSeq(s) = s
    BY <1>1 DEF FlattenSeq
  <2> QED
    BY <2>1, <2>2, EmptySeq
<1>2. CASE Len(s) # 0
  <2>1. PICK f : PartialConcats(s, Len(s), f) /\ FlattenSeq(s) = f[Len(s)]
    BY <1>2, FlattenIsLast
  <2> DEFINE G == {m \in Nat : m + 1 <= Len(s) => f[m + 1] \in Seq(S)}
  <2>2. 0 \in G
    <3>1. f[1] = s[1] /\ s[1] \in Seq(S)
      BY <1>2, <2>1 DEF PartialConcats
    <3> QED
      BY <3>1
  <2>3. ASSUME NEW m \in Nat, m \in G PROVE m + 1 \in G
    <3> SUFFICES ASSUME (m + 1) + 1 <= Len(s) PROVE f[(m + 1) + 1] \in Seq(S)
      OBVIOUS
    <3>1. (m + 1) + 1 \in 1 .. Len(s) /\ (m + 1) + 1 # 1 /\ ((m + 1) + 1) - 1 = m + 1
      OBVIOUS
    <3>2. f[(m + 1) + 1] = f[m + 1] \o s[(m + 1) + 1]
      BY <2>1, <3>1 DEF PartialConcats
    <3>3. f[m + 1] \in Seq(S) /\ s[(m + 1) + 1] \in Seq(S)
      BY <2>3, <3>1
    <3> QED
      BY <3>2, <3>3
  <2> HIDE DEF G
  <2>4. \A m \in Nat : m \in G
    BY <2>2, <2>3, SetInduction
  <2>5. Len(s) - 1 \in Nat /\ (Len(s) - 1) + 1 = Len(s)
    BY <1>2
  <2> QED
    BY <2>1, <2>4, <2>5 DEF G
<1> QED
  BY <1>1, <1>2

(* Parts of one size k: the j-th element of the i-th part comes after i - 1 *)
(* parts and j - 1 elements.                                               *)
LEMMA FlattenEqual ==
  ASSUME NEW S, NEW s \in Seq(Seq(S)), NEW k \in Nat, \A i \in 1 .. Len(s) : Len(s[i]) = k
  PROVE  /\ Len(FlattenSeq(s)) = Len(s) * k
         /\ \A i \in 1 .. Len(s), j \in 1 .. k : FlattenSeq(s)[(i - 1) * k + j] = s[i][j]
<1>1. CASE Len(s) = 0
  BY <1>1 DEF FlattenSeq
<1>2. CASE Len(s) # 0
  <2>1. PICK f : PartialConcats(s, Len(s), f) /\ FlattenSeq(s) = f[Len(s)]
    BY <1>2, FlattenIsLast
  <2> DEFINE Holds(n) == /\ f[n] \in Seq(S) /\ Len(f[n]) = n * k
                         /\ \A i \in 1 .. n, j \in 1 .. k : f[n][(i - 1) * k + j] = s[i][j]
             G == {m \in Nat : m + 1 <= Len(s) => Holds(m + 1)}
  <2>2. 0 \in G
    <3>1. f[1] = s[1] /\ s[1] \in Seq(S) /\ Len(s[1]) = k
      BY <1>2, <2>1 DEF PartialConcats
    <3>2. Holds(1)
      BY <3>1
    <3> QED
      BY <3>2
  <2>3. ASSUME NEW m \in Nat, m \in G PROVE m + 1 \in G
    <3> DEFINE n == m + 1
    <3>1. SUFFICES ASSUME n + 1 <= Len(s) PROVE Holds(n + 1)
      OBVIOUS
    <3>2. n \in Nat /\ n + 1 \in 1 .. Len(s) /\ n + 1 # 1 /\ (n + 1) - 1 = n /\ n <= Len(s)
      BY <3>1
    <3>3. Holds(n)
      BY <2>3, <3>2
    <3>4. f[n + 1] = f[n] \o s[n + 1]
      BY <2>1, <3>2 DEF PartialConcats
    <3> HIDE DEF n
    <3> DEFINE front == f[n]
               back == s[n + 1]
    <3>5. front \in Seq(S) /\ Len(front) = n * k /\ back \in Seq(S) /\ Len(back) = k
      <4>1. back \in Seq(S) /\ Len(back) = k
        BY <3>2
      <4> QED
        BY <3>3, <4>1
    <3>6. n * k \in Nat /\ (n + 1) * k = n * k + k
      BY <3>2
    <3>7. f[n + 1] = front \o back
      BY <3>4
    <3>8. \A i \in 1 .. n, j \in 1 .. k : front[(i - 1) * k + j] = s[i][j]
      BY <3>3
    <3> HIDE DEF front, back, Holds
    <3>9. f[n + 1] \in Seq(S) /\ Len(f[n + 1]) = (n + 1) * k
      <4>1. f[n + 1] \in Seq(S) /\ Len(f[n + 1]) = Len(front) + Len(back)
        <5>1. front \in Seq(S) /\ back \in Seq(S)
          BY <3>5
        <5>2. front \o back \in Seq(S) /\ Len(front \o back) = Len(front) + Len(back)
          BY <5>1, ConcatProperties
        <5> QED
          BY <3>7, <5>2
      <4> QED
        BY <3>5, <3>6, <4>1
    <3>10. ASSUME NEW i \in 1 .. n + 1, NEW j \in 1 .. k
           PROVE  f[n + 1][(i - 1) * k + j] = s[i][j]
      <4> DEFINE p == (i - 1) * k
      <4>1. CASE i \in 1 .. n
        <5>1. p \in Nat /\ p + k <= n * k
          <6>1. n - i \in Nat /\ n = ((i - 1) + 1) + (n - i)
            BY <3>2, <4>1
          <6>2. n * k = ((i - 1) * k + k) + (n - i) * k /\ (n - i) * k >= 0
            BY <6>1
          <6>3. i - 1 \in Nat /\ (i - 1) * k \in Nat
            BY <4>1
          <6> DEFINE rest == (n - i) * k
                     total == n * k
          <6>4. total = (p + k) + rest /\ rest >= 0 /\ rest \in Int /\ p \in Nat /\ total \in Nat
            BY <3>2, <6>1, <6>2, <6>3
          <6> HIDE DEF rest, total, p
          <6>5. p + k <= total
            BY <6>4
          <6> QED
            BY <6>4, <6>5 DEF total
        <5>2. front[p + j] = s[i][j]
          BY <3>8, <4>1
        <5> HIDE DEF p
        <5>3. p + j \in 1 .. Len(front)
          BY <3>5, <3>6, <5>1
        <5>4. f[n + 1][p + j] = front[p + j]
          BY <3>5, <3>7, <5>3
        <5> QED
          BY <5>2, <5>4 DEF p
      <4>2. CASE i = n + 1
        <5>1. p = n * k
          BY <3>2, <4>2
        <5> HIDE DEF p
        <5>2. p + j \in Len(front) + 1 .. Len(front) + Len(back) /\ (p + j) - Len(front) = j
          BY <3>5, <3>6, <5>1
        <5>3. f[n + 1][p + j] = back[j]
          BY <3>5, <3>6, <3>7, <5>2
        <5> QED
          BY <4>2, <5>3 DEF p, back
      <4> QED
        BY <3>2, <4>1, <4>2
    <3> QED
      BY <3>9, <3>10 DEF Holds
  <2> HIDE DEF G
  <2>4. \A m \in Nat : m \in G
    BY <2>2, <2>3, SetInduction
  <2>5. Len(s) - 1 \in Nat /\ (Len(s) - 1) + 1 = Len(s)
    BY <1>2
  <2>6. Holds(Len(s))
    <3>1. Len(s) - 1 \in G
      BY <2>4, <2>5
    <3>2. Holds((Len(s) - 1) + 1)
      BY <2>5, <3>1 DEF G
    <3> HIDE DEF Holds
    <3> QED
      BY <2>5, <3>2
  <2> QED
    BY <2>1, <2>6
<1> QED
  BY <1>1, <1>2

(* Every place of n parts of k elements is some place of some part.         *)
HasPlace(p, n, k) == \E i \in 1 .. n, j \in 1 .. k : (i - 1) * k + j = p

LEMMA Places ==
  ASSUME NEW n \in Nat, NEW k \in Nat, NEW p, p \in 1 .. n * k
  PROVE  HasPlace(p, n, k)
<1> DEFINE len == n * k
<1>7. len \in Nat /\ p \in 1 .. len
  OBVIOUS
<1> HIDE DEF len
<1> DEFINE i == (p - 1) \div k
           j == (p - 1) % k
<1>1. k # 0
  BY <1>7 DEF len
<1>2. p - 1 \in Nat /\ p - 1 = i * k + j /\ i \in Nat /\ j \in 0 .. k - 1
  <2>1. p - 1 \in Nat /\ k \in Nat \ {0}
    BY <1>1, <1>7
  <2> QED
    BY <2>1, DivMod
<1> HIDE DEF i, j
<1> DEFINE x == i * k
           y == n * k
<1>3. x \in Nat /\ y = len /\ p - 1 = x + j
  BY <1>2 DEF len
<1>4. i < n
  <2> HIDE DEF x, y
  <2>1. x < y
    BY <1>2, <1>3, <1>7
  <2> QED
    BY <1>1, <1>2, <2>1, LessTimes DEF x, y
<1>5. i + 1 \in 1 .. n /\ j + 1 \in 1 .. k /\ (i + 1) - 1 = i
  BY <1>2, <1>4
<1>6. ((i + 1) - 1) * k + (j + 1) = p
  <2>1. ((i + 1) - 1) * k = x
    BY <1>5
  <2> HIDE DEF x
  <2> QED
    BY <1>2, <1>3, <2>1
<1> QED
  BY <1>5, <1>6 DEF HasPlace

(* n parts of k elements of S each, and what they are concatenated to.     *)
EqualParts(s, n, k, S) ==
  s \in Seq(Seq(S)) /\ n = Len(s) /\ k \in Nat /\ \A i \in 1 .. n : Len(s[i]) = k

Joined(s, n, k, S, whole) ==
  /\ whole \in Seq(S) /\ Len(whole) = n * k
  /\ \A i \in 1 .. n, j \in 1 .. k : whole[(i - 1) * k + j] = s[i][j]

LEMMA FlattenParts ==
  ASSUME NEW S, NEW s, NEW n, NEW k, EqualParts(s, n, k, S)
  PROVE  Joined(s, n, k, S, FlattenSeq(s))
BY FlattenEqual, FlattenType, ZenonT(30) DEF EqualParts, Joined

-----------------------------------------------------------------------------
(* The ranks in their order. *)

(* f lists the numbers of a set, n of them, from the smallest on.          *)
Lists(f, n, S) ==
  /\ f \in [1 .. n -> Int] /\ S = {f[i] : i \in 1 .. n}
  /\ \A i, j \in 1 .. n : i < j => f[i] < f[j]

LEMMA ListedSize ==
  ASSUME NEW n \in Nat, NEW f, NEW S, Lists(f, n, S)
  PROVE  IsFiniteSet(S) /\ Cardinality(S) = n
<1>1. 1 \in Int /\ n \in Int
  OBVIOUS
<1>2. IsFiniteSet(1 .. n) /\ Cardinality(1 .. n) = n
  BY <1>1, FS_Interval
<1>3. f \in Bijection(1 .. n, S)
  <2>1. f \in [1 .. n -> S] /\ \A s \in S : \E i \in 1 .. n : f[i] = s
    BY DEF Lists
  <2>2. \A i, j \in 1 .. n : f[i] = f[j] => i = j
    BY DEF Lists
  <2> QED
    BY <2>1, <2>2 DEF Bijection, Injection, Surjection, IsInjective
<1>4. ExistsBijection(1 .. n, S)
  BY <1>3 DEF ExistsBijection
<1> QED
  BY <1>2, <1>4, FS_Bijection

LEMMA InOrderLists ==
  ASSUME NEW n \in Nat, NEW f, NEW S, Lists(f, n, S)
  PROVE  InOrder(S) = f
<1> DEFINE before(r) == {q \in S : q < r}
<1>1. ASSUME NEW i \in 1 .. n PROVE Cardinality(before(f[i])) = i - 1
  <2>1. before(f[i]) = {f[j] : j \in 1 .. i - 1}
    <3>1. ASSUME NEW j \in 1 .. n PROVE f[j] < f[i] <=> j < i
      <4>1. f[i] \in Int /\ f[j] \in Int
        BY DEF Lists
      <4>2. CASE j < i
        BY <4>2 DEF Lists
      <4>3. CASE j = i
        BY <4>1, <4>3
      <4>4. CASE i < j
        <5>1. f[i] < f[j]
          BY <4>4 DEF Lists
        <5> QED
          BY <4>1, <4>4, <5>1
      <4> QED
        BY <4>2, <4>3, <4>4
    <3>2. 1 .. i - 1 \subseteq 1 .. n /\ \A j \in 1 .. n : j < i <=> j \in 1 .. i - 1
      OBVIOUS
    <3>3. S = {f[j] : j \in 1 .. n}
      BY DEF Lists
    <3> QED
      BY <3>1, <3>2, <3>3
  <2> DEFINE g == [j \in 1 .. i - 1 |-> f[j]]
  <2>2. 1 .. i - 1 \subseteq 1 .. n /\ i - 1 \in Nat
    OBVIOUS
  <2>3. Lists(g, i - 1, before(f[i]))
    BY <2>1, <2>2 DEF Lists
  <2> HIDE DEF before, g
  <2> QED
    BY <2>2, <2>3, ListedSize
<1>2. Cardinality(S) = n
  BY ListedSize
<1>3. ASSUME NEW i \in 1 .. n
      PROVE  (CHOOSE r \in S : Cardinality(before(r)) = i - 1) = f[i]
  <2>1. f[i] \in S /\ Cardinality(before(f[i])) = i - 1
    BY <1>1 DEF Lists
  <2>2. ASSUME NEW r \in S, Cardinality(before(r)) = i - 1 PROVE r = f[i]
    <3>1. PICK k \in 1 .. n : r = f[k]
      BY DEF Lists
    <3>2. Cardinality(before(r)) = k - 1
      BY <1>1, <3>1
    <3> HIDE DEF before
    <3>3. k = i
      BY <2>2, <3>2
    <3> QED
      BY <3>1, <3>3
  <2> HIDE DEF before
  <2> QED
    BY <2>1, <2>2
<1>4. f = [i \in 1 .. n |-> f[i]]
  BY DEF Lists
<1> QED
  BY <1>2, <1>3, <1>4 DEF InOrder

(* A mesh has dp data parallel ranks if the i-th rank that collects has     *)
(* the data parallel rank i - 1.                                            *)
WellMeshed(mesh, dp) ==
  /\ dp \in Nat \ {0}
  /\ mesh.dpRank \in [DOMAIN mesh.dpRank -> 0 .. dp - 1]
  /\ InOrder(mesh.collect) \in [1 .. dp -> DOMAIN mesh.dpRank]
  /\ \A i \in 1 .. dp : mesh.dpRank[InOrder(mesh.collect)[i]] = i - 1

(* Device meshes: fsdp_workers.py, agent loops.                             *)
LEMMA DeviceMeshed ==
  ASSUME NEW world \in Nat \ {0}, NEW inner \in Nat \ {0}, world % inner = 0
  PROVE  /\ WellMeshed(DeviceMesh(world, inner), world \div inner)
         /\ \A i \in 1 .. world \div inner :
              InOrder(DeviceMesh(world, inner).collect)[i] = (i - 1) * inner
<1> DEFINE mesh == DeviceMesh(world, inner)
           dp == world \div inner
           f == [i \in 1 .. dp |-> (i - 1) * inner]
<1>1. world = dp * inner /\ dp \in Nat \ {0}
  <2>1. world = (world \div inner) * inner + (world % inner) /\ world \div inner \in Nat
    BY DivMod
  <2> HIDE DEF mesh
  <2>2. world = dp * inner /\ dp \in Nat
    BY <2>1
  <2> HIDE DEF dp
  <2>3. dp # 0
    BY <2>2
  <2> QED
    BY <2>2, <2>3
<1>2. /\ mesh.dpRank = [r \in 0 .. world - 1 |-> r \div inner]
      /\ mesh.collect = {r \in 0 .. world - 1 : r % inner = 0}
  BY DEF DeviceMesh
<1> HIDE DEF mesh, dp
<1>3. ASSUME NEW i \in 1 .. dp
      PROVE  /\ f[i] \in 0 .. world - 1 /\ f[i] % inner = 0 /\ f[i] \div inner = i - 1
  <2>1. i - 1 \in Nat /\ f[i] = (i - 1) * inner + 0 /\ 0 \in 0 .. inner - 1
    BY <1>1
  <2>2. f[i] % inner = 0 /\ f[i] \div inner = i - 1
    BY <2>1, PlaceOf
  <2>3. (i - 1) * inner < dp * inner /\ (i - 1) * inner \in Nat
    BY <1>1, <2>1, LessTimes
  <2> DEFINE x == (i - 1) * inner
             y == dp * inner
  <2>4. x < y /\ x \in Nat /\ y = world /\ f[i] = x
    BY <1>1, <2>1, <2>3
  <2> HIDE DEF x, y, f
  <2>5. f[i] \in 0 .. world - 1
    BY <2>4
  <2> QED
    BY <2>2, <2>5
<1>4. ASSUME NEW r \in 0 .. world - 1
      PROVE  r \div inner \in 0 .. dp - 1 /\ (r % inner = 0 => r = f[r \div inner + 1])
  <2>1. r \in Nat /\ r = (r \div inner) * inner + (r % inner) /\ r \div inner \in Nat
        /\ r % inner \in 0 .. inner - 1
    <3>1. r \in Nat
      OBVIOUS
    <3> QED
      BY <3>1, DivMod
  <2> DEFINE q == r \div inner
             m == r % inner
             x == q * inner
             y == dp * inner
  <2>2. r = x + m /\ m \in Nat /\ x \in Nat /\ y = world /\ q \in Nat
    BY <1>1, <2>1
  <2>3. x < y
    <3> HIDE DEF q, m, x, y
    <3> QED
      BY <2>2
  <2>4. q < dp
    BY <1>1, <2>2, <2>3, LessTimes
  <2>5. q \in 0 .. dp - 1 /\ q + 1 \in 1 .. dp
    <3> HIDE DEF q
    <3> QED
      BY <1>1, <2>2, <2>4
  <2>6. f[q + 1] = ((q + 1) - 1) * inner
    BY <2>5
  <2>7. (q + 1) - 1 = q
    <3> HIDE DEF q
    <3> QED
      BY <2>2
  <2>8. m = 0 => r = f[q + 1]
    BY <2>1, <2>6, <2>7
  <2> QED
    BY <2>5, <2>8
<1>5. Lists(f, dp, mesh.collect)
  <2>1. f \in [1 .. dp -> Int]
    BY <1>1
  <2>2. mesh.collect = {f[i] : i \in 1 .. dp}
    <3>1. ASSUME NEW r \in mesh.collect PROVE r \in {f[i] : i \in 1 .. dp}
      <4>1. r \in 0 .. world - 1 /\ r % inner = 0
        BY <1>2
      <4>2. r \div inner \in 0 .. dp - 1 /\ r = f[r \div inner + 1]
        BY <1>4, <4>1
      <4> DEFINE q == r \div inner
      <4> HIDE DEF q, f
      <4>3. q + 1 \in 1 .. dp
        BY <1>1, <4>2 DEF q
      <4> QED
        BY <4>2, <4>3 DEF q
    <3>2. ASSUME NEW i \in 1 .. dp PROVE f[i] \in mesh.collect
      BY <1>2, <1>3
    <3> HIDE DEF f
    <3> QED
      BY <3>1, <3>2
  <2>3. ASSUME NEW i \in 1 .. dp, NEW j \in 1 .. dp, i < j PROVE f[i] < f[j]
    <3>1. i - 1 \in Nat /\ j - 1 \in Nat /\ i - 1 < j - 1
      BY <1>1, <2>3
    <3>2. (i - 1) * inner < (j - 1) * inner
      BY <3>1, LessTimes
    <3> QED
      BY <3>2
  <2> QED
    BY <2>1, <2>2, <2>3 DEF Lists
<1> HIDE DEF f
<1>6. InOrder(mesh.collect) = f
  BY <1>1, <1>5, InOrderLists
<1>7. f \in [1 .. dp -> 0 .. world - 1]
  BY <1>3, <1>5 DEF Lists
<1>8. mesh.dpRank \in [0 .. world - 1 -> 0 .. dp - 1] /\ DOMAIN mesh.dpRank = 0 .. world - 1
  <2>1. \A r \in 0 .. world - 1 : r \div inner \in 0 .. dp - 1
    BY <1>4
  <2> QED
    BY <1>2, <2>1, ZenonT(30)
<1>9. \A i \in 1 .. dp : mesh.dpRank[f[i]] = i - 1
  <2> SUFFICES ASSUME NEW i \in 1 .. dp PROVE mesh.dpRank[f[i]] = i - 1
    OBVIOUS
  <2>1. f[i] \in 0 .. world - 1 /\ f[i] \div inner = i - 1
    BY <1>3
  <2>2. mesh.dpRank[f[i]] = f[i] \div inner
    BY <1>2, <2>1
  <2> QED
    BY <2>1, <2>2
<1>10. WellMeshed(mesh, dp)
  BY <1>1, <1>6, <1>7, <1>8, <1>9 DEF WellMeshed
<1> QED
  BY <1>6, <1>10 DEF mesh, dp, f

(* Megatron's meshes: the ranks of the last pipeline stage collect.        *)
LEMMA MegatronMeshed ==
  ASSUME NEW world \in Nat \ {0}, NEW inner \in Nat \ {0}, NEW stages \in Nat \ {0},
         world % (inner * stages) = 0
  PROVE  WellMeshed(MegatronMesh(world, inner, stages), world \div (inner * stages))
<1> DEFINE mesh == MegatronMesh(world, inner, stages)
           dp == world \div (inner * stages)
           w == inner * dp
           last == stages - 1
           first == last * dp
           f == [i \in 1 .. dp |-> (first + (i - 1)) * inner]
<1>1. world = dp * (inner * stages) /\ dp \in Nat \ {0}
  <2> DEFINE n == inner * stages
  <2>1. n \in Nat \ {0}
    OBVIOUS
  <2> HIDE DEF n, mesh
  <2> DEFINE d == world \div n
  <2>2. world = d * n + (world % n) /\ d \in Nat
    BY <2>1, DivMod
  <2>3. world % n = 0
    BY DEF n
  <2> HIDE DEF d
  <2>4. world = d * n /\ d \in Nat
    BY <2>1, <2>2, <2>3
  <2>5. d # 0
    BY <2>1, <2>4
  <2> QED
    BY <2>4, <2>5 DEF d, n
<1>2. /\ mesh.dpRank = [r \in 0 .. world - 1 |-> (r \div inner) % dp]
      /\ mesh.collect = {r \in 0 .. world - 1 : r % inner = 0 /\ r \div w = last}
  BY DEF MegatronMesh
<1> HIDE DEF mesh, dp
<1>3. /\ w \in Nat \ {0} /\ last \in Nat /\ stages = last + 1 /\ first \in Nat
      /\ world = last * w + w /\ last * w = first * inner /\ w = dp * inner
  <2>1. w \in Nat \ {0} /\ last \in Nat /\ stages = last + 1 /\ first \in Nat /\ w = dp * inner
    BY <1>1
  <2>2. world = w * stages
    BY <1>1
  <2>3. w * stages = last * w + w
    <3> HIDE DEF w, last
    <3> QED
      BY <2>1
  <2>4. last * w = first * inner
    <3> HIDE DEF last
    <3> QED
      BY <1>1, <2>1
  <2> QED
    BY <2>1, <2>2, <2>3, <2>4
<1> HIDE DEF last, first, w
<1>4. ASSUME NEW i \in 1 .. dp
      PROVE  /\ f[i] \in 0 .. world - 1 /\ f[i] % inner = 0 /\ f[i] \div w = last
             /\ (f[i] \div inner) % dp = i - 1
  <2> DEFINE p == first + (i - 1)
             x == (i - 1) * inner
  <2>1. p \in Nat /\ i - 1 \in Nat /\ i - 1 < dp /\ i - 1 \in 0 .. dp - 1
    BY <1>1, <1>3
  <2>2. x \in Nat /\ x < dp * inner
    BY <1>1, <2>1, LessTimes
  <2>3. f[i] = p * inner + 0 /\ 0 \in 0 .. inner - 1
    BY <2>1
  <2>4. f[i] = first * inner + x
    BY <1>3, <2>1, <2>3
  <2>9. p % dp = i - 1
    <3>1. p = last * dp + (i - 1)
      BY DEF first
    <3>2. (last * dp + (i - 1)) % dp = i - 1
      BY <1>1, <1>3, <2>1, PlaceOf
    <3> HIDE DEF p
    <3> QED
      BY <3>1, <3>2
  <2> HIDE DEF f, x, p
  <2>5. f[i] % inner = 0 /\ f[i] \div inner = p
    <3>1. (p * inner + 0) % inner = 0 /\ (p * inner + 0) \div inner = p
      BY <2>1, <2>3, PlaceOf
    <3> QED
      BY <2>3, <3>1
  <2>6. x \in 0 .. w - 1
    BY <1>3, <2>2
  <2>7. f[i] = last * w + x
    BY <1>3, <2>4
  <2>8. f[i] \div w = last
    <3>1. (last * w + x) \div w = last
      <4>1. w \in Nat \ {0} /\ last \in Nat /\ x \in 0 .. w - 1
        BY <1>3, <2>6
      <4> QED
        BY <4>1, PlaceOf
    <3> QED
      BY <2>7, <3>1
  <2>10. f[i] \in 0 .. world - 1
    <3> DEFINE y == last * w
    <3>1. y \in Nat /\ world = y + w /\ f[i] = y + x
      BY <1>3, <2>7
    <3> HIDE DEF y
    <3> QED
      BY <1>3, <2>6, <3>1
  <2> QED
    BY <2>5, <2>8, <2>9, <2>10
<1>5. ASSUME NEW r \in mesh.collect PROVE r \in {f[i] : i \in 1 .. dp}
  <2> DEFINE q == r \div inner
             m == r % w
             k == q - first
  <2>1. r \in Nat /\ r % inner = 0 /\ r \div w = last
    BY <1>2
  <2>2. r = q * inner /\ q \in Nat
    <3>1. r = (r \div inner) * inner + (r % inner) /\ r \div inner \in Nat
      BY <2>1, DivMod
    <3> QED
      BY <2>1, <3>1
  <2>3. r = last * w + m /\ m \in 0 .. w - 1
    BY <1>3, <2>1, DivMod
  <2> HIDE DEF q, m
  <2>4. r = first * inner + m
    BY <1>3, <2>3
  <2>5. m = k * inner /\ k \in Int
    <3>1. k \in Int /\ q = first + k
      BY <1>3, <2>2
    <3> HIDE DEF k
    <3>2. q * inner = first * inner + k * inner
      BY <1>3, <3>1
    <3> DEFINE a == q * inner
               b == first * inner
               c == k * inner
    <3>3. a = b + c /\ a = b + m
      BY <2>2, <2>4, <3>2
    <3>5. a \in Int /\ b \in Int /\ c \in Int
      BY <1>3, <2>2, <3>1
    <3> HIDE DEF a, b, c
    <3>4. m = c
      BY <2>3, <3>3, <3>5
    <3> QED
      BY <3>1, <3>4 DEF c
  <2> HIDE DEF k
  <2>6. k >= 0
    <3>1. CASE k < 0
      <4>1. k * inner < 0
        BY <2>5, <3>1
      <4> QED
        BY <2>3, <2>5, <4>1
    <3> QED
      BY <2>5, <3>1
  <2>7. k < dp
    <3>1. k \in Nat /\ k * inner < dp * inner
      BY <1>3, <2>3, <2>5, <2>6
    <3> QED
      BY <1>1, <3>1, LessTimes
  <2>8. k + 1 \in 1 .. dp /\ (k + 1) - 1 = k /\ q = first + k
    BY <1>1, <1>3, <2>2, <2>5, <2>6, <2>7 DEF k
  <2>9. r = f[k + 1]
    BY <2>2, <2>8
  <2> HIDE DEF f
  <2> QED
    BY <2>8, <2>9
<1>6. Lists(f, dp, mesh.collect)
  <2>1. f \in [1 .. dp -> Int]
    BY <1>1, <1>3
  <2>2. \A i \in 1 .. dp : f[i] \in mesh.collect
    BY <1>2, <1>4
  <2>3. ASSUME NEW i \in 1 .. dp, NEW j \in 1 .. dp, i < j PROVE f[i] < f[j]
    <3>1. first + (i - 1) \in Nat /\ first + (j - 1) \in Nat /\ first + (i - 1) < first + (j - 1)
      BY <1>1, <1>3, <2>3
    <3>2. (first + (i - 1)) * inner < (first + (j - 1)) * inner
      BY <3>1, LessTimes
    <3> QED
      BY <3>2
  <2> HIDE DEF f
  <2>4. mesh.collect = {f[i] : i \in 1 .. dp}
    BY <1>5, <2>2
  <2> QED
    BY <2>1, <2>3, <2>4 DEF Lists
<1> HIDE DEF f
<1>7. InOrder(mesh.collect) = f
  BY <1>1, <1>6, InOrderLists
<1>8. f \in [1 .. dp -> 0 .. world - 1]
  BY <1>4, <1>6 DEF Lists
<1>9. mesh.dpRank \in [0 .. world - 1 -> 0 .. dp - 1] /\ DOMAIN mesh.dpRank = 0 .. world - 1
  <2>1. ASSUME NEW r \in 0 .. world - 1 PROVE (r \div inner) % dp \in 0 .. dp - 1
    <3>1. r \in Nat
      OBVIOUS
    <3>2. r \div inner \in Nat
      BY <3>1, DivMod
    <3> QED
      BY <1>1, <3>2, DivMod
  <2> QED
    BY <1>2, <2>1
<1>10. \A i \in 1 .. dp : mesh.dpRank[f[i]] = i - 1
  BY <1>2, <1>4
<1>11. WellMeshed(mesh, dp)
  BY <1>1, <1>7, <1>8, <1>9, <1>10 DEF WellMeshed
<1> QED
  BY <1>11 DEF mesh, dp

-----------------------------------------------------------------------------
(* Dispatch and collect. *)

LEMMA MeshSize ==
  ASSUME NEW mesh, NEW dp, WellMeshed(mesh, dp)
  PROVE  Max(Range(mesh.dpRank)) + 1 = dp
<1> DEFINE S == Range(mesh.dpRank)
<1>1. S \subseteq 0 .. dp - 1 /\ dp \in Nat \ {0}
  BY DEF WellMeshed, Range
<1>2. dp - 1 \in S
  <2>1. dp \in 1 .. dp
    BY <1>1
  <2>2. InOrder(mesh.collect)[dp] \in DOMAIN mesh.dpRank
        /\ mesh.dpRank[InOrder(mesh.collect)[dp]] = dp - 1
    BY <2>1 DEF WellMeshed
  <2> QED
    BY <2>2 DEF Range
<1> HIDE DEF S
<1>3. \A x \in S : (\A y \in S : x >= y) <=> x = dp - 1
  BY <1>1, <1>2
<1>4. Max(S) = dp - 1
  BY <1>2, <1>3 DEF Max
<1> QED
  BY <1>1, <1>4 DEF S

(* The chunks of a batch, of the same size up to rows that are left over.  *)
PartOf(chunk, batch, c, size, S) ==
  /\ chunk \in Seq(S) /\ Len(chunk) = size
  /\ \A j \in 1 .. size : /\ c * size + j \in 1 .. Len(batch)
                         /\ chunk[j] = batch[c * size + j]

LEMMA ChunkType ==
  ASSUME NEW S, NEW batch \in Seq(S), NEW dp \in Nat \ {0}, NEW c \in 0 .. dp - 1,
         NEW size, size = Len(batch) \div dp
  PROVE  PartOf(Chunk(batch, dp)[c], batch, c, size, S)
<1> DEFINE from == c * size
           to == (c + 1) * size
<1>1. Len(batch) \in Nat /\ c \in Nat /\ c + 1 <= dp
  OBVIOUS
<1>2. size \in Nat /\ Len(batch) = size * dp + (Len(batch) % dp) /\ Len(batch) % dp \in Nat
  <2> DEFINE len == Len(batch)
  <2>1. len \in Nat
    OBVIOUS
  <2> HIDE DEF len
  <2>2. len = (len \div dp) * dp + (len % dp) /\ len \div dp \in Nat /\ len % dp \in 0 .. dp - 1
    BY <2>1, DivMod
  <2> QED
    BY <2>2 DEF len
<1>3. Chunk(batch, dp)[c] = SubSeq(batch, from + 1, to)
  BY DEF Chunk
<1>4. from \in Nat /\ to = from + size /\ to <= Len(batch)
  <2>1. from \in Nat /\ to = from + size
    BY <1>1, <1>2
  <2>2. to <= dp * size
    <3>1. dp - (c + 1) \in Nat /\ dp = (c + 1) + (dp - (c + 1))
      BY <1>1
    <3> DEFINE left == dp - (c + 1)
               next == c + 1
               d == left * size
               e == dp * size
    <3>2. left \in Nat /\ next \in Nat /\ dp = next + left /\ to = next * size
      BY <3>1, <1>1
    <3> HIDE DEF left, next, to
    <3>4. d \in Nat /\ next * size \in Nat /\ (next + left) * size = next * size + d
      BY <1>2, <3>2, SMTT(30)
    <3>5. dp * size = next * size + d
      BY <3>2, <3>4
    <3>3. e = to + d /\ d \in Nat /\ to \in Int /\ e \in Int
      BY <3>2, <3>4, <3>5
    <3> HIDE DEF d, e
    <3> QED
      BY <3>3 DEF e
  <2> DEFINE e == dp * size
             x == Len(batch) % dp
  <2>3. to <= e /\ e \in Int /\ Len(batch) = e + x /\ x \in Nat /\ to \in Int
    BY <1>1, <1>2, <2>1, <2>2
  <2> HIDE DEF e, x, to
  <2> QED
    BY <2>1, <2>3
<1> HIDE DEF from, to
<1>5. \A i \in from + 1 .. to : batch[i] \in S
  BY <1>2, <1>4
<1>6. from + 1 \in Int /\ to \in Int
  BY <1>2, <1>4
<1>7. /\ SubSeq(batch, from + 1, to) \in Seq(S)
      /\ Len(SubSeq(batch, from + 1, to)) = IF from + 1 <= to THEN to - (from + 1) + 1 ELSE 0
      /\ \A i \in 1 .. to - (from + 1) + 1 :
           SubSeq(batch, from + 1, to)[i] = batch[(from + 1) + i - 1]
  BY <1>5, <1>6, SubSeqProperties
<1>8. Len(SubSeq(batch, from + 1, to)) = size
  BY <1>2, <1>4, <1>7
<1>9. ASSUME NEW j \in 1 .. size
      PROVE  from + j \in 1 .. Len(batch) /\ SubSeq(batch, from + 1, to)[j] = batch[from + j]
  <2>1. Len(batch) \in Nat /\ size \in Nat /\ from \in Nat /\ to = from + size /\ to <= Len(batch)
    BY <1>2, <1>4
  <2>2. from + j \in 1 .. Len(batch) /\ (from + 1) + j - 1 = from + j
    BY <2>1
  <2>3. j \in 1 .. to - (from + 1) + 1
    BY <2>1
  <2> QED
    BY <1>7, <2>2, <2>3
<1> QED
  BY <1>3, <1>7, <1>8, <1>9 DEF from, PartOf

LEMMA DispatchType ==
  ASSUME NEW S, NEW batch \in Seq(S), NEW mesh, NEW dp, WellMeshed(mesh, dp)
  PROVE  /\ DOMAIN DispatchNd(batch, mesh) = DOMAIN mesh.dpRank
         /\ \A r \in DOMAIN mesh.dpRank :
              /\ DispatchNd(batch, mesh)[r] = Chunk(batch, dp)[mesh.dpRank[r]]
              /\ DispatchNd(batch, mesh)[r] \in Seq(S)
              /\ Len(DispatchNd(batch, mesh)[r]) = Len(batch) \div dp
<1>1. DispatchNd(batch, mesh) = [r \in DOMAIN mesh.dpRank |-> Chunk(batch, dp)[mesh.dpRank[r]]]
  BY MeshSize DEF DispatchNd
<1>2. ASSUME NEW r \in DOMAIN mesh.dpRank
      PROVE  /\ Chunk(batch, dp)[mesh.dpRank[r]] \in Seq(S)
             /\ Len(Chunk(batch, dp)[mesh.dpRank[r]]) = Len(batch) \div dp
  <2>1. mesh.dpRank[r] \in 0 .. dp - 1 /\ dp \in Nat \ {0}
    BY DEF WellMeshed
  <2> DEFINE c == mesh.dpRank[r]
  <2> HIDE DEF c
  <2>2. c \in 0 .. dp - 1
    BY <2>1 DEF c
  <2>3. PartOf(Chunk(batch, dp)[c], batch, c, Len(batch) \div dp, S)
    BY <2>1, <2>2, ChunkType
  <2>4. Chunk(batch, dp)[c] \in Seq(S) /\ Len(Chunk(batch, dp)[c]) = Len(batch) \div dp
    BY <2>3, Zenon DEF PartOf
  <2> QED
    BY <2>4, Zenon DEF c
<1> QED
  BY <1>1, <1>2

\* The part that a rank gets.
LEMMA DispatchedPart ==
  ASSUME NEW S, NEW batch \in Seq(S), NEW mesh, NEW dp, WellMeshed(mesh, dp),
         NEW r \in DOMAIN mesh.dpRank, NEW c, c = mesh.dpRank[r]
  PROVE  /\ c \in 0 .. dp - 1
         /\ PartOf(DispatchNd(batch, mesh)[r], batch, c, Len(batch) \div dp, S)
<1>1. c \in 0 .. dp - 1 /\ dp \in Nat \ {0}
  BY DEF WellMeshed
<1>2. DispatchNd(batch, mesh)[r] = Chunk(batch, dp)[c]
  BY DispatchType
<1>3. PartOf(Chunk(batch, dp)[c], batch, c, Len(batch) \div dp, S)
  BY <1>1, ChunkType
<1> QED
  BY <1>1, <1>2, <1>3

(* A cell for each row of a batch, in its order.                            *)
Cells(batch, cell) == [p \in 1 .. Len(batch) |-> cell[batch[p]]]

(* The ranks of a mesh got equal parts of the batch, and each answers with  *)
(* one cell for each row it was sent.                                       *)
RowByRow(outputs, batch, mesh, dp, cell, S, C) ==
  /\ batch \in Seq(S) /\ cell \in [S -> C] /\ Len(batch) % dp = 0
  /\ \A r \in DOMAIN mesh.dpRank :
       outputs[r] = [j \in 1 .. Len(batch) \div dp |-> cell[DispatchNd(batch, mesh)[r][j]]]

(* What a worker group computes row by row comes back in the order of the  *)
(* batch: if every collecting rank answers with one cell for each row it   *)
(* was sent, the collected cells are those of the batch, from first to     *)
(* last (dispatch_lazy_compute_data_proto, collect_lazy_compute_data_proto). *)
THEOREM CollectedInOrder ==
  ASSUME NEW S, NEW C, NEW batch, NEW mesh, NEW dp, NEW cell, NEW outputs,
         WellMeshed(mesh, dp), RowByRow(outputs, batch, mesh, dp, cell, S, C)
  PROVE  CollectNd(outputs, mesh) = Cells(batch, cell)
<1>0. batch \in Seq(S) /\ cell \in [S -> C]
  BY DEF RowByRow
<1> DEFINE order == InOrder(mesh.collect)
           size == Len(batch) \div dp
           parts == [i \in 1 .. Len(order) |-> outputs[order[i]]]
           whole == FlattenSeq(parts)
<1>1. dp \in Nat \ {0} /\ order \in [1 .. dp -> DOMAIN mesh.dpRank] /\ Len(order) = dp
      /\ \A i \in 1 .. dp : mesh.dpRank[order[i]] = i - 1
  BY DEF WellMeshed
<1>2. Len(batch) \in Nat /\ size \in Nat /\ Len(batch) = dp * size
  <2> DEFINE len == Len(batch)
  <2>1. len \in Nat
    OBVIOUS
  <2> HIDE DEF len
  <2>2. len = (len \div dp) * dp + (len % dp) /\ len \div dp \in Nat
    BY <1>1, <2>1, DivMod
  <2>3. len % dp = 0 /\ size = len \div dp
    BY DEF RowByRow, len
  <2>4. len = size * dp /\ size \in Nat
    <3> HIDE DEF size
    <3>1. len = size * dp + (len % dp) /\ size \in Nat
      BY <2>2, <2>3
    <3> DEFINE x == size * dp
    <3>2. x \in Nat /\ len = x + (len % dp)
      BY <1>1, <3>1
    <3> HIDE DEF x
    <3>3. len = x
      BY <2>3, <3>2
    <3> QED
      BY <3>1, <3>3 DEF x
  <2> HIDE DEF size
  <2> QED
    BY <1>1, <2>1, <2>4 DEF len
<1>3. CollectNd(outputs, mesh) = whole
  BY DEF CollectNd
<1> HIDE DEF order, size
<1>4. ASSUME NEW i \in 1 .. dp
      PROVE  /\ parts[i] \in Seq(C) /\ Len(parts[i]) = size
             /\ \A j \in 1 .. size : /\ (i - 1) * size + j \in 1 .. Len(batch)
                                     /\ parts[i][j] = cell[batch[(i - 1) * size + j]]
  <2>1. order[i] \in DOMAIN mesh.dpRank /\ mesh.dpRank[order[i]] = i - 1 /\ i - 1 \in 0 .. dp - 1
    BY <1>1
  <2>2. parts[i] = [j \in 1 .. size |-> cell[Chunk(batch, dp)[i - 1][j]]]
    <3>1. DispatchNd(batch, mesh)[order[i]] = Chunk(batch, dp)[i - 1]
      BY <1>0, <2>1, DispatchType
    <3>2. outputs[order[i]] = [j \in 1 .. size |-> cell[DispatchNd(batch, mesh)[order[i]][j]]]
      BY <2>1 DEF RowByRow, size
    <3> QED
      BY <1>1, <3>1, <3>2
  <2>3. \A j \in 1 .. size : /\ (i - 1) * size + j \in 1 .. Len(batch)
                             /\ Chunk(batch, dp)[i - 1][j] = batch[(i - 1) * size + j]
    <3> DEFINE c == i - 1
    <3>1. c \in 0 .. dp - 1
      BY <2>1
    <3> HIDE DEF c
    <3>2. dp \in Nat \ {0} /\ size = Len(batch) \div dp
      BY <1>1 DEF size
    <3>4. PartOf(Chunk(batch, dp)[c], batch, c, size, S)
      BY <1>0, <3>1, <3>2, ChunkType
    <3>3. \A j \in 1 .. size : /\ c * size + j \in 1 .. Len(batch)
                               /\ Chunk(batch, dp)[c][j] = batch[c * size + j]
      BY <3>4, Zenon DEF PartOf
    <3> QED
      BY <3>3 DEF c
  <2>4. \A j \in 1 .. size : cell[batch[(i - 1) * size + j]] \in C
    <3>1. \A p \in 1 .. Len(batch) : cell[batch[p]] \in C
      BY <1>0
    <3> QED
      BY <2>3, <3>1
  <2>5. ASSUME NEW j \in 1 .. size PROVE parts[i][j] = cell[batch[(i - 1) * size + j]]
    <3>1. parts[i][j] = cell[Chunk(batch, dp)[i - 1][j]]
      BY <2>2
    <3> QED
      BY <2>3, <3>1
  <2>6. parts[i] \in Seq(C) /\ Len(parts[i]) = size
    <3>1. parts[i] \in [1 .. size -> C]
      BY <2>2, <2>4, <2>5
    <3> HIDE DEF parts
    <3> QED
      BY <1>2, <3>1
  <2> QED
    BY <2>3, <2>5, <2>6
<1>5. parts \in Seq(Seq(C)) /\ Len(parts) = dp
  <2>1. parts \in [1 .. dp -> Seq(C)]
    BY <1>1, <1>4
  <2> HIDE DEF parts
  <2> QED
    BY <1>1, <2>1
<1> HIDE DEF parts
<1>6. EqualParts(parts, dp, size, C)
  BY <1>2, <1>4, <1>5 DEF EqualParts
<1>7. /\ whole \in Seq(C) /\ Len(whole) = dp * size
      /\ \A i \in 1 .. dp, j \in 1 .. size : whole[(i - 1) * size + j] = parts[i][j]
  <2>1. Joined(parts, dp, size, C, whole)
    BY <1>6, FlattenParts
  <2> HIDE DEF whole
  <2> QED
    BY <2>1 DEF Joined
<1> HIDE DEF whole
<1>8. ASSUME NEW p \in 1 .. Len(batch) PROVE whole[p] = cell[batch[p]]
  <2>1. PICK i \in 1 .. dp, j \in 1 .. size : (i - 1) * size + j = p
    <3>1. p \in 1 .. dp * size /\ dp \in Nat
      BY <1>1, <1>2
    <3>2. HasPlace(p, dp, size)
      BY <1>2, <3>1, Places
    <3> QED
      BY <3>2 DEF HasPlace
  <2>2. whole[(i - 1) * size + j] = parts[i][j]
    BY <1>7
  <2>3. parts[i][j] = cell[batch[(i - 1) * size + j]]
    BY <1>4
  <2> QED
    BY <2>1, <2>2, <2>3
<1> QED
  BY <1>2, <1>3, <1>7, <1>8 DEF Cells

(* A batch that is dispatched and collected as it is is the batch.          *)
LEMMA CollectedAsSent ==
  ASSUME NEW S, NEW batch \in Seq(S), NEW mesh, NEW dp, WellMeshed(mesh, dp), Len(batch) % dp = 0
  PROVE  CollectNd(DispatchNd(batch, mesh), mesh) = batch
<1> DEFINE same == [r \in S |-> r]
           outputs == DispatchNd(batch, mesh)
<1>1. same \in [S -> S]
  OBVIOUS
<1>2. ASSUME NEW r \in DOMAIN mesh.dpRank
      PROVE  outputs[r] = [j \in 1 .. Len(batch) \div dp |-> same[DispatchNd(batch, mesh)[r][j]]]
  <2> DEFINE part == DispatchNd(batch, mesh)[r]
             size == Len(batch) \div dp
  <2>1. part \in Seq(S) /\ Len(part) = size
    BY DispatchType
  <2> HIDE DEF part, size
  <2>2. part = [j \in 1 .. size |-> part[j]] /\ \A j \in 1 .. size : part[j] \in S
    BY <2>1
  <2> QED
    BY <2>2 DEF part, size
<1> HIDE DEF outputs
<1>3. CollectNd(outputs, mesh) = Cells(batch, same)
  <2> HIDE DEF same
  <2>1. RowByRow(outputs, batch, mesh, dp, same, S, S)
    BY <1>1, <1>2 DEF RowByRow
  <2> QED
    BY <2>1, CollectedInOrder
<1>4. Cells(batch, same) = batch
  <2>1. \A i \in 1 .. Len(batch) : same[batch[i]] = batch[i]
    OBVIOUS
  <2> HIDE DEF same
  <2> QED
    BY <2>1 DEF Cells
<1> QED
  BY <1>3, <1>4 DEF outputs
-----------------------------------------------------------------------------
(* Recursion and sums over finite sets.  The folds of the community modules *)
(* take one element after the other out of a set; which one is a function   *)
(* of the set, and what they make of it is here a function, too.            *)

(* g folds op over the subsets of S, taking out next[s] first.             *)
FoldsSubsets(g, S, next, base, op) ==
  g = [s \in SUBSET S |-> IF s = {} THEN base ELSE op[<<next[s], g[s \ {next[s]}]>>]]

(* next[s] is an element of s.                                             *)
Chooses(next, S) == \A s \in SUBSET S : s # {} => next[s] \in s

LEMMA OneLess ==
  ASSUME NEW S, IsFiniteSet(S), NEW s \in SUBSET S, NEW x \in s
  PROVE  /\ s \ {x} \in SUBSET S /\ IsFiniteSet(s) /\ Cardinality(s) \in Nat \ {0}
         /\ Cardinality(s \ {x}) = Cardinality(s) - 1 /\ Cardinality(s \ {x}) \in Nat
<1>1. IsFiniteSet(s)
  BY FS_Subset
<1>2. Cardinality(s) \in Nat /\ Cardinality(s) # 0
  BY <1>1, FS_CardinalityType, FS_EmptySet
<1>3. IsFiniteSet(s \ {x}) /\ Cardinality(s \ {x}) = Cardinality(s) - 1
  BY <1>1, FS_RemoveElement
<1> QED
  BY <1>1, <1>2, <1>3, FS_CardinalityType

LEMMA FoldExists ==
  ASSUME NEW S, IsFiniteSet(S), NEW next, Chooses(next, S),
         NEW base, NEW op
  PROVE  \E g : FoldsSubsets(g, S, next, base, op)
<1> DEFINE Upto(k) == {s \in SUBSET S : Cardinality(s) <= k}
           Folds(g, k) ==
             g = [s \in Upto(k) |-> IF s = {} THEN base ELSE op[<<next[s], g[s \ {next[s]}]>>]]
           G == {k \in Nat : \E g : Folds(g, k)}
<1>0. \A s \in SUBSET S : Cardinality(s) \in Nat
  BY FS_Subset, FS_CardinalityType
<1>1. 0 \in G
  <2> DEFINE g == [s \in Upto(0) |-> base]
  <2>1. \A s \in Upto(0) : s = {}
    BY <1>0, FS_Subset, FS_EmptySet
  <2>2. Folds(g, 0)
    BY <2>1
  <2> QED
    BY <2>2
<1>2. ASSUME NEW k \in Nat, k \in G PROVE k + 1 \in G
  <2>1. PICK g : Folds(g, k)
    BY <1>2
  <2> DEFINE value(s) == IF s = {} THEN base ELSE op[<<next[s], g[s \ {next[s]}]>>]
             h == [s \in Upto(k + 1) |-> value(s)]
  <2>2. ASSUME NEW s \in Upto(k) PROVE h[s] = g[s]
    <3>1. s \in Upto(k + 1)
      BY <1>0, <2>2
    <3>2. g[s] = value(s)
      BY <2>1
    <3> QED
      BY <3>1, <3>2
  <2>3. ASSUME NEW s \in Upto(k + 1), s # {} PROVE s \ {next[s]} \in Upto(k)
    <3>1. next[s] \in s
      BY <2>3 DEF Chooses
    <3>2. /\ s \ {next[s]} \in SUBSET S /\ Cardinality(s) \in Nat \ {0}
          /\ Cardinality(s \ {next[s]}) = Cardinality(s) - 1
      <4> DEFINE t == next[s]
      <4>1. s \in SUBSET S /\ t \in s
        BY <3>1
      <4> HIDE DEF Upto, t
      <4>2. ASSUME NEW r \in SUBSET S, NEW x \in r
            PROVE  /\ r \ {x} \in SUBSET S /\ Cardinality(r) \in Nat \ {0}
                   /\ Cardinality(r \ {x}) = Cardinality(r) - 1
        BY OneLess
      <4>3. /\ s \ {t} \in SUBSET S /\ Cardinality(s) \in Nat \ {0}
            /\ Cardinality(s \ {t}) = Cardinality(s) - 1
        BY <4>1, <4>2
      <4> QED
        BY <4>3 DEF t
    <3> QED
      BY <3>2
  <2>4. ASSUME NEW s \in Upto(k + 1)
        PROVE  h[s] = IF s = {} THEN base ELSE op[<<next[s], h[s \ {next[s]}]>>]
    BY <2>2, <2>3
  <2> HIDE DEF h
  <2>5. h = [s \in Upto(k + 1) |-> h[s]]
    BY DEF h
  <2>6. Folds(h, k + 1)
    BY <2>4, <2>5
  <2> HIDE DEF Folds
  <2>7. \E f : Folds(f, k + 1)
    BY <2>6
  <2> QED
    BY <2>7
<1> HIDE DEF G
<1>3. \A k \in Nat : k \in G
  BY <1>1, <1>2, SetInduction
<1>4. Cardinality(S) \in Nat
  BY FS_CardinalityType
<1>5. PICK g : Folds(g, Cardinality(S))
  BY <1>3, <1>4 DEF G
<1>6. Upto(Cardinality(S)) = SUBSET S
  BY FS_Subset
<1>7. FoldsSubsets(g, S, next, base, op)
  BY <1>5, <1>6 DEF FoldsSubsets
<1> QED
  BY <1>7

(* Induction over the subsets of a finite set, one element less at a time. *)
Shrinks(G, next, S) ==
  {} \in G /\ \A s \in SUBSET S : s # {} /\ s \ {next[s]} \in G => s \in G

LEMMA SubsetInduction ==
  ASSUME NEW S, IsFiniteSet(S), NEW next, Chooses(next, S), NEW G, Shrinks(G, next, S)
  PROVE  \A s \in SUBSET S : s \in G
<1> DEFINE H == {k \in Nat : \A s \in SUBSET S : Cardinality(s) = k => s \in G}
<1>1. 0 \in H
  <2>1. \A s \in SUBSET S : Cardinality(s) = 0 => s = {}
    BY FS_Subset, FS_EmptySet
  <2> QED
    BY <2>1 DEF Shrinks
<1>2. ASSUME NEW k \in Nat, k \in H PROVE k + 1 \in H
  <2> SUFFICES ASSUME NEW s \in SUBSET S, Cardinality(s) = k + 1 PROVE s \in G
    OBVIOUS
  <2>1. s # {}
    BY FS_EmptySet
  <2>2. next[s] \in s
    BY <2>1 DEF Chooses
  <2>3. s \ {next[s]} \in SUBSET S /\ Cardinality(s \ {next[s]}) = k
    BY <2>2, OneLess
  <2>4. s \ {next[s]} \in G
    BY <1>2, <2>3
  <2> QED
    BY <2>1, <2>4 DEF Shrinks
<1> HIDE DEF H
<1>3. \A k \in Nat : k \in H
  BY <1>1, <1>2, SetInduction
<1>4. \A s \in SUBSET S : Cardinality(s) \in Nat
  BY FS_Subset, FS_CardinalityType
<1> QED
  BY <1>3, <1>4 DEF H

(* The same, one element more at a time, whichever.                        *)
Grows(G, S) == {} \in G /\ \A T \in SUBSET S : \A x \in S \ T : T \in G => T \cup {x} \in G

LEMMA GrowingInduction ==
  ASSUME NEW S, IsFiniteSet(S), NEW G, Grows(G, S)
  PROVE  \A T \in SUBSET S : T \in G
<1> DEFINE next == [s \in SUBSET S |-> CHOOSE x \in s : TRUE]
<1>1. Chooses(next, S)
  BY DEF Chooses
<1> HIDE DEF next
<1>2. ASSUME NEW s \in SUBSET S, s # {}, s \ {next[s]} \in G PROVE s \in G
  <2>1. next[s] \in s
    BY <1>1, <1>2 DEF Chooses
  <2>2. s \ {next[s]} \in SUBSET S /\ next[s] \in S \ (s \ {next[s]})
        /\ (s \ {next[s]}) \cup {next[s]} = s
    BY <2>1
  <2> QED
    BY <1>2, <2>2 DEF Grows
<1>3. Shrinks(G, next, S)
  BY <1>2 DEF Shrinks, Grows
<1> QED
  BY <1>1, <1>3, SubsetInduction

(* What a fold keeps: a set V that holds the base and is closed under op.  *)
LEMMA FoldType ==
  ASSUME NEW S, IsFiniteSet(S), NEW next, Chooses(next, S),
         NEW base, NEW op, NEW g, FoldsSubsets(g, S, next, base, op),
         NEW V, base \in V, \A x \in S : \A v \in V : op[<<x, v>>] \in V
  PROVE  \A s \in SUBSET S : g[s] \in V
<1> DEFINE G == {s \in SUBSET S : g[s] \in V}
<1>0. \A s \in SUBSET S : g[s] = IF s = {} THEN base ELSE op[<<next[s], g[s \ {next[s]}]>>]
  BY DEF FoldsSubsets
<1>1. {} \in G
  BY <1>0
<1>2. ASSUME NEW s \in SUBSET S, s # {}, s \ {next[s]} \in G PROVE s \in G
  <2>1. next[s] \in S /\ g[s \ {next[s]}] \in V
    BY <1>2 DEF Chooses
  <2> QED
    BY <1>0, <1>2, <2>1
<1> HIDE DEF G
<1>4. Shrinks(G, next, S)
  BY <1>1, <1>2 DEF Shrinks
<1>3. \A s \in SUBSET S : s \in G
  BY <1>4, SubsetInduction
<1> QED
  BY <1>3 DEF G

(* The sum of a function over a finite set; f is only looked at in the set. *)
SumOver(f, S) == MapThenSumSet(LAMBDA x : f[x], S)

Adding(f, S, g) ==
  g = [s \in SUBSET S |-> IF s = {} THEN 0
                          ELSE f[CHOOSE x \in s : TRUE] + g[s \ {CHOOSE x \in s : TRUE}]]

Integral(f, S) == IsFiniteSet(S) /\ \A x \in S : f[x] \in Int

LEMMA AddingExists ==
  ASSUME NEW S, NEW f, Integral(f, S)
  PROVE  \E g : Adding(f, S, g)
<1> DEFINE next == [s \in SUBSET S |-> CHOOSE x \in s : TRUE]
           op == [p \in S \X Int |-> f[p[1]] + p[2]]
<1>0. IsFiniteSet(S) /\ \A x \in S : f[x] \in Int
  BY DEF Integral
<1>1. Chooses(next, S)
  BY DEF Chooses
<1>2. \A x \in S : \A v \in Int : op[<<x, v>>] = f[x] + v /\ op[<<x, v>>] \in Int
  BY <1>0
<1>3. \A s \in SUBSET S : next[s] = CHOOSE x \in s : TRUE
  OBVIOUS
<1> HIDE DEF next, op
<1>4. PICK g : FoldsSubsets(g, S, next, 0, op)
  BY <1>0, <1>1, FoldExists
<1>5. \A s \in SUBSET S : g[s] \in Int
  <2>1. 0 \in Int /\ \A x \in S : \A v \in Int : op[<<x, v>>] \in Int
    BY <1>2
  <2> QED
    BY <1>0, <1>1, <1>4, <2>1, FoldType
<1>6. ASSUME NEW s \in SUBSET S
      PROVE  g[s] = IF s = {} THEN 0
                    ELSE f[CHOOSE x \in s : TRUE] + g[s \ {CHOOSE x \in s : TRUE}]
  <2>1. g[s] = IF s = {} THEN 0 ELSE op[<<next[s], g[s \ {next[s]}]>>]
    BY <1>4 DEF FoldsSubsets
  <2>2. ASSUME s # {} PROVE op[<<next[s], g[s \ {next[s]}]>>] = f[next[s]] + g[s \ {next[s]}]
    <3>1. next[s] \in S /\ g[s \ {next[s]}] \in Int
      BY <1>1, <1>5, <2>2 DEF Chooses
    <3> QED
      BY <1>2, <3>1
  <2> QED
    BY <1>3, <2>1, <2>2
<1>7. g = [s \in SUBSET S |-> g[s]]
  BY <1>4 DEF FoldsSubsets
<1>8. Adding(f, S, g)
  BY <1>6, <1>7 DEF Adding
<1> QED
  BY <1>8

LEMMA SumIsAdded ==
  ASSUME NEW S, NEW f, Integral(f, S)
  PROVE  \E g : Adding(f, S, g) /\ SumOver(f, S) = g[S]
<1> DEFINE chosen == CHOOSE g : Adding(f, S, g)
<1>1. Adding(f, S, chosen)
  BY AddingExists
<1>2. SumOver(f, S) = chosen[S]
  BY DEF SumOver, MapThenSumSet, MapThenFoldSet, Adding
<1> QED
  BY <1>1, <1>2

(* The partial sums over subsets do not depend on the set they are within. *)
LEMMA AddingWithin ==
  ASSUME NEW S, NEW f, Integral(f, S), NEW g, Adding(f, S, g)
  PROVE  \A T \in SUBSET S : g[T] \in Int /\ SumOver(f, T) = g[T]
<1> DEFINE next == [s \in SUBSET S |-> CHOOSE x \in s : TRUE]
<1>0. IsFiniteSet(S) /\ \A x \in S : f[x] \in Int
  BY DEF Integral
<1>1. \A s \in SUBSET S : s # {} => next[s] \in s /\ next[s] = CHOOSE x \in s : TRUE
  OBVIOUS
<1>2. \A s \in SUBSET S : g[s] = IF s = {} THEN 0 ELSE f[next[s]] + g[s \ {next[s]}]
  BY <1>1 DEF Adding
<1>9. Chooses(next, S)
  BY <1>1 DEF Chooses
<1>10. \A s \in SUBSET S : s # {} => next[s] = CHOOSE x \in s : TRUE
  BY <1>1
<1> HIDE DEF next
<1>3. \A s \in SUBSET S : g[s] \in Int
  <2> DEFINE G == {s \in SUBSET S : g[s] \in Int}
  <2>1. {} \in G
    BY <1>2
  <2>2. ASSUME NEW s \in SUBSET S, s # {}, s \ {next[s]} \in G PROVE s \in G
    <3>1. f[next[s]] \in Int /\ g[s \ {next[s]}] \in Int
      BY <1>0, <1>9, <2>2 DEF Chooses
    <3>2. g[s] = f[next[s]] + g[s \ {next[s]}]
      BY <1>2, <2>2
    <3>3. g[s] \in Int
      BY <3>1, <3>2
    <3> QED
      BY <3>3
  <2> HIDE DEF G
  <2>3. \A s \in SUBSET S : s \in G
    <3>1. Shrinks(G, next, S)
      BY <2>1, <2>2 DEF Shrinks
    <3> QED
      BY <1>0, <1>9, <3>1, SubsetInduction
  <2> QED
    BY <2>3 DEF G
<1>4. ASSUME NEW T \in SUBSET S PROVE SumOver(f, T) = g[T]
  <2>1. Integral(f, T)
    BY <1>0, FS_Subset DEF Integral
  <2>2. PICK h : Adding(f, T, h) /\ SumOver(f, T) = h[T]
    BY <2>1, SumIsAdded
  <2>3. \A s \in SUBSET T : h[s] = IF s = {} THEN 0 ELSE f[next[s]] + h[s \ {next[s]}]
    BY <1>10, <2>2 DEF Adding
  <2> DEFINE G == {s \in SUBSET S : s \subseteq T => h[s] = g[s]}
  <2>4. {} \in G
    BY <1>2, <2>3
  <2>5. ASSUME NEW s \in SUBSET S, s # {}, s \ {next[s]} \in G PROVE s \in G
    <3> SUFFICES ASSUME s \subseteq T PROVE h[s] = g[s]
      OBVIOUS
    <3>1. h[s \ {next[s]}] = g[s \ {next[s]}]
      BY <2>5
    <3> QED
      BY <1>2, <2>3, <2>5, <3>1
  <2> HIDE DEF G
  <2>6. \A s \in SUBSET S : s \in G
    <3>1. Shrinks(G, next, S)
      BY <2>4, <2>5 DEF Shrinks
    <3> QED
      BY <1>0, <1>9, <3>1, SubsetInduction
  <2> QED
    BY <2>2, <2>6 DEF G
<1> QED
  BY <1>3, <1>4

LEMMA SumType ==
  ASSUME NEW S, NEW f, Integral(f, S)
  PROVE  SumOver(f, S) \in Int /\ (S = {} => SumOver(f, S) = 0)
<1>1. PICK g : Adding(f, S, g) /\ SumOver(f, S) = g[S]
  BY SumIsAdded
<1>2. g[S] \in Int
  BY <1>1, AddingWithin
<1>3. S = {} => g[S] = 0
  BY <1>1 DEF Adding
<1> QED
  BY <1>1, <1>2, <1>3

(* Any element may be taken out first.                                     *)
LEMMA SumTakeOut ==
  ASSUME NEW S, NEW f, Integral(f, S), NEW x \in S
  PROVE  /\ Integral(f, S \ {x})
         /\ SumOver(f, S) = f[x] + SumOver(f, S \ {x})
<1>0. IsFiniteSet(S) /\ \A y \in S : f[y] \in Int
  BY DEF Integral
<1>1. PICK g : Adding(f, S, g) /\ SumOver(f, S) = g[S]
  BY SumIsAdded
<1>2. \A T \in SUBSET S : g[T] \in Int /\ SumOver(f, T) = g[T]
  BY <1>1, AddingWithin
<1>3. \A s \in SUBSET S : s # {} => \E y \in s : g[s] = f[y] + g[s \ {y}]
  BY <1>1 DEF Adding
<1> DEFINE G == {k \in Nat : \A s \in SUBSET S : Cardinality(s) = k =>
                                \A y \in s : g[s] = f[y] + g[s \ {y}]}
<1>4. 0 \in G
  <2>1. \A s \in SUBSET S : Cardinality(s) = 0 => s = {}
    BY <1>0, FS_Subset, FS_EmptySet
  <2> QED
    BY <2>1
<1>5. ASSUME NEW k \in Nat, k \in G PROVE k + 1 \in G
  <2> SUFFICES ASSUME NEW s \in SUBSET S, Cardinality(s) = k + 1, NEW y \in s
               PROVE  g[s] = f[y] + g[s \ {y}]
    OBVIOUS
  <2>1. PICK c \in s : g[s] = f[c] + g[s \ {c}]
    BY <1>3
  <2>2. CASE y = c
    BY <2>1, <2>2
  <2>3. CASE y # c
    <3>1. /\ y \in s \ {c} /\ c \in s \ {y} /\ (s \ {c}) \ {y} = (s \ {y}) \ {c}
          /\ (s \ {c}) \ {y} \in SUBSET S
      BY <2>3
    <3>2. /\ s \ {c} \in SUBSET S /\ Cardinality(s \ {c}) = k
          /\ s \ {y} \in SUBSET S /\ Cardinality(s \ {y}) = k
      BY <1>0, OneLess
    <3>3. g[s \ {c}] = f[y] + g[(s \ {c}) \ {y}] /\ g[s \ {y}] = f[c] + g[(s \ {y}) \ {c}]
      BY <1>5, <3>1, <3>2
    <3>4. f[y] \in Int /\ f[c] \in Int /\ g[(s \ {c}) \ {y}] \in Int
      BY <1>0, <1>2, <3>1
    <3> DEFINE rest == g[(s \ {c}) \ {y}]
    <3>5. g[s \ {c}] = f[y] + rest /\ g[s \ {y}] = f[c] + rest /\ rest \in Int
      BY <3>1, <3>3, <3>4
    <3> HIDE DEF rest
    <3> QED
      BY <2>1, <3>4, <3>5
  <2> QED
    BY <2>2, <2>3
<1> HIDE DEF G
<1>6. \A k \in Nat : k \in G
  BY <1>4, <1>5, SetInduction
<1>7. Cardinality(S) \in Nat
  BY <1>0, FS_CardinalityType
<1>8. g[S] = f[x] + g[S \ {x}]
  BY <1>6, <1>7 DEF G
<1>9. Integral(f, S \ {x})
  BY <1>0, FS_RemoveElement DEF Integral
<1> QED
  BY <1>1, <1>2, <1>8, <1>9

(* The same, said of an element that is added.                             *)
LEMMA SumAddIn ==
  ASSUME NEW S, NEW f, Integral(f, S), NEW T \in SUBSET S, NEW x \in S \ T
  PROVE  SumOver(f, T \cup {x}) = f[x] + SumOver(f, T) /\ SumOver(f, T) \in Int /\ f[x] \in Int
<1>1. T \cup {x} \in SUBSET S /\ (T \cup {x}) \ {x} = T
  OBVIOUS
<1>2. Integral(f, T \cup {x}) /\ Integral(f, T)
  BY <1>1, FS_Subset DEF Integral
<1>3. SumOver(f, T \cup {x}) = f[x] + SumOver(f, (T \cup {x}) \ {x})
  <2>1. x \in T \cup {x}
    OBVIOUS
  <2> QED
    BY <1>2, <2>1, SumTakeOut
<1>4. SumOver(f, T) \in Int
  BY <1>2, SumType
<1> QED
  BY <1>1, <1>3, <1>4 DEF Integral

(* Functions that agree on a set have the same sum over it.                *)
LEMMA SumSame ==
  ASSUME NEW S, NEW f, NEW h, Integral(f, S), \A x \in S : h[x] = f[x]
  PROVE  SumOver(h, S) = SumOver(f, S)
<1>0. IsFiniteSet(S) /\ Integral(h, S)
  BY DEF Integral
<1> DEFINE G == {T \in SUBSET S : SumOver(h, T) = SumOver(f, T)}
<1>1. {} \in G
  <2>1. Integral(f, {}) /\ Integral(h, {})
    BY FS_EmptySet DEF Integral
  <2> QED
    BY <2>1, SumType
<1>2. ASSUME NEW T \in SUBSET S, NEW x \in S \ T, T \in G PROVE T \cup {x} \in G
  <2>1. SumOver(f, T \cup {x}) = f[x] + SumOver(f, T)
    BY SumAddIn
  <2>2. SumOver(h, T \cup {x}) = h[x] + SumOver(h, T)
    BY <1>0, SumAddIn
  <2> QED
    BY <1>2, <2>1, <2>2
<1> HIDE DEF G
<1>3. \A T \in SUBSET S : T \in G
  <2>1. Grows(G, S)
    BY <1>1, <1>2 DEF Grows
  <2> QED
    BY <1>0, <2>1, GrowingInduction
<1> QED
  BY <1>3 DEF G

LEMMA OneMoreTimes ==
  ASSUME NEW a \in Int, NEW k \in Nat
  PROVE  a * (k + 1) = a * k + a /\ a * k \in Int /\ a * 0 = 0
OBVIOUS

(* A sum lies between as many times the least and the greatest value.      *)
LEMMA SumWithin ==
  ASSUME NEW S, NEW f, Integral(f, S), NEW lo \in Int, NEW hi \in Int,
         \A x \in S : lo <= f[x] /\ f[x] <= hi
  PROVE  lo * Cardinality(S) <= SumOver(f, S) /\ SumOver(f, S) <= hi * Cardinality(S)
<1> DEFINE Within(T) == lo * Cardinality(T) <= SumOver(f, T) /\ SumOver(f, T) <= hi * Cardinality(T)
           G == {T \in SUBSET S : Within(T)}
<1>0. IsFiniteSet(S)
  BY DEF Integral
<1>1. {} \in G
  <2>1. Integral(f, {})
    BY FS_EmptySet DEF Integral
  <2> QED
    BY <2>1, SumType, FS_EmptySet, OneMoreTimes
<1>2. ASSUME NEW T \in SUBSET S, NEW x \in S \ T, T \in G PROVE T \cup {x} \in G
  <2>1. SumOver(f, T \cup {x}) = f[x] + SumOver(f, T) /\ SumOver(f, T) \in Int /\ f[x] \in Int
    BY SumAddIn
  <2>2. Cardinality(T) \in Nat /\ Cardinality(T \cup {x}) = Cardinality(T) + 1
    BY <1>0, FS_Subset, FS_AddElement, FS_CardinalityType
  <2>3. lo * (Cardinality(T) + 1) = lo * Cardinality(T) + lo /\ lo * Cardinality(T) \in Int
    BY <2>2, OneMoreTimes
  <2>4. hi * (Cardinality(T) + 1) = hi * Cardinality(T) + hi /\ hi * Cardinality(T) \in Int
    BY <2>2, OneMoreTimes
  <2>5. lo * Cardinality(T) <= SumOver(f, T) /\ SumOver(f, T) <= hi * Cardinality(T)
    BY <1>2
  <2>6. lo <= f[x] /\ f[x] <= hi
    OBVIOUS
  <2> DEFINE a == SumOver(f, T)
             u == lo * Cardinality(T)
             v == hi * Cardinality(T)
  <2>7. u <= a /\ a <= v /\ u \in Int /\ a \in Int /\ v \in Int
    BY <2>1, <2>3, <2>4, <2>5
  <2> HIDE DEF a, u, v
  <2>8. u + lo <= f[x] + a /\ f[x] + a <= v + hi
    BY <2>1, <2>6, <2>7
  <2>9. Within(T \cup {x})
    BY <2>1, <2>2, <2>3, <2>4, <2>8 DEF a, u, v
  <2> QED
    BY <2>9
<1> HIDE DEF G
<1>3. \A T \in SUBSET S : T \in G
  <2>1. Grows(G, S)
    BY <1>1, <1>2 DEF Grows
  <2> QED
    BY <1>0, <2>1, GrowingInduction
<1> QED
  BY <1>3 DEF G

LEMMA TimesMonotone ==
  ASSUME NEW d \in Nat, NEW a \in Int, NEW b \in Int, a <= b
  PROVE  a * d <= b * d /\ a * d \in Int /\ b * d \in Int
<1>1. b - a \in Nat
  OBVIOUS
<1>2. (b - a) * d \in Nat /\ b * d = a * d + (b - a) * d
  BY <1>1
<1> QED
  BY <1>2

LEMMA QuotientWithin ==
  ASSUME NEW a \in Int, NEW k \in Nat \ {0}, NEW lo \in Int, NEW hi \in Int,
         lo * k <= a, a <= hi * k
  PROVE  a \div k \in lo .. hi
<1> DEFINE q == a \div k
           r == a % k
<1>1. q \in Int /\ r \in 0 .. k - 1 /\ a = q * k + r
  OBVIOUS
<1> HIDE DEF q, r
<1>2. q >= lo
  <2> SUFFICES ASSUME q + 1 <= lo PROVE FALSE
    BY <1>1
  <2>1. (q + 1) * k <= lo * k
    BY <1>1, TimesMonotone
  <2>2. (q + 1) * k = q * k + k
    BY <1>1
  <2> QED
    BY <1>1, <2>1, <2>2
<1>3. q <= hi
  <2> SUFFICES ASSUME hi + 1 <= q PROVE FALSE
    BY <1>1
  <2>1. (hi + 1) * k <= q * k
    BY <1>1, TimesMonotone
  <2>2. (hi + 1) * k = hi * k + k
    OBVIOUS
  <2> QED
    BY <1>1, <2>1, <2>2
<1> QED
  BY <1>1, <1>2, <1>3 DEF q

(* The mean of some values lies between them, rounded down or not.         *)
LEMMA MeanWithin ==
  ASSUME NEW S, NEW f, Integral(f, S), S # {}, NEW lo \in Int, NEW hi \in Int,
         \A x \in S : lo <= f[x] /\ f[x] <= hi
  PROVE  SumOver(f, S) \div Cardinality(S) \in lo .. hi
<1>1. Cardinality(S) \in Nat \ {0}
  BY FS_CardinalityType, FS_EmptySet DEF Integral
<1>2. SumOver(f, S) \in Int
  BY SumType
<1>3. lo * Cardinality(S) <= SumOver(f, S) /\ SumOver(f, S) <= hi * Cardinality(S)
  BY SumWithin
<1> QED
  BY <1>1, <1>2, <1>3, QuotientWithin

(* A sum of multiples is the multiple of the sums.                         *)
Combines(k, f, h, a, b, S) == \A x \in S : k[x] = a * f[x] - b * h[x]

LEMMA SumCombine ==
  ASSUME NEW S, NEW f, Integral(f, S), NEW h, Integral(h, S), NEW a \in Int, NEW b \in Int,
         NEW k, Combines(k, f, h, a, b, S)
  PROVE  /\ Integral(k, S)
         /\ SumOver(k, S) = a * SumOver(f, S) - b * SumOver(h, S)
<1>0. IsFiniteSet(S) /\ Integral(k, S)
  <2>1. IsFiniteSet(S) /\ \A x \in S : f[x] \in Int /\ h[x] \in Int
    BY DEF Integral
  <2>2. \A x \in S : k[x] \in Int
    BY <2>1 DEF Combines
  <2> QED
    BY <2>1, <2>2 DEF Integral
<1> DEFINE G == {T \in SUBSET S : SumOver(k, T) = a * SumOver(f, T) - b * SumOver(h, T)}
<1>1. {} \in G
  <2>1. Integral(f, {}) /\ Integral(h, {}) /\ Integral(k, {})
    BY FS_EmptySet DEF Integral
  <2>2. SumOver(f, {}) = 0 /\ SumOver(h, {}) = 0 /\ SumOver(k, {}) = 0
    BY <2>1, SumType
  <2> QED
    BY <2>2
<1>2. ASSUME NEW T \in SUBSET S, NEW x \in S \ T, T \in G PROVE T \cup {x} \in G
  <2>1. SumOver(f, T \cup {x}) = f[x] + SumOver(f, T) /\ SumOver(f, T) \in Int /\ f[x] \in Int
    BY SumAddIn
  <2>2. SumOver(h, T \cup {x}) = h[x] + SumOver(h, T) /\ SumOver(h, T) \in Int /\ h[x] \in Int
    BY SumAddIn
  <2>3. SumOver(k, T \cup {x}) = k[x] + SumOver(k, T)
    BY <1>0, SumAddIn
  <2>4. k[x] = a * f[x] - b * h[x]
    BY DEF Combines
  <2>5. SumOver(k, T) = a * SumOver(f, T) - b * SumOver(h, T)
    BY <1>2
  <2> DEFINE u == SumOver(f, T)
             v == SumOver(h, T)
             y == f[x]
             z == h[x]
  <2>6. u \in Int /\ v \in Int /\ y \in Int /\ z \in Int
    BY <2>1, <2>2
  <2>7. SumOver(k, T \cup {x}) = (a * y - b * z) + (a * u - b * v)
    BY <2>3, <2>4, <2>5
  <2>8. SumOver(f, T \cup {x}) = y + u /\ SumOver(h, T \cup {x}) = z + v
    BY <2>1, <2>2
  <2> HIDE DEF u, v, y, z
  <2>9. (a * y - b * z) + (a * u - b * v) = a * (y + u) - b * (z + v)
    BY <2>6
  <2> QED
    BY <2>7, <2>8, <2>9
<1> HIDE DEF G
<1>3. \A T \in SUBSET S : T \in G
  <2>1. Grows(G, S)
    BY <1>1, <1>2 DEF Grows
  <2> QED
    BY <1>0, <2>1, GrowingInduction
<1> QED
  BY <1>0, <1>3 DEF G

(* A sum of ones counts.                                                   *)
LEMMA SumOfOnes ==
  ASSUME NEW S, IsFiniteSet(S), NEW f, \A x \in S : f[x] = 1
  PROVE  Integral(f, S) /\ SumOver(f, S) = Cardinality(S)
<1>0. Integral(f, S) /\ \A x \in S : 1 <= f[x] /\ f[x] <= 1
  BY DEF Integral
<1>1. 1 * Cardinality(S) <= SumOver(f, S) /\ SumOver(f, S) <= 1 * Cardinality(S)
  BY <1>0, SumWithin
<1>2. Cardinality(S) \in Nat /\ SumOver(f, S) \in Int
  BY <1>0, FS_CardinalityType, SumType
<1> QED
  BY <1>0, <1>1, <1>2

(* A sum over elements of one set is the sum over those of another that    *)
(* they are mapped to, each to one of its own.                             *)
OneToOne(m, S) == \A x, y \in S : m[x] = m[y] => x = y
ImageOf(m, S) == {m[x] : x \in S}

LEMMA SumMoved ==
  ASSUME NEW S, IsFiniteSet(S), NEW m, OneToOne(m, S), NEW f, Integral(f, ImageOf(m, S)),
         NEW k, \A x \in S : k[x] = f[m[x]]
  PROVE  Integral(k, S) /\ SumOver(k, S) = SumOver(f, ImageOf(m, S))
<1> DEFINE V == ImageOf(m, S)
<1>0. IsFiniteSet(V) /\ Integral(k, S)
  BY DEF Integral, ImageOf
<1> DEFINE G == {T \in SUBSET S : SumOver(k, T) = SumOver(f, ImageOf(m, T))}
<1>1. {} \in G
  <2>1. Integral(f, {}) /\ Integral(k, {}) /\ ImageOf(m, {}) = {}
    BY FS_EmptySet DEF Integral, ImageOf
  <2>2. SumOver(f, {}) = 0 /\ SumOver(k, {}) = 0
    BY <2>1, SumType
  <2> QED
    BY <2>1, <2>2
<1>2. ASSUME NEW T \in SUBSET S, NEW x \in S \ T, T \in G PROVE T \cup {x} \in G
  <2>1. SumOver(k, T \cup {x}) = k[x] + SumOver(k, T)
    BY <1>0, SumAddIn
  <2>2. ImageOf(m, T) \in SUBSET V /\ m[x] \in V \ ImageOf(m, T)
    BY DEF ImageOf, OneToOne
  <2>3. ImageOf(m, T \cup {x}) = ImageOf(m, T) \cup {m[x]}
    BY DEF ImageOf
  <2> HIDE DEF V
  <2>4. Integral(f, V)
    BY DEF V
  <2>5. SumOver(f, ImageOf(m, T) \cup {m[x]}) = f[m[x]] + SumOver(f, ImageOf(m, T))
    BY <2>2, <2>4, SumAddIn
  <2>6. k[x] = f[m[x]] /\ SumOver(k, T) = SumOver(f, ImageOf(m, T))
    BY <1>2
  <2>7. SumOver(k, T \cup {x}) = SumOver(f, ImageOf(m, T \cup {x}))
    BY <2>1, <2>3, <2>5, <2>6
  <2> QED
    BY <2>7
<1> HIDE DEF G
<1>3. \A T \in SUBSET S : T \in G
  <2>1. Grows(G, S)
    BY <1>1, <1>2 DEF Grows
  <2> QED
    BY <2>1, GrowingInduction
<1> QED
  BY <1>0, <1>3 DEF G

-----------------------------------------------------------------------------
(* The greatest and the least element of a finite set of integers.         *)

LEMMA GreatestOf ==
  ASSUME NEW S \in SUBSET Int, IsFiniteSet(S), S # {}
  PROVE  Max(S) \in S /\ \A y \in S : y <= Max(S)
<1> DEFINE Bounded(T) == T = {} \/ \E x \in T : \A y \in T : x >= y
           G == {T \in SUBSET S : Bounded(T)}
<1>1. ASSUME NEW T \in SUBSET S, NEW z \in S \ T, T \in G PROVE T \cup {z} \in G
  <2>1. CASE T = {}
    <3>1. z \in T \cup {z} /\ \A y \in T \cup {z} : z >= y
      BY <2>1
    <3> QED
      BY <3>1
  <2>2. CASE T # {}
    <3>1. PICK x \in T : \A y \in T : x >= y
      BY <1>1, <2>2
    <3>2. CASE x >= z
      BY <3>1, <3>2
    <3>3. CASE z >= x
      <4>1. \A y \in T : y \in Int /\ x \in Int /\ z \in Int /\ x >= y
        BY <3>1
      <4>2. \A y \in T \cup {z} : z >= y
        BY <3>3, <4>1
      <4> QED
        BY <4>2
    <3>4. x \in Int /\ z \in Int
      OBVIOUS
    <3> QED
      BY <3>2, <3>3, <3>4
  <2> QED
    BY <2>1, <2>2
<1>2. Grows(G, S)
  <2> HIDE DEF Bounded
  <2>1. {} \in G
    BY DEF Bounded
  <2> QED
    BY <1>1, <2>1 DEF Grows
<1> HIDE DEF G
<1>3. S \in G
  BY <1>2, GrowingInduction
<1>4. PICK x \in S : \A y \in S : x >= y
  BY <1>3 DEF G
<1>5. Max(S) \in S /\ \A y \in S : Max(S) >= y
  BY <1>4 DEF Max
<1> QED
  BY <1>5

LEMMA FiniteImage ==
  ASSUME NEW S, IsFiniteSet(S), NEW f, NEW T, T = {f[x] : x \in S}
  PROVE  IsFiniteSet(T)
<1> DEFINE h == [x \in S |-> f[x]]
<1>1. h \in Surjection(S, T)
  BY DEF Surjection
<1> QED
  BY <1>1, FS_Surjection

LEMMA SmallestOf ==
  ASSUME NEW S \in SUBSET Int, IsFiniteSet(S), S # {}
  PROVE  Min(S) \in S /\ \A y \in S : Min(S) <= y
<1> DEFINE f == [x \in Int |-> -x]
           N == {f[x] : x \in S}
<1>1. N \subseteq Int /\ N # {} /\ IsFiniteSet(N)
  <2>1. N \subseteq Int /\ N # {}
    <3>1. \A x \in S : f[x] \in Int
      OBVIOUS
    <3> HIDE DEF f
    <3> QED
      BY <3>1
  <2> HIDE DEF f
  <2>2. IsFiniteSet(N)
    BY FiniteImage
  <2> QED
    BY <2>1, <2>2
<1>2. Max(N) \in N /\ \A y \in N : y <= Max(N)
  BY <1>1, GreatestOf
<1>3. PICK x \in S : Max(N) = f[x]
  BY <1>2
<1>4. ASSUME NEW y \in S PROVE x <= y
  <2>1. f[y] <= f[x] /\ x \in Int /\ y \in Int
    BY <1>2, <1>3
  <2> QED
    BY <2>1
<1> HIDE DEF N
<1>5. Min(S) \in S /\ \A y \in S : Min(S) <= y
  BY <1>4 DEF Min
<1> QED
  BY <1>5
=============================================================================
