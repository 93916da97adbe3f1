------------------------ MODULE SeqlenBalancing_proofs ------------------------
(***************************************************************************)
(* What the balancing of sequence lengths guarantees, for all lengths, any *)
(* number of partitions and of micro-batches.                              *)
(***************************************************************************)
EXTENDS SeqlenBalancing, DispatchCollect_proofs

-----------------------------------------------------------------------------
(* Sorting a finite set by a strict total order R, a set of pairs. *)

Precedes(R, S) ==
  /\ \A x \in S : <<x, x>> \notin R
  /\ \A x, y, z \in S : <<x, y>> \in R /\ <<y, z>> \in R => <<x, z>> \in R

Orders(R, S) ==
  /\ Precedes(R, S)
  /\ \A x, y \in S : x = y \/ <<x, y>> \in R \/ <<y, x>> \in R

Below(R, S, x) == {y \in S : <<y, x>> \in R}

Sorted(R, S) ==
  [i \in 1 .. Cardinality(S) |-> CHOOSE x \in S : Cardinality(Below(R, S, x)) = i - 1]

LEMMA BelowSize ==
  ASSUME NEW S, IsFiniteSet(S), NEW R, Precedes(R, S), NEW x \in S
  PROVE  /\ IsFiniteSet(Below(R, S, x))
         /\ Cardinality(Below(R, S, x)) \in 0 .. (Cardinality(S) - 1)
<1>1. Below(R, S, x) \subseteq S \ {x}
  BY DEF Below, Precedes
<1>2. IsFiniteSet(S \ {x}) /\ Cardinality(S \ {x}) = Cardinality(S) - 1
  BY FS_RemoveElement
<1>3. IsFiniteSet(Below(R, S, x)) /\ Cardinality(Below(R, S, x)) <= Cardinality(S \ {x})
  BY <1>1, <1>2, FS_Subset
<1>4. Cardinality(Below(R, S, x)) \in Nat /\ Cardinality(S) \in Nat
  BY <1>3, FS_CardinalityType
<1> QED
  BY <1>2, <1>3, <1>4

LEMMA BelowGrows ==
  ASSUME NEW S, IsFiniteSet(S), NEW R, Precedes(R, S), NEW x \in S, NEW y \in S, <<x, y>> \in R
  PROVE  Cardinality(Below(R, S, x)) < Cardinality(Below(R, S, y))
<1> DEFINE a == Below(R, S, x)
           b == Below(R, S, y)
<1>1. IsFiniteSet(a) /\ IsFiniteSet(b) /\ Cardinality(a) \in Nat /\ Cardinality(b) \in Nat
  BY BelowSize, FS_CardinalityType
<1>2. a \subseteq b /\ x \in b /\ x \notin a
  BY DEF Below, Precedes
<1> HIDE DEF a, b
<1>3. Cardinality(a) <= Cardinality(b) /\ Cardinality(a) # Cardinality(b)
  <2>1. a \in SUBSET b /\ a # b
    BY <1>2
  <2> QED
    BY <1>1, <2>1, FS_Subset
<1>4. Cardinality(a) < Cardinality(b)
  BY <1>1, <1>3
<1> QED
  BY <1>4 DEF a, b

\* A finite set has an element with none before it.
LEMMA HasFirst ==
  ASSUME NEW S, IsFiniteSet(S), S # {}, NEW R, Precedes(R, S)
  PROVE  \E x \in S : \A y \in S : <<y, x>> \notin R
<1> DEFINE size(x) == Cardinality(Below(R, S, x))
           First == \E x \in S : \A y \in S : <<y, x>> \notin R
           G == {m \in Nat : \A x \in S : size(x) <= m => First}
<1>1. \A x \in S : size(x) \in Nat /\ (Below(R, S, x) = {} => First)
  <2> TAKE x \in S
  <2>1. size(x) \in Nat
    BY BelowSize, FS_CardinalityType
  <2>2. ASSUME Below(R, S, x) = {} PROVE First
    BY <2>2 DEF Below
  <2> QED
    BY <2>1, <2>2
<1>2. ASSUME NEW x \in S, NEW y \in Below(R, S, x) PROVE y \in S /\ size(y) < size(x)
  <2>1. y \in S /\ <<y, x>> \in R
    BY DEF Below
  <2> QED
    BY <2>1, BelowGrows
<1>3. \A x \in S : size(x) = 0 => Below(R, S, x) = {}
  BY BelowSize, FS_EmptySet
<1> HIDE DEF First, size
<1>4. 0 \in G
  BY <1>1, <1>3
<1>5. ASSUME NEW m \in Nat, m \in G PROVE m + 1 \in G
  <2> SUFFICES ASSUME NEW x \in S, size(x) <= m + 1, Below(R, S, x) # {} PROVE First
    BY <1>1
  <2>1. PICK y : y \in Below(R, S, x)
    OBVIOUS
  <2>2. y \in S /\ size(y) < size(x) /\ size(y) \in Nat /\ size(x) \in Nat
    BY <1>1, <1>2, <2>1
  <2>3. size(y) <= m
    BY <2>2
  <2> QED
    BY <1>5, <2>2, <2>3
<1> HIDE DEF G
<1>6. \A m \in Nat : m \in G
  BY <1>4, <1>5, SetInduction
<1>7. PICK z : z \in S
  OBVIOUS
<1>8. size(z) \in G /\ size(z) <= size(z)
  <2>1. size(z) \in Nat
    BY <1>1, <1>7
  <2> QED
    BY <1>6, <2>1
<1> QED
  BY <1>7, <1>8 DEF G, First

\* The i-th of the sorted set has i - 1 elements below it: each element has its place.
LEMMA SortedBijection ==
  ASSUME NEW S, IsFiniteSet(S), NEW R, Orders(R, S)
  PROVE  /\ Sorted(R, S) \in Bijection(1 .. Cardinality(S), S)
         /\ \A i, j \in 1 .. Cardinality(S) : i < j => <<Sorted(R, S)[i], Sorted(R, S)[j]>> \in R
<1> DEFINE n == Cardinality(S)
           places == 0 .. n - 1
           size(x) == Cardinality(Below(R, S, x))
           f == [x \in S |-> size(x)]
           s == Sorted(R, S)
<1>0. Precedes(R, S)
  BY DEF Orders, Precedes
<1>1. n \in Nat /\ IsFiniteSet(places) /\ Cardinality(places) = n
  <2>1. n \in Nat
    BY FS_CardinalityType
  <2>2. 0 \in Int /\ n - 1 \in Int
    BY <2>1
  <2>3. IsFiniteSet(places) /\ Cardinality(places) = IF 0 > n - 1 THEN 0 ELSE n - 1 - 0 + 1
    BY <2>2, FS_Interval
  <2> HIDE DEF n, places
  <2> QED
    BY <2>1, <2>3
<1>2. f \in [S -> places]
  BY <1>0, BelowSize
<1>3. \A x, y \in S : f[x] = f[y] => x = y
  <2> SUFFICES ASSUME NEW x \in S, NEW y \in S, f[x] = f[y], x # y PROVE FALSE
    OBVIOUS
  <2>1. size(x) = size(y) /\ size(x) \in Int
    BY <1>0, BelowSize
  <2>2. CASE <<x, y>> \in R
    <3>1. size(x) < size(y)
      BY <2>2, <1>0, BelowGrows
    <3> HIDE DEF size
    <3> QED
      BY <2>1, <3>1
  <2>3. CASE <<y, x>> \in R
    <3>1. size(y) < size(x)
      BY <2>3, <1>0, BelowGrows
    <3> HIDE DEF size
    <3> QED
      BY <2>1, <3>1
  <2> QED
    BY <2>2, <2>3 DEF Orders, Precedes
<1>4. f \in Injection(S, places)
  BY <1>2, <1>3 DEF Injection, IsInjective
<1>5. f \in Surjection(S, places)
  BY <1>1, <1>4, FS_Injection
<1> HIDE DEF f
<1>6. \A i \in 1 .. n : \E x \in S : f[x] = i - 1
  <2> HIDE DEF n
  <2>1. \A i \in 1 .. n : i - 1 \in places
    BY <1>1
  <2> QED
    BY <1>5, <2>1 DEF Surjection
<1>7. \A i \in 1 .. n : s[i] \in S /\ f[s[i]] = i - 1
  <2>1. \A x \in S : f[x] = size(x)
    BY DEF f
  <2> QED
    BY <1>6, <2>1 DEF Sorted
<1>8. DOMAIN s = 1 .. n /\ s \in [1 .. n -> S]
  BY <1>7 DEF Sorted
<1> HIDE DEF s, n, places
<1>9. \A i, j \in 1 .. n : s[i] = s[j] => i = j
  BY <1>1, <1>7
<1>10. \A x \in S : \E i \in 1 .. n : s[i] = x
  <2> SUFFICES ASSUME NEW x \in S PROVE \E i \in 1 .. n : s[i] = x
    OBVIOUS
  <2>1. f[x] + 1 \in 1 .. n /\ (f[x] + 1) - 1 = f[x]
    <3>1. f[x] \in 0 .. n - 1
      BY <1>2 DEF places
    <3> QED
      BY <1>1, <3>1
  <2>2. s[f[x] + 1] \in S /\ f[s[f[x] + 1]] = f[x]
    BY <1>7, <2>1
  <2> QED
    BY <1>3, <2>1, <2>2
<1>11. s \in Bijection(1 .. n, S)
  BY <1>8, <1>9, <1>10 DEF Bijection, Injection, Surjection, IsInjective
<1>12. ASSUME NEW i \in 1 .. n, NEW j \in 1 .. n, i < j PROVE <<s[i], s[j]>> \in R
  <2>1. s[i] \in S /\ s[j] \in S /\ s[i] # s[j] /\ f[s[i]] = i - 1 /\ f[s[j]] = j - 1
    BY <1>7, <1>9, <1>12
  <2>2. ~ <<s[j], s[i]>> \in R
    <3> SUFFICES ASSUME <<s[j], s[i]>> \in R PROVE FALSE
      OBVIOUS
    <3>1. size(s[j]) < size(s[i])
      BY <2>1, <1>0, BelowGrows
    <3>2. size(s[j]) = f[s[j]] /\ size(s[i]) = f[s[i]]
      BY <2>1 DEF f
    <3> HIDE DEF size
    <3> QED
      BY <1>12, <2>1, <3>1, <3>2
  <2> QED
    BY <2>1, <2>2 DEF Orders, Precedes
<1> QED
  BY <1>11, <1>12 DEF s, n

-----------------------------------------------------------------------------
(* The numbers of a finite set in their order, and places in the order of  *)
(* their keys.                                                             *)

LEMMA InOrderBijection ==
  ASSUME NEW S, S \subseteq Int, IsFiniteSet(S)
  PROVE  /\ InOrder(S) \in Bijection(1 .. Cardinality(S), S) /\ Cardinality(S) \in Nat
         /\ \A i, j \in 1 .. Cardinality(S) : i < j => InOrder(S)[i] < InOrder(S)[j]
<1> DEFINE R == {p \in S \X S : p[1] < p[2]}
<1>1. \A x, y \in S : <<x, y>> \in R <=> x < y
  OBVIOUS
<1>2. Orders(R, S)
  BY <1>1 DEF Orders, Precedes
<1>3. \A x \in S : Below(R, S, x) = {q \in S : q < x}
  BY <1>1 DEF Below
<1> HIDE DEF R
<1>4. InOrder(S) = Sorted(R, S)
  <2>1. ASSUME NEW i \in 1 .. Cardinality(S)
        PROVE  (CHOOSE x \in S : Cardinality(Below(R, S, x)) = i - 1)
                 = (CHOOSE r \in S : Cardinality({q \in S : q < r}) = i - 1)
    <3>1. \A x : (x \in S /\ Cardinality(Below(R, S, x)) = i - 1)
                  <=> (x \in S /\ Cardinality({q \in S : q < x}) = i - 1)
      BY <1>3, Zenon
    <3> QED
      BY <3>1, Zenon
  <2> QED
    BY <2>1 DEF InOrder, Sorted
<1> QED
  BY <1>1, <1>2, <1>4, SortedBijection, FS_CardinalityType, ZenonT(30) DEF Bijection, Injection

Keys == Int \X Int \X Int

Permutes(order, n) == n \in Nat /\ order \in Bijection(1 .. n, 1 .. n)

LEMMA KeyOrder ==
  ASSUME NEW a \in Keys, NEW b \in Keys, NEW c \in Keys
  PROVE  /\ ~ Above(a, a)
         /\ Above(a, b) => ~ Above(b, a)
         /\ Above(a, b) /\ Above(b, c) => Above(a, c)
         /\ a = b \/ Above(a, b) \/ Above(b, a)
<1>1. \A k \in Keys : k[1] \in Int /\ k[2] \in Int /\ k[3] \in Int /\ k = <<k[1], k[2], k[3]>>
  BY DEF Keys
<1>2. a = b \/ a[1] # b[1] \/ a[2] # b[2] \/ a[3] # b[3]
  BY <1>1
<1> QED
  BY <1>1, <1>2 DEF Above

LEMMA DescendingPermutes ==
  ASSUME NEW keys \in Seq(Keys)
  PROVE  /\ Permutes(Descending(keys), Len(keys))
         /\ \A i, j \in 1 .. Len(keys) :
              i < j => ~ Above(keys[Descending(keys)[j]], keys[Descending(keys)[i]])
<1> DEFINE n == Len(keys)
           places == 1 .. n
           first(q, p) == Above(keys[q], keys[p]) \/ (keys[q] = keys[p] /\ q < p)
           R == {e \in places \X places : first(e[1], e[2])}
           d == Descending(keys)
<1>1. n \in Nat /\ \A p \in places : keys[p] \in Keys
  OBVIOUS
<1>2. \A q, p \in places : <<q, p>> \in R <=> first(q, p)
  OBVIOUS
<1>3. IsFiniteSet(places) /\ Cardinality(places) = n
  <2> HIDE DEF n
  <2>1. 1 \in Int /\ n \in Int
    BY <1>1
  <2> QED
    BY <1>1, <2>1, FS_Interval
<1> HIDE DEF R
<1>4. Orders(R, places)
  <2> HIDE DEF n
  <2>1. ASSUME NEW x \in places PROVE <<x, x>> \notin R
    BY <1>1, <1>2, KeyOrder
  <2>2. ASSUME NEW x \in places, NEW y \in places, NEW z \in places, <<x, y>> \in R, <<y, z>> \in R
        PROVE  <<x, z>> \in R
    <3>1. first(x, y) /\ first(y, z) /\ x \in Int /\ y \in Int /\ z \in Int
      BY <1>1, <1>2, <2>2
    <3>2. Above(keys[x], keys[z]) \/ (keys[x] = keys[z] /\ x < z)
      BY <1>1, <3>1, KeyOrder
    <3> QED
      BY <1>2, <3>2
  <2>3. ASSUME NEW x \in places, NEW y \in places PROVE x = y \/ <<x, y>> \in R \/ <<y, x>> \in R
    <3>1. x \in Int /\ y \in Int
      BY <1>1
    <3>2. x = y \/ first(x, y) \/ first(y, x)
      BY <1>1, <3>1, KeyOrder
    <3> QED
      BY <1>2, <3>2
  <2> QED
    BY <2>1, <2>2, <2>3 DEF Orders, Precedes
<1>5. \A p \in places : Below(R, places, p) = {q \in places : first(q, p)}
  BY <1>2 DEF Below
<1>6. d = Sorted(R, places)
  <2>1. ASSUME NEW i \in places
        PROVE  (CHOOSE p \in places : Cardinality(Below(R, places, p)) = i - 1)
                 = (CHOOSE p \in places : Cardinality({q \in places : first(q, p)}) = i - 1)
    <3>1. \A p : (p \in places /\ Cardinality(Below(R, places, p)) = i - 1)
                  <=> (p \in places /\ Cardinality({q \in places : first(q, p)}) = i - 1)
      BY <1>5, Zenon
    <3> QED
      BY <3>1, Zenon
  <2>2. d = [i \in places |-> CHOOSE p \in places : Cardinality({q \in places : first(q, p)}) = i - 1]
    BY DEF Descending
  <2>3. Sorted(R, places) =
          [i \in 1 .. Cardinality(places) |-> CHOOSE p \in places : Cardinality(Below(R, places, p)) = i - 1]
    BY DEF Sorted
  <2> HIDE DEF d
  <2> QED
    BY <1>3, <2>1, <2>2, <2>3, Zenon
<1> HIDE DEF d
<1>7. d \in Bijection(places, places) /\ \A i, j \in places : i < j => <<d[i], d[j]>> \in R
  BY <1>3, <1>4, <1>6, SortedBijection
<1>8. ASSUME NEW i \in places, NEW j \in places, i < j PROVE ~ Above(keys[d[j]], keys[d[i]])
  <2>1. d[i] \in places /\ d[j] \in places
    BY <1>7 DEF Bijection, Injection
  <2>2. first(d[i], d[j])
    BY <1>2, <1>7, <1>8, <2>1
  <2>3. keys[d[i]] \in Keys /\ keys[d[j]] \in Keys
    BY <1>1, <2>1
  <2> QED
    BY <2>2, <2>3, KeyOrder
<1> QED
  BY <1>1, <1>7, <1>8 DEF Permutes, d

-----------------------------------------------------------------------------
(* Parts without a common element, and their concatenation. *)

Occurs(parts, x) == \E i \in 1 .. Len(parts) : \E a \in 1 .. Len(parts[i]) : parts[i][a] = x

Distinct(w) == \A p, q \in 1 .. Len(w) : w[p] = w[q] => p = q

Separate(parts) ==
  /\ \A i \in 1 .. Len(parts) : Distinct(parts[i])
  /\ \A i, j \in 1 .. Len(parts) : i # j =>
       \A a \in 1 .. Len(parts[i]), b \in 1 .. Len(parts[j]) : parts[i][a] # parts[j][b]

\* What two sequences without a common element concatenate to.
Joins(w, u, v) ==
  /\ \A x : (\E p \in 1 .. Len(w) : w[p] = x)
              <=> (\E p \in 1 .. Len(u) : u[p] = x) \/ (\E p \in 1 .. Len(v) : v[p] = x)
  /\ Distinct(u) /\ Distinct(v) /\ (\A p \in 1 .. Len(u), q \in 1 .. Len(v) : u[p] # v[q])
       => Distinct(w)

LEMMA ConcatJoins ==
  ASSUME NEW S, NEW u \in Seq(S), NEW v \in Seq(S)
  PROVE  Joins(u \o v, u, v) /\ u \o v \in Seq(S) /\ Len(u \o v) = Len(u) + Len(v)
<1> DEFINE w == u \o v
           m == Len(u)
           n == Len(v)
<1>1. /\ m \in Nat /\ n \in Nat /\ w \in Seq(S) /\ Len(w) = m + n
      /\ \A p \in 1 .. m + n : w[p] = IF p <= m THEN u[p] ELSE v[p - m]
  BY ConcatProperties
<1> HIDE DEF w, m, n
<1>2. \A p \in 1 .. m : p \in 1 .. m + n /\ w[p] = u[p]
  BY <1>1
<1>3. \A p \in 1 .. n : m + p \in 1 .. m + n /\ w[m + p] = v[p]
  <2> SUFFICES ASSUME NEW p \in 1 .. n PROVE m + p \in 1 .. m + n /\ w[m + p] = v[p]
    OBVIOUS
  <2>1. m + p \in 1 .. m + n /\ ~ (m + p <= m) /\ (m + p) - m = p
    BY <1>1
  <2> QED
    BY <1>1, <2>1
<1>4. \A p \in 1 .. m + n : p \in 1 .. m \/ (p - m \in 1 .. n /\ w[p] = v[p - m])
  BY <1>1
<1>5. \A x : (\E p \in 1 .. m + n : w[p] = x)
               <=> (\E p \in 1 .. m : u[p] = x) \/ (\E p \in 1 .. n : v[p] = x)
  BY <1>2, <1>3, <1>4
<1>6. ASSUME Distinct(u), Distinct(v), \A p \in 1 .. m, q \in 1 .. n : u[p] # v[q]
      PROVE  Distinct(w)
  <2> SUFFICES ASSUME NEW p \in 1 .. m + n, NEW q \in 1 .. m + n, w[p] = w[q] PROVE p = q
    BY <1>1 DEF Distinct
  <2>1. CASE p \in 1 .. m /\ q \in 1 .. m
    BY <1>2, <1>6, <2>1 DEF Distinct, m
  <2>2. CASE p \in 1 .. m /\ q \notin 1 .. m
    BY <1>2, <1>4, <1>6, <2>2
  <2>3. CASE p \notin 1 .. m /\ q \in 1 .. m
    BY <1>2, <1>4, <1>6, <2>3
  <2>4. CASE p \notin 1 .. m /\ q \notin 1 .. m
    <3>1. p - m \in 1 .. n /\ q - m \in 1 .. n /\ v[p - m] = v[q - m]
      BY <1>4, <2>4
    <3>2. p - m = q - m
      BY <1>6, <3>1 DEF Distinct, n
    <3> QED
      BY <1>1, <3>2
  <2> QED
    BY <2>1, <2>2, <2>3, <2>4
<1>7. Joins(w, u, v)
  <2>1. Len(u) = m /\ Len(v) = n /\ Len(w) = m + n
    BY <1>1 DEF m, n
  <2> QED
    BY <1>5, <1>6, <2>1 DEF Joins
<1> QED
  BY <1>1, <1>7 DEF w, m, n

\* w holds what occurs in the first m parts, each once.
Gathers(w, parts, m, S) ==
  /\ w \in Seq(S) /\ Distinct(w)
  /\ \A x : (\E p \in 1 .. Len(w) : w[p] = x)
              <=> \E i \in 1 .. m : \E a \in 1 .. Len(parts[i]) : parts[i][a] = x

LEMMA GathersNext ==
  ASSUME NEW S, NEW parts \in Seq(Seq(S)), Separate(parts), NEW m \in Nat, m + 1 <= Len(parts),
         NEW w, Gathers(w, parts, m, S)
  PROVE  Gathers(w \o parts[m + 1], parts, m + 1, S)
<1> DEFINE v == parts[m + 1]
           u == w \o v
<1>1. w \in Seq(S) /\ Distinct(w) /\ v \in Seq(S) /\ m + 1 \in 1 .. Len(parts)
  BY DEF Gathers
<1>2. Joins(u, w, v) /\ u \in Seq(S)
  BY <1>1, ConcatJoins
<1>3. Distinct(v)
  BY <1>1 DEF Separate
<1>4. ASSUME NEW p \in 1 .. Len(w), NEW q \in 1 .. Len(v) PROVE w[p] # v[q]
  <2>1. PICK i \in 1 .. m : \E a \in 1 .. Len(parts[i]) : parts[i][a] = w[p]
    BY DEF Gathers
  <2>2. i \in 1 .. Len(parts) /\ i # m + 1
    OBVIOUS
  <2> QED
    BY <1>1, <2>1, <2>2 DEF Separate
<1>5. \A i \in 1 .. m + 1 : i \in 1 .. m \/ i = m + 1
  OBVIOUS
<1>6. \A i \in 1 .. m : i \in 1 .. m + 1
  OBVIOUS
<1> HIDE DEF u
<1>7. Distinct(u)
  BY <1>1, <1>2, <1>3, <1>4 DEF Joins
<1>8. ASSUME NEW x
      PROVE  (\E p \in 1 .. Len(u) : u[p] = x)
               <=> \E i \in 1 .. m + 1 : \E a \in 1 .. Len(parts[i]) : parts[i][a] = x
  <2>1. (\E p \in 1 .. Len(u) : u[p] = x)
          <=> (\E p \in 1 .. Len(w) : w[p] = x) \/ (\E p \in 1 .. Len(v) : v[p] = x)
    BY <1>2 DEF Joins
  <2>2. (\E p \in 1 .. Len(w) : w[p] = x)
          <=> \E i \in 1 .. m : \E a \in 1 .. Len(parts[i]) : parts[i][a] = x
    BY DEF Gathers
  <2>3. m + 1 \in 1 .. m + 1
    OBVIOUS
  <2> QED
    BY <1>5, <1>6, <2>1, <2>2, <2>3
<1> QED
  BY <1>2, <1>7, <1>8 DEF Gathers, u

LEMMA FlattenGathers ==
  ASSUME NEW S, NEW parts \in Seq(Seq(S)), Separate(parts)
  PROVE  Gathers(FlattenSeq(parts), parts, Len(parts), S)
<1>0. Len(parts) \in Nat
  OBVIOUS
<1>1. CASE Len(parts) = 0
  <2>1. parts = << >> /\ FlattenSeq(parts) = parts
    BY <1>1 DEF FlattenSeq
  <2> DEFINE w == FlattenSeq(parts)
  <2>2. w \in Seq(S) /\ Len(w) = 0
    BY <1>1, <2>1, EmptySeq
  <2> HIDE DEF w
  <2>3. Distinct(w)
    BY <2>2 DEF Distinct
  <2>4. ~ (\E p \in 1 .. Len(w) : TRUE) /\ ~ (\E i \in 1 .. Len(parts) : TRUE)
    BY <1>1, <2>2
  <2>5. Gathers(w, parts, Len(parts), S)
    BY <2>2, <2>3, <2>4 DEF Gathers
  <2> QED
    BY <2>5 DEF w
<1>2. CASE Len(parts) # 0
  <2>1. PICK f : PartialConcats(parts, Len(parts), f) /\ FlattenSeq(parts) = f[Len(parts)]
    BY <1>0, <1>2, FlattenIsLast
  <2>2. \A i \in 1 .. Len(parts) : f[i] = IF i = 1 THEN parts[i] ELSE f[i - 1] \o parts[i]
    BY <2>1 DEF PartialConcats
  <2> DEFINE G == {m \in Nat : m + 1 <= Len(parts) => Gathers(f[m + 1], parts, m + 1, S)}
  <2>3. 0 \in G
    <3>1. 1 \in 1 .. Len(parts) /\ f[1] = parts[1] /\ parts[1] \in Seq(S)
      BY <1>0, <1>2, <2>2
    <3>2. Distinct(parts[1])
      BY <3>1 DEF Separate
    <3>3. \A i : i \in 1 .. 1 <=> i = 1
      OBVIOUS
    <3>4. Gathers(f[1], parts, 1, S)
      BY <3>1, <3>2, <3>3 DEF Gathers
    <3> QED
      BY <3>4
  <2>4. ASSUME NEW m \in Nat, m \in G PROVE m + 1 \in G
    <3> SUFFICES ASSUME (m + 1) + 1 <= Len(parts)
                 PROVE  Gathers(f[(m + 1) + 1], parts, (m + 1) + 1, S)
      OBVIOUS
    <3>1. /\ (m + 1) + 1 \in 1 .. Len(parts) /\ (m + 1) + 1 # 1 /\ ((m + 1) + 1) - 1 = m + 1
          /\ m + 1 <= Len(parts) /\ m + 1 \in Nat
      BY <1>0
    <3>2. f[(m + 1) + 1] = f[m + 1] \o parts[(m + 1) + 1]
      BY <2>2, <3>1
    <3>3. Gathers(f[m + 1], parts, m + 1, S)
      BY <2>4, <3>1
    <3> QED
      BY <3>1, <3>2, <3>3, GathersNext
  <2> HIDE DEF G
  <2>5. \A m \in Nat : m \in G
    BY <2>3, <2>4, SetInduction
  <2>6. Len(parts) - 1 \in Nat /\ (Len(parts) - 1) + 1 = Len(parts)
    BY <1>0, <1>2
  <2> DEFINE k == Len(parts) - 1
  <2>7. k \in Nat /\ k + 1 = Len(parts) /\ k + 1 <= Len(parts)
    BY <1>0, <2>6
  <2> HIDE DEF k
  <2>8. Gathers(f[k + 1], parts, k + 1, S)
    BY <2>5, <2>7 DEF G
  <2> QED
    BY <2>1, <2>7, <2>8
<1> QED
  BY <1>1, <1>2

\* Each number of 1 .. n once: a permutation of them.
LEMMA GatheredPermutes ==
  ASSUME NEW n \in Nat, NEW parts \in Seq(Seq(1 .. n)), Separate(parts),
         \A x \in 1 .. n : Occurs(parts, x)
  PROVE  Permutes(FlattenSeq(parts), n) /\ Len(FlattenSeq(parts)) = n
<1> DEFINE w == FlattenSeq(parts)
           m == Len(w)
<1>1. Gathers(w, parts, Len(parts), 1 .. n)
  BY FlattenGathers
<1> HIDE DEF w
<1>2. w \in Seq(1 .. n) /\ Distinct(w) /\ m \in Nat /\ w \in [1 .. m -> 1 .. n]
  BY <1>1 DEF Gathers
<1>3. \A x \in 1 .. n : \E p \in 1 .. m : w[p] = x
  BY <1>1 DEF Gathers, Occurs
<1> HIDE DEF m
<1>4. w \in Bijection(1 .. m, 1 .. n)
  BY <1>2, <1>3 DEF Distinct, Bijection, Injection, Surjection, IsInjective, m
<1>5. m = n
  <2>1. /\ IsFiniteSet(1 .. m) /\ Cardinality(1 .. m) = IF 1 > m THEN 0 ELSE m - 1 + 1
        /\ Cardinality(1 .. n) = IF 1 > n THEN 0 ELSE n - 1 + 1
    <3>1. 1 \in Int /\ m \in Int /\ n \in Int
      BY <1>2
    <3> QED
      BY <3>1, FS_Interval
  <2>2. Cardinality(1 .. m) = Cardinality(1 .. n)
    <3>1. ExistsBijection(1 .. m, 1 .. n)
      BY <1>4 DEF ExistsBijection
    <3> QED
      BY <2>1, <3>1, FS_Bijection
  <2> QED
    BY <1>2, <2>1, <2>2
<1> QED
  BY <1>4, <1>5 DEF Permutes, w, m

-----------------------------------------------------------------------------
(* The total length of some items. *)

Sums(lens, items, f) ==
  f = [m \in 0 .. Len(items) |-> IF m = 0 THEN 0 ELSE f[m - 1] + lens[items[m]]]

\* The sums of the first n items.
SumsTo(lens, items, n, f) ==
  f = [m \in 0 .. n |-> IF m = 0 THEN 0 ELSE f[m - 1] + lens[items[m]]]

LEMMA SumsExist ==
  ASSUME NEW lens, NEW items, NEW n \in Nat
  PROVE  \E f : SumsTo(lens, items, n, f)
<1> DEFINE G == {m \in Nat : \E f : SumsTo(lens, items, m, f)}
<1>1. 0 \in G
  <2>1. \A m \in 0 .. 0 : m = 0
    OBVIOUS
  <2>2. SumsTo(lens, items, 0, [m \in 0 .. 0 |-> 0])
    BY <2>1 DEF SumsTo
  <2> QED
    BY <2>2
<1>2. ASSUME NEW m \in Nat, m \in G PROVE m + 1 \in G
  <2>1. PICK f : SumsTo(lens, items, m, f)
    BY <1>2
  <2> DEFINE g == [i \in 0 .. m + 1 |-> IF i <= m THEN f[i] ELSE f[m] + lens[items[i]]]
  <2>2. ASSUME NEW i \in 0 .. m + 1
        PROVE  g[i] = IF i = 0 THEN 0 ELSE g[i - 1] + lens[items[i]]
    <3>1. CASE i <= m
      <4>1. i \in 0 .. m /\ g[i] = f[i] /\ (i # 0 => g[i - 1] = f[i - 1])
        BY <3>1
      <4>2. f[i] = IF i = 0 THEN 0 ELSE f[i - 1] + lens[items[i]]
        BY <2>1, <4>1 DEF SumsTo
      <4> QED
        BY <4>1, <4>2
    <3>2. CASE i = m + 1
      <4>1. i # 0 /\ i - 1 = m /\ ~ (i <= m) /\ m \in 0 .. m + 1
        BY <3>2
      <4> QED
        BY <4>1
    <3> QED
      BY <3>1, <3>2
  <2> HIDE DEF g
  <2>3. g = [i \in 0 .. m + 1 |-> g[i]]
    BY DEF g
  <2>4. SumsTo(lens, items, m + 1, g)
    BY <2>2, <2>3 DEF SumsTo
  <2> QED
    BY <2>4
<1> HIDE DEF G
<1>3. \A m \in Nat : m \in G
  BY <1>1, <1>2, SetInduction
<1> QED
  BY <1>3 DEF G

LEMMA TotalIsSum ==
  ASSUME NEW lens, NEW items, Len(items) \in Nat
  PROVE  \E f : Sums(lens, items, f) /\ Total(lens, items) = f[Len(items)]
<1> DEFINE chosen == CHOOSE f : Sums(lens, items, f)
<1>1. Sums(lens, items, chosen)
  <2>1. \E f : SumsTo(lens, items, Len(items), f)
    BY SumsExist
  <2> QED
    BY <2>1 DEF SumsTo, Sums
<1>2. Total(lens, items) = chosen[Len(items)]
  BY DEF Total, Sums
<1> QED
  BY <1>1, <1>2

Lengths == Seq(Nat \ {0})

LEMMA SumsAreNat ==
  ASSUME NEW lens \in Lengths, NEW items \in Seq(1 .. Len(lens)), NEW f, Sums(lens, items, f)
  PROVE  /\ \A m \in 0 .. Len(items) : f[m] \in Nat
         /\ f[0] = 0 /\ \A m \in 1 .. Len(items) : f[m] = f[m - 1] + lens[items[m]] /\ f[m] > 0
<1>0. Len(items) \in Nat /\ \A m \in 1 .. Len(items) : lens[items[m]] \in Nat \ {0}
  BY DEF Lengths
<1>1. f[0] = 0 /\ \A m \in 1 .. Len(items) : m # 0 /\ f[m] = f[m - 1] + lens[items[m]]
  <2> DEFINE n == Len(items)
  <2>1. n \in Nat /\ f = [m \in 0 .. n |-> IF m = 0 THEN 0 ELSE f[m - 1] + lens[items[m]]]
    BY <1>0 DEF Sums
  <2> HIDE DEF n
  <2>2. \A m \in 0 .. n : f[m] = IF m = 0 THEN 0 ELSE f[m - 1] + lens[items[m]]
    BY <2>1, Zenon
  <2>3. 0 \in 0 .. n /\ \A m \in 1 .. n : m \in 0 .. n /\ m # 0
    BY <2>1
  <2>4. f[0] = 0 /\ \A m \in 1 .. n : m # 0 /\ f[m] = f[m - 1] + lens[items[m]]
    BY <2>2, <2>3
  <2> QED
    BY <2>4 DEF n
<1> DEFINE G == {m \in Nat : m <= Len(items) => f[m] \in Nat}
<1>2. 0 \in G
  BY <1>1
<1>3. ASSUME NEW m \in Nat, m \in G PROVE m + 1 \in G
  <2> SUFFICES ASSUME m + 1 <= Len(items) PROVE f[m + 1] \in Nat
    OBVIOUS
  <2>1. m + 1 \in 1 .. Len(items) /\ (m + 1) - 1 = m /\ f[m] \in Nat
    BY <1>0, <1>3
  <2>2. f[m + 1] = f[m] + lens[items[m + 1]] /\ lens[items[m + 1]] \in Nat
    BY <1>0, <1>1, <2>1
  <2> QED
    BY <2>1, <2>2
<1> HIDE DEF G
<1>4. \A m \in Nat : m \in G
  BY <1>2, <1>3, SetInduction
<1>5. \A m \in 0 .. Len(items) : f[m] \in Nat
  BY <1>0, <1>4 DEF G
<1>6. ASSUME NEW m \in 1 .. Len(items) PROVE f[m] > 0
  <2>1. m - 1 \in 0 .. Len(items)
    BY <1>0
  <2>2. f[m - 1] \in Nat /\ f[m] = f[m - 1] + lens[items[m]] /\ lens[items[m]] \in Nat \ {0}
    BY <1>0, <1>1, <1>5, <2>1
  <2> QED
    BY <2>2
<1> QED
  BY <1>1, <1>5, <1>6

LEMMA TotalType ==
  ASSUME NEW lens \in Lengths, NEW items \in Seq(1 .. Len(lens))
  PROVE  /\ Total(lens, items) \in Nat
         /\ Len(items) = 0 => Total(lens, items) = 0
         /\ Len(items) > 0 => Total(lens, items) > 0
         /\ Len(items) = 1 => Total(lens, items) = lens[items[1]]
<1>0. Len(items) \in Nat
  OBVIOUS
<1>1. PICK f : Sums(lens, items, f) /\ Total(lens, items) = f[Len(items)]
  BY <1>0, TotalIsSum
<1>2. /\ \A m \in 0 .. Len(items) : f[m] \in Nat
      /\ f[0] = 0 /\ \A m \in 1 .. Len(items) : f[m] = f[m - 1] + lens[items[m]] /\ f[m] > 0
  BY <1>1, SumsAreNat
<1>3. Len(items) \in 0 .. Len(items) /\ (Len(items) > 0 => Len(items) \in 1 .. Len(items))
  BY <1>0
<1>4. ASSUME Len(items) = 1 PROVE f[1] = lens[items[1]]
  <2>1. 1 \in 1 .. Len(items) /\ f[1 - 1] = 0
    BY <1>2, <1>4
  <2>2. items[1] \in 1 .. Len(lens) /\ lens[items[1]] \in Nat
    BY <2>1 DEF Lengths
  <2> QED
    BY <1>2, <2>1, <2>2
<1> QED
  BY <1>1, <1>2, <1>3, <1>4

\* Concatenation adds the totals.
LEMMA TotalAdds ==
  ASSUME NEW lens \in Lengths, NEW u \in Seq(1 .. Len(lens)), NEW v \in Seq(1 .. Len(lens))
  PROVE  Total(lens, u \o v) = Total(lens, u) + Total(lens, v)
<1> DEFINE w == u \o v
           a == Len(u)
           b == Len(v)
<1>1. /\ w \in Seq(1 .. Len(lens)) /\ a \in Nat /\ b \in Nat /\ Len(w) = a + b
      /\ \A i \in 1 .. a + b : w[i] = IF i <= a THEN u[i] ELSE v[i - a]
  BY ConcatProperties
<1> HIDE DEF w
<1>2. PICK f : Sums(lens, u, f) /\ Total(lens, u) = f[a]
  BY <1>1, TotalIsSum
<1>3. PICK g : Sums(lens, v, g) /\ Total(lens, v) = g[b]
  BY <1>1, TotalIsSum
<1>13. Len(w) \in Nat
  BY <1>1
<1>4. PICK h : Sums(lens, w, h) /\ Total(lens, w) = h[Len(w)]
  BY <1>13, TotalIsSum
<1>5. /\ \A m \in 0 .. a : f[m] \in Nat
      /\ f[0] = 0 /\ \A m \in 1 .. a : f[m] = f[m - 1] + lens[u[m]]
  BY <1>2, SumsAreNat
<1>6. /\ \A m \in 0 .. b : g[m] \in Nat
      /\ g[0] = 0 /\ \A m \in 1 .. b : g[m] = g[m - 1] + lens[v[m]]
  BY <1>3, SumsAreNat
<1>7. h[0] = 0 /\ \A m \in 1 .. a + b : h[m] = h[m - 1] + lens[w[m]]
  <2>1. h[0] = 0 /\ \A m \in 1 .. Len(w) : h[m] = h[m - 1] + lens[w[m]]
    BY <1>1, <1>4, SumsAreNat
  <2>2. Len(w) = a + b
    BY <1>1
  <2> QED
    BY <2>1, <2>2
<1>14. \A i \in 1 .. Len(lens) : lens[i] \in Nat
  BY DEF Lengths
<1>8. /\ \A m \in 1 .. a : u[m] \in 1 .. Len(lens) /\ lens[u[m]] \in Nat
      /\ \A m \in 1 .. b : v[m] \in 1 .. Len(lens) /\ lens[v[m]] \in Nat
  BY <1>14, SMTT(30)
<1> HIDE DEF a, b
<1> DEFINE G == {m \in Nat : m <= a => h[m] = f[m]}
           H == {m \in Nat : m <= b => h[a + m] = f[a] + g[m]}
<1>9. \A m \in Nat : m \in G
  <2>1. 0 \in G
    BY <1>5, <1>7
  <2>2. ASSUME NEW m \in Nat, m \in G PROVE m + 1 \in G
    <3> SUFFICES ASSUME m + 1 <= a PROVE h[m + 1] = f[m + 1]
      OBVIOUS
    <3>1. /\ m + 1 \in 1 .. a /\ m + 1 \in 1 .. a + b /\ (m + 1) - 1 = m
          /\ m <= a /\ h[m] = f[m] /\ w[m + 1] = u[m + 1]
      BY <1>1, <2>2
    <3>2. h[m + 1] = h[m] + lens[w[m + 1]] /\ f[m + 1] = f[m] + lens[u[m + 1]]
      BY <1>5, <1>7, <3>1
    <3> QED
      BY <3>1, <3>2
  <2> HIDE DEF G
  <2> QED
    BY <2>1, <2>2, SetInduction
<1>10. h[a] = f[a] /\ f[a] \in Nat
  BY <1>1, <1>5, <1>9
<1>11. \A m \in Nat : m \in H
  <2>1. 0 \in H
    BY <1>1, <1>6, <1>10
  <2>2. ASSUME NEW m \in Nat, m \in H PROVE m + 1 \in H
    <3> SUFFICES ASSUME m + 1 <= b PROVE h[a + (m + 1)] = f[a] + g[m + 1]
      OBVIOUS
    <3>1. /\ m + 1 \in 1 .. b /\ (m + 1) - 1 = m /\ m <= b /\ m \in 0 .. b
          /\ a + (m + 1) \in 1 .. a + b /\ (a + (m + 1)) - 1 = a + m
          /\ ~ (a + (m + 1) <= a) /\ (a + (m + 1)) - a = m + 1
      BY <1>1, SMTT(30)
    <3>2. w[a + (m + 1)] = v[m + 1] /\ h[a + m] = f[a] + g[m]
      BY <1>1, <2>2, <3>1
    <3>3. h[a + (m + 1)] = h[a + m] + lens[v[m + 1]] /\ g[m + 1] = g[m] + lens[v[m + 1]]
      BY <1>6, <1>7, <3>1, <3>2
    <3>4. g[m] \in Nat /\ lens[v[m + 1]] \in Nat
      BY <1>6, <1>8, <3>1
    <3> QED
      BY <1>10, <3>2, <3>3, <3>4
  <2> HIDE DEF H
  <2> QED
    BY <2>1, <2>2, SetInduction
<1>12. h[a + b] = f[a] + g[b]
  <2>1. b \in H
    BY <1>1, <1>11
  <2> QED
    BY <1>1, <2>1
<1> QED
  BY <1>1, <1>2, <1>3, <1>4, <1>12 DEF w

\* The same items in another order have the same total.
SameItems(u, w, n) ==
  /\ u \in Seq(1 .. n) /\ w \in Seq(1 .. n) /\ Distinct(u) /\ Distinct(w)
  /\ \A x : (\E p \in 1 .. Len(u) : u[p] = x) <=> \E p \in 1 .. Len(w) : w[p] = x

\* A sequence without its p-th element.
Drops(lens, v, w, p) ==
  /\ Distinct(v) /\ Len(v) = Len(w) - 1
  /\ Total(lens, w) = Total(lens, v) + lens[w[p]]
  /\ \A x : (\E a \in 1 .. Len(v) : v[a] = x)
              <=> x # w[p] /\ \E a \in 1 .. Len(w) : w[a] = x

LEMMA Without ==
  ASSUME NEW lens \in Lengths, NEW n, n = Len(lens), NEW w \in Seq(1 .. n), Distinct(w),
         NEW p \in 1 .. Len(w)
  PROVE  \E v \in Seq(1 .. n) : Drops(lens, v, w, p)
<1> DEFINE m == Len(w)
           u1 == [a \in 1 .. p - 1 |-> w[a]]
           u2 == [a \in 1 .. m - p |-> w[p + a]]
           one == <<w[p]>>
           v == u1 \o u2
           left == u1 \o one
           all == left \o u2
           T == 1 .. n
<1>1. m \in Nat /\ p \in Nat /\ p - 1 \in Nat /\ m - p \in Nat /\ \A a \in 1 .. m : w[a] \in T
  OBVIOUS
<1>2. u1 \in [1 .. p - 1 -> T] /\ u2 \in [1 .. m - p -> T] /\ w[p] \in T
  BY <1>1
<1> HIDE DEF T
<1>3. /\ u1 \in Seq(T) /\ Len(u1) = p - 1 /\ u2 \in Seq(T) /\ Len(u2) = m - p
      /\ one \in Seq(T) /\ Len(one) = 1 /\ one[1] = w[p]
      /\ \A a \in 1 .. p - 1 : u1[a] = w[a]
      /\ \A a \in 1 .. m - p : u2[a] = w[p + a]
  BY <1>1, <1>2
<1> HIDE DEF u1, u2, one, m
<1>4. Joins(v, u1, u2) /\ v \in Seq(T) /\ Len(v) = m - 1
  <2>1. Joins(v, u1, u2) /\ v \in Seq(T) /\ Len(v) = Len(u1) + Len(u2)
    BY <1>3, ConcatJoins
  <2> HIDE DEF v
  <2> QED
    BY <1>1, <1>3, <2>1
<1>5. all = w
  <2>1. /\ left \in Seq(T) /\ Len(left) = p
        /\ \A a \in 1 .. p : left[a] = w[a]
    <3>1. /\ left \in Seq(T) /\ Len(left) = Len(u1) + Len(one)
          /\ \A a \in 1 .. Len(u1) + Len(one) :
               left[a] = IF a <= Len(u1) THEN u1[a] ELSE one[a - Len(u1)]
      BY <1>3, ConcatProperties
    <3> HIDE DEF left
    <3>2. \A a \in 1 .. p : left[a] = w[a]
      <4> TAKE a \in 1 .. p
      <4>0. Len(u1) = p - 1 /\ Len(one) = 1 /\ a \in 1 .. Len(u1) + Len(one)
        BY <1>1, <1>3
      <4>1. CASE a <= p - 1
        <5>1. a \in 1 .. p - 1 /\ a <= Len(u1)
          BY <1>1, <4>0, <4>1
        <5>2. left[a] = u1[a] /\ u1[a] = w[a]
          BY <1>3, <3>1, <4>0, <5>1
        <5> QED
          BY <5>2
      <4>2. CASE a = p
        <5>1. ~ (a <= Len(u1)) /\ a - Len(u1) = 1
          BY <1>1, <4>0, <4>2
        <5>2. left[a] = one[a - Len(u1)]
          BY <3>1, <4>0, <5>1
        <5>3. one[a - Len(u1)] = w[p]
          BY <1>3, <5>1
        <5> QED
          BY <4>2, <5>2, <5>3
      <4> QED
        BY <1>1, <4>1, <4>2
    <3> QED
      BY <1>1, <1>3, <3>1, <3>2, SMTT(30)
  <2> HIDE DEF left
  <2>2. /\ all \in Seq(T) /\ Len(all) = m
        /\ \A a \in 1 .. m : all[a] = IF a <= p THEN left[a] ELSE u2[a - p]
    <3>1. /\ all \in Seq(T) /\ Len(all) = Len(left) + Len(u2)
          /\ \A a \in 1 .. Len(left) + Len(u2) :
               all[a] = IF a <= Len(left) THEN left[a] ELSE u2[a - Len(left)]
      BY <1>3, <2>1, ConcatProperties, ZenonT(30)
    <3>2. Len(left) + Len(u2) = m /\ Len(left) = p
      BY <1>1, <1>3, <2>1
    <3> HIDE DEF all
    <3> QED
      BY <3>1, <3>2
  <2> HIDE DEF all
  <2>3. \A a \in 1 .. m : all[a] = w[a]
    <3> TAKE a \in 1 .. m
    <3>1. CASE a <= p
      BY <1>1, <2>1, <2>2, <3>1
    <3>2. CASE ~ (a <= p)
      <4>1. a - p \in 1 .. m - p /\ p + (a - p) = a
        BY <1>1, <3>2
      <4>2. all[a] = u2[a - p] /\ u2[a - p] = w[p + (a - p)]
        BY <1>3, <2>2, <3>2, <4>1
      <4> QED
        BY <4>1, <4>2
    <3> QED
      BY <3>1, <3>2
  <2>4. w \in Seq(T) /\ Len(w) = m
    BY DEF T, m
  <2> QED
    BY <2>2, <2>3, <2>4, SeqEqual
<1>6. Total(lens, w) = Total(lens, v) + lens[w[p]]
  <2>1. u1 \in Seq(1 .. Len(lens)) /\ u2 \in Seq(1 .. Len(lens)) /\ one \in Seq(1 .. Len(lens))
    BY <1>3 DEF T
  <2>2. Total(lens, v) = Total(lens, u1) + Total(lens, u2)
    BY <2>1, TotalAdds
  <2>3. Total(lens, left) = Total(lens, u1) + Total(lens, one)
    BY <2>1, TotalAdds
  <2>4. left \in Seq(1 .. Len(lens))
    BY <2>1, ConcatProperties
  <2>5. Total(lens, all) = Total(lens, left) + Total(lens, u2)
    <3> HIDE DEF left
    <3> QED
      BY <2>1, <2>4, TotalAdds
  <2>6. Total(lens, one) = lens[w[p]]
    BY <1>3, <2>1, TotalType
  <2>7. Total(lens, u1) \in Nat
    BY <2>1, TotalType
  <2>8. Total(lens, u2) \in Nat
    BY <2>1, TotalType
  <2>9. Total(lens, one) \in Nat
    BY <2>1, TotalType
  <2> HIDE DEF all, left, v
  <2> QED
    BY <1>5, <2>2, <2>3, <2>5, <2>6, <2>7, <2>8, <2>9
<1> HIDE DEF v, all
<1>7. \A a, b \in 1 .. m : w[a] = w[b] => a = b
  BY DEF Distinct, m
<1>8. /\ \A a \in 1 .. p - 1 : a \in 1 .. m /\ a # p
      /\ \A a \in 1 .. m - p : p + a \in 1 .. m /\ p + a # p
      /\ \A a \in 1 .. m : a # p => a \in 1 .. p - 1 \/ (a - p \in 1 .. m - p /\ p + (a - p) = a)
      /\ p \in 1 .. m
  BY <1>1 DEF m
<1>9. Distinct(v)
  <2>1. Distinct(u1)
    <3>1. \A a, b \in 1 .. p - 1 : u1[a] = u1[b] => a = b
      BY <1>3, <1>7, <1>8
    <3> QED
      BY <1>3, <3>1 DEF Distinct
  <2>3. Distinct(u2)
    <3>1. ASSUME NEW a \in 1 .. m - p, NEW b \in 1 .. m - p, u2[a] = u2[b]
          PROVE  a = b
      <4>1. w[p + a] = w[p + b] /\ p + a \in 1 .. m /\ p + b \in 1 .. m
        BY <1>3, <1>8, <3>1
      <4>2. p + a = p + b
        BY <1>7, <4>1
      <4> QED
        BY <1>1, <4>2
    <3> QED
      BY <1>3, <3>1 DEF Distinct
  <2>2. \A a \in 1 .. Len(u1), b \in 1 .. Len(u2) : u1[a] # u2[b]
    <3>1. ASSUME NEW a \in 1 .. p - 1, NEW b \in 1 .. m - p PROVE u1[a] # u2[b]
      <4>1. u1[a] = w[a] /\ u2[b] = w[p + b] /\ a \in 1 .. m /\ p + b \in 1 .. m
        BY <1>3, <1>8
      <4>2. a # p + b
        BY <1>1
      <4> QED
        BY <1>7, <4>1, <4>2
    <3> QED
      BY <1>3, <3>1
  <2> QED
    BY <1>4, <2>1, <2>2, <2>3, Zenon DEF Joins
<1>10. ASSUME NEW x
       PROVE  (\E a \in 1 .. Len(v) : v[a] = x) <=> x # w[p] /\ \E a \in 1 .. m : w[a] = x
  <2>1. (\E a \in 1 .. Len(v) : v[a] = x)
          <=> (\E a \in 1 .. p - 1 : w[a] = x) \/ \E a \in 1 .. m - p : w[p + a] = x
    <3>1. (\E a \in 1 .. Len(v) : v[a] = x)
            <=> (\E a \in 1 .. p - 1 : u1[a] = x) \/ \E a \in 1 .. m - p : u2[a] = x
      BY <1>3, <1>4, Zenon DEF Joins
    <3> QED
      BY <1>3, <3>1
  <2>2. (\E a \in 1 .. p - 1 : w[a] = x) \/ (\E a \in 1 .. m - p : w[p + a] = x)
          => x # w[p] /\ \E a \in 1 .. m : w[a] = x
    BY <1>7, <1>8
  <2>3. x # w[p] /\ (\E a \in 1 .. m : w[a] = x)
          => (\E a \in 1 .. p - 1 : w[a] = x) \/ \E a \in 1 .. m - p : w[p + a] = x
    <3> SUFFICES ASSUME NEW a \in 1 .. m, w[a] = x, x # w[p]
                 PROVE  (\E b \in 1 .. p - 1 : w[b] = x) \/ \E b \in 1 .. m - p : w[p + b] = x
      OBVIOUS
    <3>1. a # p
      OBVIOUS
    <3> QED
      BY <1>8, <3>1
  <2> QED
    BY <2>1, <2>2, <2>3
<1> QED
  BY <1>4, <1>6, <1>9, <1>10 DEF T, m, Drops

LEMMA SameTotal ==
  ASSUME NEW lens \in Lengths, NEW n, n = Len(lens)
  PROVE  \A u, w : SameItems(u, w, n) => Total(lens, u) = Total(lens, w)
<1> DEFINE Claim(m) == \A u, w : SameItems(u, w, n) /\ Len(u) = m => Total(lens, u) = Total(lens, w)
           S == {m \in Nat : Claim(m)}
<1>1. 0 \in S
  <2> SUFFICES ASSUME NEW u, NEW w, SameItems(u, w, n), Len(u) = 0
               PROVE  Total(lens, u) = Total(lens, w)
    OBVIOUS
  <2>1. u \in Seq(1 .. n) /\ w \in Seq(1 .. n) /\ \A p \in 1 .. Len(w) : \E q \in 1 .. Len(u) : u[q] = w[p]
    BY DEF SameItems
  <2>2. Len(w) = 0
    BY <2>1
  <2>3. u \in Seq(1 .. Len(lens)) /\ w \in Seq(1 .. Len(lens))
    BY <2>1
  <2>4. Total(lens, u) = 0
    BY <2>3, TotalType
  <2>5. Total(lens, w) = 0
    BY <2>2, <2>3, TotalType
  <2> QED
    BY <2>4, <2>5
<1>2. ASSUME NEW m \in S PROVE m + 1 \in S
  <2>1. m \in Nat /\ m + 1 \in Nat /\ Claim(m)
    OBVIOUS
  <2> SUFFICES ASSUME NEW u, NEW w, SameItems(u, w, n), Len(u) = m + 1
               PROVE  Total(lens, u) = Total(lens, w)
    BY <2>1
  <2>2. /\ u \in Seq(1 .. n) /\ w \in Seq(1 .. n) /\ Distinct(u) /\ Distinct(w)
        /\ \A x : (\E p \in 1 .. Len(u) : u[p] = x) <=> \E p \in 1 .. Len(w) : w[p] = x
    BY DEF SameItems
  <2>3. m + 1 \in 1 .. Len(u)
    BY <2>1
  <2>4. PICK q \in 1 .. Len(w) : w[q] = u[m + 1]
    BY <2>2, <2>3
  <2>11. \A z \in Seq(1 .. n) : \A p \in 1 .. Len(z) :
           Distinct(z) => \E v \in Seq(1 .. n) : Drops(lens, v, z, p)
    BY Without
  <2>5. PICK u1 \in Seq(1 .. n) : Drops(lens, u1, u, m + 1)
    BY <2>2, <2>3, <2>11, Zenon
  <2>6. PICK w1 \in Seq(1 .. n) : Drops(lens, w1, w, q)
    BY <2>2, <2>4, <2>11, Zenon
  <2>7. \A x : (\E p \in 1 .. Len(u1) : u1[p] = x) <=> \E p \in 1 .. Len(w1) : w1[p] = x
    BY <2>2, <2>4, <2>5, <2>6, Zenon DEF Drops
  <2>8. SameItems(u1, w1, n)
    BY <2>5, <2>6, <2>7 DEF SameItems, Drops
  <2>9. Len(u1) = m
    BY <2>1, <2>5 DEF Drops
  <2>10. Total(lens, u1) = Total(lens, w1)
    BY <2>1, <2>8, <2>9
  <2> QED
    BY <2>4, <2>5, <2>6, <2>10 DEF Drops
<1>3. \A m \in Nat : m \in S
  <2> HIDE DEF S
  <2>1. \A m \in S : m + 1 \in S
    BY <1>2
  <2> QED
    BY <1>1, <2>1, SetInduction
<1> SUFFICES ASSUME NEW u, NEW w, SameItems(u, w, n) PROVE Total(lens, u) = Total(lens, w)
  OBVIOUS
<1>4. Len(u) \in Nat
  BY DEF SameItems
<1> QED
  BY <1>3, <1>4

-----------------------------------------------------------------------------
(* The states of Karmarkar and Karp: k sets of items. *)

Shares(sets, n, k) == sets \in Seq(Seq(1 .. n)) /\ Len(sets) = k /\ Separate(sets)

ItemsOf(lens, sets) == {x \in 1 .. Len(lens) : Occurs(sets, x)}

\* The sets by decreasing total length.
Ordered(lens, sets) ==
  \A i, j \in 1 .. Len(sets) : i < j => Total(lens, sets[i]) >= Total(lens, sets[j])

\* The sets of one list are those of the other in the order e.
Rearranged(s, sets, e) == s = [i \in 1 .. Len(sets) |-> sets[e[i]]]

LEMMA SetKeyType ==
  ASSUME NEW lens \in Lengths, NEW a \in Seq(1 .. Len(lens))
  PROVE  SetKey(lens, a) \in Keys /\ SetKey(lens, a)[1] = Total(lens, a)
<1>1. Total(lens, a) \in Int /\ Len(a) \in Int
  BY TotalType
<1>2. (IF a = <<>> THEN 0 ELSE a[1]) \in Int
  <2>1. CASE a = <<>>
    BY <2>1
  <2>2. CASE a # <<>>
    <3>1. a[1] \in 1 .. Len(lens)
      BY <2>2
    <3> QED
      BY <2>2, <3>1
  <2> QED
    BY <2>1, <2>2
<1> QED
  BY <1>1, <1>2 DEF SetKey, Keys

LEMMA RearrangedShares ==
  ASSUME NEW n, NEW k \in Nat, NEW sets, Shares(sets, n, k),
         NEW e, Permutes(e, k), NEW s, Rearranged(s, sets, e)
  PROVE  /\ Shares(s, n, k) /\ \A i \in 1 .. k : s[i] = sets[e[i]] /\ e[i] \in 1 .. k
         /\ \A x : Occurs(s, x) <=> Occurs(sets, x)
<1>1. sets \in Seq(Seq(1 .. n)) /\ Len(sets) = k /\ Separate(sets)
  BY DEF Shares
<1>2. /\ \A i \in 1 .. k : e[i] \in 1 .. k
      /\ \A i, j \in 1 .. k : e[i] = e[j] => i = j
      /\ \A j \in 1 .. k : \E i \in 1 .. k : e[i] = j
  BY DEF Permutes, Bijection, Injection, Surjection, IsInjective
<1>3. s \in Seq(Seq(1 .. n)) /\ Len(s) = k /\ \A i \in 1 .. k : s[i] = sets[e[i]]
  <2>1. s = [i \in 1 .. k |-> sets[e[i]]]
    BY <1>1 DEF Rearranged
  <2> QED
    BY <1>1, <1>2, <2>1
<1>4. Separate(s)
  <2>1. \A i \in 1 .. k : Distinct(s[i])
    BY <1>1, <1>2, <1>3 DEF Separate
  <2>2. ASSUME NEW i \in 1 .. k, NEW j \in 1 .. k, i # j,
               NEW a \in 1 .. Len(s[i]), NEW b \in 1 .. Len(s[j])
        PROVE  s[i][a] # s[j][b]
    <3>1. e[i] # e[j] /\ s[i] = sets[e[i]] /\ s[j] = sets[e[j]] /\ e[i] \in 1 .. k /\ e[j] \in 1 .. k
      BY <1>2, <1>3, <2>2
    <3> QED
      BY <1>1, <3>1 DEF Separate
  <2> QED
    BY <1>3, <2>1, <2>2 DEF Separate
<1>5. ASSUME NEW x PROVE Occurs(s, x) <=> Occurs(sets, x)
  <2>1. ASSUME Occurs(s, x) PROVE Occurs(sets, x)
    <3>1. PICK i \in 1 .. k : \E a \in 1 .. Len(s[i]) : s[i][a] = x
      BY <1>3, <2>1 DEF Occurs
    <3>2. s[i] = sets[e[i]] /\ e[i] \in 1 .. Len(sets)
      BY <1>1, <1>2, <1>3
    <3> QED
      BY <3>1, <3>2 DEF Occurs
  <2>2. ASSUME Occurs(sets, x) PROVE Occurs(s, x)
    <3>1. PICK j \in 1 .. k : \E a \in 1 .. Len(sets[j]) : sets[j][a] = x
      BY <1>1, <2>2 DEF Occurs
    <3>2. PICK i \in 1 .. k : e[i] = j
      BY <1>2
    <3>3. s[i] = sets[j] /\ i \in 1 .. Len(s)
      BY <1>3, <3>2
    <3> QED
      BY <3>1, <3>3 DEF Occurs
  <2> QED
    BY <2>1, <2>2
<1> QED
  BY <1>1, <1>2, <1>3, <1>4, <1>5 DEF Shares

LEMMA DecreasingShares ==
  ASSUME NEW lens \in Lengths, NEW k \in Nat, NEW sets, Shares(sets, Len(lens), k)
  PROVE  LET s == Decreasing(lens, sets)
         IN  /\ Shares(s, Len(lens), k) /\ Ordered(lens, s)
             /\ \A x : Occurs(s, x) <=> Occurs(sets, x)
             /\ \E e : Permutes(e, k) /\ Rearranged(s, sets, e)
<1> DEFINE keys == [j \in 1 .. Len(sets) |-> SetKey(lens, sets[j])]
           e == Descending(keys)
           s == Decreasing(lens, sets)
<1>1. Len(sets) = k /\ \A j \in 1 .. k : sets[j] \in Seq(1 .. Len(lens))
  BY DEF Shares
<1>2. keys \in Seq(Keys) /\ Len(keys) = k
      /\ \A j \in 1 .. k : keys[j] = SetKey(lens, sets[j])
  BY <1>1, SetKeyType
<1>3. s = Reorder(sets, e)
  BY DEF Decreasing
<1> HIDE DEF keys, s
<1>4. /\ Permutes(e, k)
      /\ \A i, j \in 1 .. k : i < j => ~ Above(keys[e[j]], keys[e[i]])
  BY <1>2, DescendingPermutes
<1> HIDE DEF e
<1>5. Len(e) = k /\ \A i \in 1 .. k : e[i] \in 1 .. k
  BY <1>4 DEF Permutes, Bijection, Injection
<1>6. Rearranged(s, sets, e)
  BY <1>1, <1>3, <1>5 DEF Reorder, Rearranged
<1>7. /\ Shares(s, Len(lens), k) /\ \A i \in 1 .. k : s[i] = sets[e[i]]
      /\ \A x : Occurs(s, x) <=> Occurs(sets, x)
  <2>1. Permutes(e, k) /\ Len(lens) \in Nat /\ k \in Nat
    BY <1>4
  <2>2. \A n, t, u, f : Shares(t, n, k) /\ Permutes(f, k) /\ Rearranged(u, t, f)
          => /\ Shares(u, n, k) /\ \A i \in 1 .. k : u[i] = t[f[i]] /\ f[i] \in 1 .. k
             /\ \A x : Occurs(u, x) <=> Occurs(t, x)
    BY RearrangedShares
  <2>3. /\ Shares(s, Len(lens), k) /\ \A i \in 1 .. k : s[i] = sets[e[i]] /\ e[i] \in 1 .. k
        /\ \A x : Occurs(s, x) <=> Occurs(sets, x)
    BY <1>6, <2>1, <2>2, Zenon
  <2> QED
    BY <2>3
<1>8. Ordered(lens, s)
  <2> SUFFICES ASSUME NEW i \in 1 .. k, NEW j \in 1 .. k, i < j
               PROVE  Total(lens, s[i]) >= Total(lens, s[j])
    BY <1>7 DEF Ordered, Shares
  <2>1. s[i] = sets[e[i]] /\ s[j] = sets[e[j]] /\ e[i] \in 1 .. k /\ e[j] \in 1 .. k
    BY <1>5, <1>7
  <2>2. /\ keys[e[i]] \in Keys /\ keys[e[i]][1] = Total(lens, s[i])
        /\ keys[e[j]] \in Keys /\ keys[e[j]][1] = Total(lens, s[j])
    BY <1>1, <1>2, <2>1, SetKeyType
  <2>3. ~ (Total(lens, s[j]) > Total(lens, s[i]))
    BY <1>4, <2>2 DEF Above
  <2>4. Total(lens, s[i]) \in Int /\ Total(lens, s[j]) \in Int
    BY <2>2 DEF Keys
  <2> QED
    BY <2>3, <2>4
<1> QED
  BY <1>4, <1>6, <1>7, <1>8 DEF s

\* While one set is empty, no set has two items.
Sparing(sets) ==
  \A i, j \in 1 .. Len(sets) : Len(sets[i]) = 0 => Len(sets[j]) <= 1

Level(sets) == \A i, j \in 1 .. Len(sets) : Len(sets[i]) = Len(sets[j])

\* The totals of two sets differ by at most D.
Near(lens, sets, D) ==
  \A i, j \in 1 .. Len(sets) : Total(lens, sets[i]) - Total(lens, sets[j]) <= D

StateOK(lens, s, k, eq, D) ==
  /\ Shares(s, Len(lens), k) /\ Ordered(lens, s) /\ Sparing(s) /\ Near(lens, s, D)
  /\ eq => Level(s)

LEMMA DecreasingState ==
  ASSUME NEW lens \in Lengths, NEW k \in Nat, NEW eq, NEW D, NEW sets,
         Shares(sets, Len(lens), k), Sparing(sets), eq => Level(sets), Near(lens, sets, D)
  PROVE  /\ StateOK(lens, Decreasing(lens, sets), k, eq, D)
         /\ \A x : Occurs(Decreasing(lens, sets), x) <=> Occurs(sets, x)
<1> DEFINE s == Decreasing(lens, sets)
<1>1. /\ Shares(s, Len(lens), k) /\ Ordered(lens, s)
      /\ \A x : Occurs(s, x) <=> Occurs(sets, x)
      /\ \E e : Permutes(e, k) /\ Rearranged(s, sets, e)
  BY DecreasingShares
<1> HIDE DEF s
<1>2. PICK e : Permutes(e, k) /\ Rearranged(s, sets, e)
  BY <1>1
<1>3. Len(s) = k /\ Len(sets) = k
  BY <1>1 DEF Shares
<1>4. \A i \in 1 .. k : e[i] \in 1 .. k /\ s[i] = sets[e[i]]
  BY <1>2, <1>3 DEF Permutes, Rearranged, Bijection, Injection
<1>5. Sparing(s) /\ (eq => Level(s)) /\ Near(lens, s, D)
  <2>1. Sparing(s)
    BY <1>3, <1>4, SMTT(30) DEF Sparing
  <2>2. eq => Level(s)
    BY <1>3, <1>4, SMTT(30) DEF Level
  <2>3. \A i, j \in 1 .. k : Total(lens, sets[i]) - Total(lens, sets[j]) <= D
    BY <1>3 DEF Near
  <2>4. \A i, j \in 1 .. k : Total(lens, s[i]) - Total(lens, s[j]) <= D
    <3> TAKE i, j \in 1 .. k
    <3>1. e[i] \in 1 .. k /\ s[i] = sets[e[i]] /\ e[j] \in 1 .. k /\ s[j] = sets[e[j]]
      BY <1>4
    <3>2. Total(lens, sets[e[i]]) - Total(lens, sets[e[j]]) <= D
      BY <2>3, <3>1
    <3> QED
      BY <3>1, <3>2
  <2>5. Near(lens, s, D)
    BY <1>3, <2>4 DEF Near
  <2> QED
    BY <2>1, <2>2, <2>5
<1> QED
  BY <1>1, <1>5 DEF StateOK, s

\* The sets without items are the last ones.
LEMMA EmptyLast ==
  ASSUME NEW lens \in Lengths, NEW k \in Nat, NEW s, Shares(s, Len(lens), k), Ordered(lens, s),
         NEW i \in 1 .. k, NEW j \in 1 .. k, i <= j, Len(s[i]) = 0
  PROVE  Len(s[j]) = 0
<1>1. s[i] \in Seq(1 .. Len(lens)) /\ s[j] \in Seq(1 .. Len(lens)) /\ Len(s) = k
  BY DEF Shares
<1>2. Total(lens, s[i]) = 0 /\ Total(lens, s[j]) \in Nat /\ Len(s[j]) \in Nat
      /\ (Len(s[j]) > 0 => Total(lens, s[j]) > 0)
  <2>1. Total(lens, s[i]) = 0
    BY <1>1, TotalType
  <2>2. /\ Total(lens, s[j]) \in Nat /\ (Len(s[j]) > 0 => Total(lens, s[j]) > 0)
    BY <1>1, TotalType
  <2>3. Len(s[j]) \in Nat
    BY <1>1
  <2> QED
    BY <2>1, <2>2, <2>3
<1>3. i # j => Total(lens, s[i]) >= Total(lens, s[j])
  BY <1>1 DEF Ordered
<1> QED
  BY <1>2, <1>3

\* The largest set of s with the smallest of t, and so on.
Merges(m, s, t) == m = [i \in 1 .. Len(t) |-> s[i] \o t[Len(t) + 1 - i]]

LEMMA MergedShares ==
  ASSUME NEW n, NEW k \in Nat, NEW s, NEW t, Shares(s, n, k), Shares(t, n, k),
         \A x : ~ (Occurs(s, x) /\ Occurs(t, x)),
         NEW m, Merges(m, s, t)
  PROVE  /\ Shares(m, n, k)
         /\ \A i \in 1 .. k : Len(m[i]) = Len(s[i]) + Len(t[k + 1 - i])
         /\ \A x : Occurs(m, x) <=> Occurs(s, x) \/ Occurs(t, x)
<1> DEFINE In(part, x) == \E a \in 1 .. Len(part) : part[a] = x
<1>1. /\ s \in Seq(Seq(1 .. n)) /\ Len(s) = k /\ Separate(s)
      /\ t \in Seq(Seq(1 .. n)) /\ Len(t) = k /\ Separate(t)
  BY DEF Shares
<1>2. \A i \in 1 .. k : k + 1 - i \in 1 .. k /\ k + 1 - (k + 1 - i) = i
  OBVIOUS
<1>3. ASSUME NEW i \in 1 .. k
      PROVE  /\ m[i] \in Seq(1 .. n) /\ Joins(m[i], s[i], t[k + 1 - i])
             /\ Len(m[i]) = Len(s[i]) + Len(t[k + 1 - i])
  <2>1. s[i] \in Seq(1 .. n) /\ t[k + 1 - i] \in Seq(1 .. n) /\ m[i] = s[i] \o t[k + 1 - i]
    BY <1>1, <1>2 DEF Merges
  <2> QED
    BY <2>1, ConcatJoins
<1>4. m \in Seq(Seq(1 .. n)) /\ Len(m) = k
  <2>1. m = [i \in 1 .. k |-> m[i]]
    BY <1>1 DEF Merges
  <2>2. \A i \in 1 .. k : m[i] \in Seq(1 .. n)
    BY <1>3
  <2> DEFINE F == [1 .. k -> Seq(1 .. n)]
  <2>3. m \in F
    BY <2>1, <2>2, Zenon
  <2> QED
    BY <2>3
<1>5. \A x : \A i \in 1 .. k : In(m[i], x) <=> In(s[i], x) \/ In(t[k + 1 - i], x)
  BY <1>3 DEF Joins
<1>6. \A x : /\ Occurs(m, x) <=> \E i \in 1 .. k : In(m[i], x)
             /\ Occurs(s, x) <=> \E i \in 1 .. k : In(s[i], x)
             /\ Occurs(t, x) <=> \E i \in 1 .. k : In(t[i], x)
  BY <1>1, <1>4 DEF Occurs
<1>7. /\ \A x : \A i, j \in 1 .. k : In(s[i], x) /\ In(s[j], x) => i = j
      /\ \A x : \A i, j \in 1 .. k : In(t[i], x) /\ In(t[j], x) => i = j
  <2>1. ASSUME NEW u, Len(u) = k, Separate(u), NEW x, NEW i \in 1 .. k, NEW j \in 1 .. k,
               In(u[i], x), In(u[j], x), i # j
        PROVE  FALSE
    <3>1. PICK a \in 1 .. Len(u[i]) : u[i][a] = x
      BY <2>1
    <3>2. PICK b \in 1 .. Len(u[j]) : u[j][b] = x
      BY <2>1
    <3> QED
      BY <2>1, <3>1, <3>2 DEF Separate
  <2> HIDE DEF In
  <2> QED
    BY <1>1, <2>1
<1>8. \A i \in 1 .. k : Distinct(m[i])
  <2> TAKE i \in 1 .. k
  <2>1. Distinct(s[i]) /\ Distinct(t[k + 1 - i])
    BY <1>1, <1>2 DEF Separate
  <2>2. \A p \in 1 .. Len(s[i]), q \in 1 .. Len(t[k + 1 - i]) : s[i][p] # t[k + 1 - i][q]
    BY <1>1, <1>2 DEF Occurs
  <2> QED
    BY <1>3, <2>1, <2>2 DEF Joins
<1> HIDE DEF In
<1>9. \A x : \A i, j \in 1 .. k : In(m[i], x) /\ In(m[j], x) => i = j
  <2> SUFFICES ASSUME NEW i \in 1 .. k, NEW j \in 1 .. k, NEW x, In(m[i], x), In(m[j], x)
               PROVE  i = j
    OBVIOUS
  <2>1. /\ In(s[i], x) \/ In(t[k + 1 - i], x)
        /\ In(s[j], x) \/ In(t[k + 1 - j], x)
    BY <1>5
  <2>2. ~ (Occurs(s, x) /\ Occurs(t, x))
    OBVIOUS
  <2>3. CASE In(s[i], x) /\ In(s[j], x)
    BY <1>7, <2>3
  <2>4. CASE In(t[k + 1 - i], x) /\ In(t[k + 1 - j], x)
    <3>1. k + 1 - i = k + 1 - j
      BY <1>2, <1>7, <2>4
    <3> QED
      BY <3>1
  <2>5. CASE (In(s[i], x) /\ In(t[k + 1 - j], x)) \/ (In(t[k + 1 - i], x) /\ In(s[j], x))
    BY <1>2, <1>6, <2>2, <2>5
  <2> QED
    BY <2>1, <2>3, <2>4, <2>5
<1>10. Separate(m)
  <2>1. \A i, j \in 1 .. k : i # j =>
          \A a \in 1 .. Len(m[i]), b \in 1 .. Len(m[j]) : m[i][a] # m[j][b]
    <3> SUFFICES ASSUME NEW i \in 1 .. k, NEW j \in 1 .. k, i # j,
                        NEW a \in 1 .. Len(m[i]), NEW b \in 1 .. Len(m[j]), m[i][a] = m[j][b]
                 PROVE  FALSE
      OBVIOUS
    <3>1. In(m[i], m[i][a]) /\ In(m[j], m[i][a])
      BY DEF In
    <3> QED
      BY <1>9, <3>1
  <2>2. Len(m) = k
    BY <1>4
  <2> HIDE DEF In
  <2> QED
    BY <1>8, <2>1, <2>2 DEF Separate
<1>11. \A x : Occurs(m, x) <=> Occurs(s, x) \/ Occurs(t, x)
  BY <1>2, <1>5, <1>6
<1> QED
  BY <1>3, <1>4, <1>10, <1>11 DEF Shares

\* Two states without a common item merge to a state with the items of both.
LEMMA MergedState ==
  ASSUME NEW lens \in Lengths, NEW k \in Nat, NEW eq, NEW D \in Nat, NEW s, NEW t,
         StateOK(lens, s, k, eq, D), StateOK(lens, t, k, eq, D),
         \A x : ~ (Occurs(s, x) /\ Occurs(t, x))
  PROVE  /\ StateOK(lens, MergedStates(lens, s, t), k, eq, D)
         /\ \A x : Occurs(MergedStates(lens, s, t), x) <=> Occurs(s, x) \/ Occurs(t, x)
<1> DEFINE m == [i \in 1 .. Len(t) |-> s[i] \o t[Len(t) + 1 - i]]
           rev(i) == k + 1 - i
<1>1. Merges(m, s, t) /\ MergedStates(lens, s, t) = Decreasing(lens, m)
  BY DEF Merges, MergedStates
<1> HIDE DEF m
<1>2. /\ Shares(m, Len(lens), k)
      /\ \A i \in 1 .. k : Len(m[i]) = Len(s[i]) + Len(t[rev(i)])
      /\ \A x : Occurs(m, x) <=> Occurs(s, x) \/ Occurs(t, x)
  BY <1>1, MergedShares DEF StateOK
<1>3. \A i \in 1 .. k : rev(i) \in 1 .. k /\ \A j \in 1 .. k : j <= i => rev(i) <= rev(j)
  OBVIOUS
<1> HIDE DEF rev
<1>4. Len(m) = k /\ Len(s) = k /\ Len(t) = k
      /\ \A i \in 1 .. k : Len(s[i]) \in Nat /\ Len(t[i]) \in Nat
  BY <1>2 DEF StateOK, Shares
<1>5. Sparing(m)
  <2> SUFFICES ASSUME NEW i \in 1 .. k, NEW j \in 1 .. k, Len(m[i]) = 0 PROVE Len(m[j]) <= 1
    BY <1>4 DEF Sparing
  <2>1. Len(s[i]) = 0 /\ Len(t[rev(i)]) = 0
    BY <1>2, <1>3, <1>4
  <2>2. Len(s[j]) <= 1 /\ Len(t[rev(j)]) <= 1
    BY <1>3, <1>4, <2>1 DEF StateOK, Sparing
  <2>3. CASE i <= j
    <3>1. Len(s[j]) = 0
      BY <2>1, <2>3, EmptyLast DEF StateOK
    <3> QED
      BY <1>2, <1>3, <1>4, <2>2, <3>1
  <2>4. CASE j <= i
    <3>1. rev(i) \in 1 .. k /\ rev(j) \in 1 .. k /\ rev(i) <= rev(j)
      BY <1>3, <2>4
    <3>2. Len(t[rev(j)]) = 0
      BY <2>1, <3>1, EmptyLast DEF StateOK
    <3> QED
      BY <1>2, <1>3, <1>4, <2>2, <3>2
  <2> QED
    BY <2>3, <2>4
<1>6. eq => Level(m)
  <2> SUFFICES ASSUME eq, NEW i \in 1 .. k, NEW j \in 1 .. k PROVE Len(m[i]) = Len(m[j])
    BY <1>4 DEF Level
  <2>1. Level(s) /\ Level(t)
    BY DEF StateOK
  <2>2. Len(s[i]) = Len(s[j]) /\ Len(t[rev(i)]) = Len(t[rev(j)])
    BY <1>3, <1>4, <2>1 DEF Level
  <2> QED
    BY <1>2, <2>2
<1>8. Near(lens, m, D)
  <2> DEFINE a(i) == Total(lens, s[i])
             b(i) == Total(lens, t[i])
  <2>1. ASSUME NEW i \in 1 .. k
        PROVE  Total(lens, m[i]) = a(i) + b(rev(i)) /\ a(i) \in Nat /\ b(i) \in Nat
    <3>1. s[i] \in Seq(1 .. Len(lens)) /\ t[i] \in Seq(1 .. Len(lens))
          /\ t[rev(i)] \in Seq(1 .. Len(lens))
      BY <1>3 DEF StateOK, Shares
    <3>2. m[i] = s[i] \o t[rev(i)]
      BY <1>1, <1>4 DEF Merges, rev
    <3>3. Total(lens, s[i] \o t[rev(i)]) = Total(lens, s[i]) + Total(lens, t[rev(i)])
      BY <3>1, TotalAdds
    <3>4. Total(lens, s[i]) \in Nat
      BY <3>1, TotalType
    <3>5. Total(lens, t[i]) \in Nat
      BY <3>1, TotalType
    <3> QED
      BY <3>2, <3>3, <3>4, <3>5
  <2>2. /\ \A i, j \in 1 .. k : a(i) - a(j) <= D /\ b(i) - b(j) <= D
        /\ \A i, j \in 1 .. k : i < j => a(i) >= a(j) /\ b(i) >= b(j)
    BY <1>4 DEF StateOK, Near, Ordered
  <2> HIDE DEF a, b
  <2>3. ASSUME NEW i \in 1 .. k, NEW j \in 1 .. k
        PROVE  Total(lens, m[i]) - Total(lens, m[j]) <= D
    <3>1. rev(i) \in 1 .. k /\ rev(j) \in 1 .. k /\ (i < j => rev(j) < rev(i))
          /\ (j < i => rev(i) < rev(j))
      BY DEF rev
    <3>2. /\ Total(lens, m[i]) = a(i) + b(rev(i)) /\ a(i) \in Nat
          /\ Total(lens, m[j]) = a(j) + b(rev(j)) /\ a(j) \in Nat
          /\ b(rev(i)) \in Nat /\ b(rev(j)) \in Nat
      BY <2>1, <3>1
    <3>3. a(i) - a(j) <= D /\ b(rev(i)) - b(rev(j)) <= D
      BY <2>2, <3>1
    <3>4. CASE i < j
      <4>1. b(rev(j)) >= b(rev(i))
        BY <2>2, <3>1, <3>4
      <4> QED
        BY <3>2, <3>3, <4>1
    <3>5. CASE j < i
      <4>1. a(j) >= a(i)
        BY <2>2, <3>5
      <4> QED
        BY <3>2, <3>3, <4>1
    <3>6. CASE i = j
      BY <3>2, <3>3, <3>6
    <3> QED
      BY <3>4, <3>5, <3>6
  <2> QED
    BY <1>4, <2>3 DEF Near
<1>7. /\ StateOK(lens, Decreasing(lens, m), k, eq, D)
      /\ \A x : Occurs(Decreasing(lens, m), x) <=> Occurs(m, x)
  BY <1>2, <1>5, <1>6, <1>8, DecreasingState
<1> QED
  BY <1>1, <1>2, <1>7

-----------------------------------------------------------------------------
(* The heap. *)

\* States on the heap: each item is in one of them.
HeapOK(lens, H, k, eq, D) ==
  /\ IsFiniteSet(H)
  /\ \A s \in H : StateOK(lens, s, k, eq, D) /\ \E x : Occurs(s, x)
  /\ \A s, t \in H : s # t => \A x : ~ (Occurs(s, x) /\ Occurs(t, x))
  /\ \A x \in 1 .. Len(lens) : \E s \in H : Occurs(s, x)

LEMMA FirstPoppedExists ==
  ASSUME NEW lens \in Lengths, NEW k \in Nat \ {0}, NEW eq, NEW D, NEW H,
         IsFiniteSet(H), H # {}, \A s \in H : StateOK(lens, s, k, eq, D)
  PROVE  FirstPopped(lens, H) \in H
<1> DEFINE R == {e \in H \X H : PoppedBefore(lens, e[1], e[2])}
<1>1. \A s, t \in H : <<s, t>> \in R <=> PoppedBefore(lens, s, t)
  OBVIOUS
<1>2. \A s \in H : Spread(lens, s) \in Int /\ SetKey(lens, s[1]) \in Keys
  <2> TAKE s \in H
  <2>1. /\ s \in Seq(Seq(1 .. Len(lens))) /\ Len(s) = k
        /\ s[1] \in Seq(1 .. Len(lens)) /\ s[k] \in Seq(1 .. Len(lens))
    BY DEF StateOK, Shares
  <2>2. Total(lens, s[1]) \in Int
    BY <2>1, TotalType
  <2>3. Total(lens, s[k]) \in Int
    BY <2>1, TotalType
  <2>4. SetKey(lens, s[1]) \in Keys
    BY <2>1, SetKeyType
  <2> QED
    BY <2>1, <2>2, <2>3, <2>4 DEF Spread
<1> HIDE DEF R
<1>3. Precedes(R, H)
  <2>1. ASSUME NEW s \in H PROVE ~ PoppedBefore(lens, s, s)
    <3>1. SetKey(lens, s[1]) \in Keys /\ Spread(lens, s) \in Int
      BY <1>2
    <3>2. ~ Above(SetKey(lens, s[1]), SetKey(lens, s[1]))
      BY <3>1, KeyOrder
    <3> QED
      BY <3>1, <3>2 DEF PoppedBefore
  <2>2. ASSUME NEW s \in H, NEW t \in H, NEW u \in H,
               PoppedBefore(lens, s, t), PoppedBefore(lens, t, u)
        PROVE  PoppedBefore(lens, s, u)
    <3>1. /\ SetKey(lens, s[1]) \in Keys /\ SetKey(lens, t[1]) \in Keys /\ SetKey(lens, u[1]) \in Keys
          /\ Spread(lens, s) \in Int /\ Spread(lens, t) \in Int /\ Spread(lens, u) \in Int
      BY <1>2
    <3>2. Above(SetKey(lens, s[1]), SetKey(lens, t[1])) /\ Above(SetKey(lens, t[1]), SetKey(lens, u[1]))
            => Above(SetKey(lens, s[1]), SetKey(lens, u[1]))
      BY <3>1, KeyOrder
    <3> QED
      BY <2>2, <3>1, <3>2 DEF PoppedBefore
  <2> QED
    BY <1>1, <2>1, <2>2 DEF Precedes
<1>4. \E s \in H : \A t \in H : <<t, s>> \notin R
  BY <1>3, HasFirst
<1>5. \E s \in H : \A t \in H : ~ PoppedBefore(lens, t, s)
  BY <1>1, <1>4
<1> QED
  BY <1>5 DEF FirstPopped

LEMMA HeapMerges ==
  ASSUME NEW lens \in Lengths, NEW k \in Nat \ {0}, NEW eq, NEW D \in Nat, NEW H,
         HeapOK(lens, H, k, eq, D), Cardinality(H) > 1
  PROVE  /\ HeapOK(lens, MergeFirstTwo(lens, H), k, eq, D)
         /\ Cardinality(MergeFirstTwo(lens, H)) = Cardinality(H) - 1
<1> DEFINE s == FirstPopped(lens, H)
           t == FirstPopped(lens, H \ {s})
           rest == H \ {s, t}
           m == MergedStates(lens, s, t)
           N == MergeFirstTwo(lens, H)
<1>1. /\ IsFiniteSet(H) /\ \A u \in H : StateOK(lens, u, k, eq, D) /\ \E x : Occurs(u, x)
      /\ \A u, v \in H : u # v => \A x : ~ (Occurs(u, x) /\ Occurs(v, x))
      /\ \A x \in 1 .. Len(lens) : \E u \in H : Occurs(u, x)
      /\ Cardinality(H) \in Nat
  BY FS_CardinalityType DEF HeapOK
<1>2. s \in H
  <2>1. H # {}
    BY <1>1, FS_EmptySet
  <2>2. IsFiniteSet(H) /\ \A u \in H : StateOK(lens, u, k, eq, D)
    BY <1>1
  <2> QED
    BY <2>1, <2>2, FirstPoppedExists
<1> HIDE DEF s
<1>3. IsFiniteSet(H \ {s}) /\ Cardinality(H \ {s}) = Cardinality(H) - 1
  BY <1>1, <1>2, FS_RemoveElement
<1>4. t \in H \ {s}
  <2>1. H \ {s} # {}
    BY <1>1, <1>3, FS_EmptySet
  <2>2. \A u \in H \ {s} : StateOK(lens, u, k, eq, D)
    BY <1>1
  <2> QED
    BY <1>3, <2>1, <2>2, FirstPoppedExists
<1>5. N = rest \cup {m}
  BY DEF MergeFirstTwo, s
<1> HIDE DEF t
<1>6. IsFiniteSet(rest) /\ Cardinality(rest) = Cardinality(H) - 2
  <2> DEFINE others == H \ {s}
  <2>1. others \ {t} = rest
    OBVIOUS
  <2>2. IsFiniteSet(others) /\ Cardinality(others) = Cardinality(H) - 1 /\ t \in others
    BY <1>3, <1>4
  <2> HIDE DEF others, rest
  <2>3. IsFiniteSet(others \ {t}) /\ Cardinality(others \ {t}) = Cardinality(others) - 1
    BY <2>2, FS_RemoveElement
  <2>4. IsFiniteSet(rest) /\ Cardinality(rest) = Cardinality(others) - 1
    BY <2>1, <2>3, Zenon
  <2> QED
    BY <1>1, <2>2, <2>4
<1>7. /\ StateOK(lens, m, k, eq, D)
      /\ \A x : Occurs(m, x) <=> Occurs(s, x) \/ Occurs(t, x)
  <2>1. StateOK(lens, s, k, eq, D) /\ StateOK(lens, t, k, eq, D) /\ \A x : ~ (Occurs(s, x) /\ Occurs(t, x))
    BY <1>1, <1>2, <1>4
  <2> QED
    BY <2>1, MergedState
<1> HIDE DEF N, m
<1>8. m \notin rest
  BY <1>1, <1>2, <1>4, <1>7
<1>9. IsFiniteSet(N) /\ Cardinality(N) = Cardinality(H) - 1
  <2>1. IsFiniteSet(rest \cup {m}) /\ Cardinality(rest \cup {m}) = Cardinality(rest) + 1
    BY <1>6, <1>8, FS_AddElement
  <2> HIDE DEF rest
  <2> QED
    BY <1>1, <1>5, <1>6, <2>1
<1>10. \A u \in N : StateOK(lens, u, k, eq, D) /\ \E x : Occurs(u, x)
  <2>1. \E x : Occurs(m, x)
    BY <1>1, <1>2, <1>7
  <2> QED
    BY <1>1, <1>5, <1>7, <2>1
<1>11. \A u, v \in N : u # v => \A x : ~ (Occurs(u, x) /\ Occurs(v, x))
  <2>1. \A u \in rest : \A x : ~ (Occurs(u, x) /\ Occurs(m, x))
    BY <1>1, <1>2, <1>4, <1>7
  <2> QED
    BY <1>1, <1>5, <2>1
<1>12. \A x \in 1 .. Len(lens) : \E u \in N : Occurs(u, x)
  BY <1>1, <1>5, <1>7
<1> QED
  BY <1>9, <1>10, <1>11, <1>12 DEF HeapOK, N

\* The heap after each of the first n merges.
HeapsTo(lens, states, n, f) ==
  f = [m \in 0 .. n |-> IF m = 0 THEN states ELSE MergeFirstTwo(lens, f[m - 1])]

LEMMA HeapsExist ==
  ASSUME NEW lens, NEW states, NEW n \in Nat
  PROVE  \E f : HeapsTo(lens, states, n, f)
<1> DEFINE G == {m \in Nat : \E f : HeapsTo(lens, states, m, f)}
<1>1. 0 \in G
  <2>1. \A m \in 0 .. 0 : m = 0
    OBVIOUS
  <2>2. HeapsTo(lens, states, 0, [m \in 0 .. 0 |-> states])
    BY <2>1 DEF HeapsTo
  <2> QED
    BY <2>2
<1>2. ASSUME NEW m \in Nat, m \in G PROVE m + 1 \in G
  <2>1. PICK f : HeapsTo(lens, states, m, f)
    BY <1>2
  <2> DEFINE g == [i \in 0 .. m + 1 |-> IF i <= m THEN f[i] ELSE MergeFirstTwo(lens, f[m])]
  <2>2. ASSUME NEW i \in 0 .. m + 1
        PROVE  g[i] = IF i = 0 THEN states ELSE MergeFirstTwo(lens, g[i - 1])
    <3>1. CASE i <= m
      <4>1. i \in 0 .. m /\ g[i] = f[i] /\ (i # 0 => g[i - 1] = f[i - 1])
        BY <3>1
      <4>2. f[i] = IF i = 0 THEN states ELSE MergeFirstTwo(lens, f[i - 1])
        BY <2>1, <4>1 DEF HeapsTo
      <4> HIDE DEF g
      <4> QED
        BY <4>1, <4>2
    <3>2. CASE i = m + 1
      <4>1. i # 0 /\ i - 1 = m /\ ~ (i <= m) /\ m \in 0 .. m + 1
        BY <3>2
      <4>2. g[i] = MergeFirstTwo(lens, f[m]) /\ g[i - 1] = f[m]
        BY <4>1
      <4> HIDE DEF g
      <4> QED
        BY <4>1, <4>2
    <3> QED
      BY <3>1, <3>2
  <2> HIDE DEF g
  <2>3. g = [i \in 0 .. m + 1 |-> g[i]]
    BY DEF g
  <2>4. HeapsTo(lens, states, m + 1, g)
    BY <2>2, <2>3 DEF HeapsTo
  <2> QED
    BY <2>4
<1> HIDE DEF G
<1>3. \A m \in Nat : m \in G
  BY <1>1, <1>2, SetInduction
<1> QED
  BY <1>3 DEF G

\* The last state on the heap has all items.
LEMMA KarmarkarKarpState ==
  ASSUME NEW lens \in Lengths, NEW k \in Nat \ {0}, NEW eq, NEW D \in Nat,
         HeapOK(lens, StartStates(lens, k, eq), k, eq, D), StartStates(lens, k, eq) # {}
  PROVE  /\ StateOK(lens, KarmarkarKarp(lens, k, eq), k, eq, D)
         /\ \A x \in 1 .. Len(lens) : Occurs(KarmarkarKarp(lens, k, eq), x)
<1> DEFINE states == StartStates(lens, k, eq)
           merges == Cardinality(states) - 1
           heap == CHOOSE f : HeapsTo(lens, states, merges, f)
<1>1. KarmarkarKarp(lens, k, eq) = CHOOSE s \in heap[merges] : TRUE
  BY DEF KarmarkarKarp, HeapsTo
<1>2. Cardinality(states) \in Nat /\ merges \in Nat
  <2>1. IsFiniteSet(states) /\ states # {}
    BY DEF HeapOK
  <2>2. Cardinality(states) \in Nat /\ Cardinality(states) # 0
    BY <2>1, FS_EmptySet, FS_CardinalityType
  <2> QED
    BY <2>2
<1>3. HeapsTo(lens, states, merges, heap)
  <2>1. \E f : HeapsTo(lens, states, merges, f)
    BY <1>2, HeapsExist
  <2> QED
    BY <2>1
<1>4. HeapOK(lens, states, k, eq, D)
  OBVIOUS
<1> DEFINE total == Cardinality(states)
<1> HIDE DEF heap, states, merges, total
<1>5. /\ heap[0] = states
      /\ \A m \in 1 .. merges : heap[m] = MergeFirstTwo(lens, heap[m - 1])
  <2>1. \A m \in 0 .. merges :
          heap[m] = IF m = 0 THEN states ELSE MergeFirstTwo(lens, heap[m - 1])
    BY <1>3 DEF HeapsTo
  <2> QED
    BY <1>2, <2>1
<1>6. merges = total - 1 /\ total \in Nat
  BY <1>2 DEF merges, total
<1> DEFINE G == {m \in Nat : m <= merges =>
                    HeapOK(lens, heap[m], k, eq, D) /\ Cardinality(heap[m]) = total - m}
<1>7. 0 \in G
  BY <1>4, <1>5, <1>6 DEF total
<1>8. ASSUME NEW m \in Nat, m \in G PROVE m + 1 \in G
  <2> SUFFICES ASSUME m + 1 <= merges
               PROVE  HeapOK(lens, heap[m + 1], k, eq, D) /\ Cardinality(heap[m + 1]) = total - (m + 1)
    OBVIOUS
  <2>1. HeapOK(lens, heap[m], k, eq, D) /\ Cardinality(heap[m]) = total - m
    BY <1>6, <1>8
  <2>2. heap[m + 1] = MergeFirstTwo(lens, heap[m])
    BY <1>5, <1>6
  <2>3. Cardinality(heap[m]) > 1
    BY <1>6, <2>1
  <2>4. /\ HeapOK(lens, MergeFirstTwo(lens, heap[m]), k, eq, D)
        /\ Cardinality(MergeFirstTwo(lens, heap[m])) = Cardinality(heap[m]) - 1
    BY <2>1, <2>3, HeapMerges
  <2> QED
    BY <1>6, <2>1, <2>2, <2>4
<1> HIDE DEF G
<1>9. \A m \in Nat : m \in G
  BY <1>7, <1>8, SetInduction
<1>10. HeapOK(lens, heap[merges], k, eq, D) /\ Cardinality(heap[merges]) = 1
  <2>1. merges \in G
    BY <1>2, <1>9
  <2> QED
    BY <1>6, <2>1 DEF G
<1>11. PICK s : heap[merges] = {s}
  BY <1>10, FS_Singleton DEF HeapOK
<1>12. KarmarkarKarp(lens, k, eq) = s
  BY <1>1, <1>11
<1> QED
  BY <1>10, <1>11, <1>12 DEF HeapOK

-----------------------------------------------------------------------------
(* The heap before the first merge. *)

\* Indexed states without a common item, that have every item between them.
Starts(lens, f, n, k, eq, D) ==
  /\ n \in Nat \ {0} /\ f = [i \in 1 .. n |-> f[i]]
  /\ \A i \in 1 .. n : StateOK(lens, f[i], k, eq, D) /\ \E x : Occurs(f[i], x)
  /\ \A i, j \in 1 .. n : i # j => \A x : ~ (Occurs(f[i], x) /\ Occurs(f[j], x))
  /\ \A x \in 1 .. Len(lens) : \E i \in 1 .. n : Occurs(f[i], x)

LEMMA StartsHeap ==
  ASSUME NEW lens, NEW f, NEW n, NEW k, NEW eq, NEW D, Starts(lens, f, n, k, eq, D),
         NEW H, H = {f[i] : i \in 1 .. n}
  PROVE  HeapOK(lens, H, k, eq, D) /\ H # {}
<1>1. f \in Surjection(1 .. n, H)
  <2>1. f \in [1 .. n -> H]
    BY DEF Starts
  <2> QED
    BY <2>1 DEF Surjection
<1>2. IsFiniteSet(1 .. n) /\ 1 \in 1 .. n
  <2>1. 1 \in Int /\ n \in Int /\ 1 \in 1 .. n
    BY DEF Starts
  <2> QED
    BY <2>1, FS_Interval
<1>3. IsFiniteSet(H) /\ H # {}
  BY <1>1, <1>2, FS_Surjection
<1>4. \A s \in H : StateOK(lens, s, k, eq, D) /\ \E x : Occurs(s, x)
  BY DEF Starts
<1>5. \A s, t \in H : s # t => \A x : ~ (Occurs(s, x) /\ Occurs(t, x))
  BY DEF Starts
<1>6. \A x \in 1 .. Len(lens) : \E s \in H : Occurs(s, x)
  BY DEF Starts
<1> QED
  BY <1>3, <1>4, <1>5, <1>6 DEF HeapOK

LEMMA StartUnequal ==
  ASSUME NEW lens \in Lengths, Len(lens) # 0, NEW k \in Nat \ {0},
         NEW D \in Nat, \A i \in 1 .. Len(lens) : lens[i] <= D
  PROVE  /\ HeapOK(lens, StartStates(lens, k, FALSE), k, FALSE, D)
         /\ StartStates(lens, k, FALSE) # {}
<1> DEFINE n == Len(lens)
           single(i) == [j \in 1 .. k |-> IF j = 1 THEN <<i>> ELSE <<>>]
           f == [i \in 1 .. n |-> Decreasing(lens, single(i))]
<1>1. n \in Nat \ {0}
  BY DEF Lengths
<1>2. ASSUME NEW i \in 1 .. n
      PROVE  /\ StateOK(lens, f[i], k, FALSE, D)
             /\ \A x : Occurs(f[i], x) <=> x = i
  <2> DEFINE s == single(i)
  <2>1. /\ s \in Seq(Seq(1 .. n)) /\ Len(s) = k
        /\ \A j \in 1 .. k : s[j] = IF j = 1 THEN <<i>> ELSE <<>>
    <3>1. \A j \in 1 .. k : (IF j = 1 THEN <<i>> ELSE <<>>) \in Seq(1 .. n)
      <4>1. <<i>> \in Seq(1 .. n) /\ <<>> \in Seq(1 .. n)
        OBVIOUS
      <4> QED
        BY <4>1, Zenon
    <3>2. s \in [1 .. k -> Seq(1 .. n)]
      BY <3>1, Zenon
    <3>3. \A j \in 1 .. k : s[j] = IF j = 1 THEN <<i>> ELSE <<>>
      BY Zenon
    <3> HIDE DEF s
    <3> QED
      BY <3>2, <3>3
  <2> HIDE DEF s
  <2>2. \A j \in 1 .. k : Len(s[j]) = (IF j = 1 THEN 1 ELSE 0) /\ (j = 1 => s[j][1] = i)
    BY <2>1
  <2>3. 1 \in 1 .. k
    OBVIOUS
  <2>4. Separate(s) /\ Sparing(s)
    <3>1. \A j \in 1 .. k : Len(s[j]) <= 1 /\ (Len(s[j]) > 0 => j = 1)
                             /\ \A p \in 1 .. Len(s[j]) : p = 1
      BY <2>2
    <3>2. Len(s) = k
      BY <2>1
    <3> QED
      BY <3>1, <3>2 DEF Separate, Distinct, Sparing
  <2>5. \A x : Occurs(s, x) <=> x = i
    BY <2>1, <2>2, <2>3 DEF Occurs
  <2>6. Shares(s, n, k)
    BY <2>1, <2>4 DEF Shares
  <2>9. Near(lens, s, D)
    <3>1. \A j \in 1 .. k : Total(lens, s[j]) \in 0 .. D
      <4> TAKE j \in 1 .. k
      <4>1. s[j] \in Seq(1 .. n) /\ lens[i] \in Nat /\ lens[i] <= D
        BY <2>1 DEF Lengths
      <4>2. CASE j = 1
        <5>1. Len(s[j]) = 1 /\ s[j][1] = i
          BY <2>2, <4>2
        <5>2. Total(lens, s[j]) = lens[i]
          BY <4>1, <5>1, TotalType
        <5> QED
          BY <4>1, <5>2
      <4>3. CASE j # 1
        <5>1. Len(s[j]) = 0
          BY <2>2, <4>3
        <5>2. Total(lens, s[j]) = 0
          BY <4>1, <5>1, TotalType
        <5> QED
          BY <5>2
      <4> QED
        BY <4>2, <4>3
    <3>2. Len(s) = k
      BY <2>1
    <3> QED
      BY <3>1, <3>2 DEF Near
  <2>7. /\ StateOK(lens, Decreasing(lens, s), k, FALSE, D)
        /\ \A x : Occurs(Decreasing(lens, s), x) <=> Occurs(s, x)
    BY <2>4, <2>6, <2>9, DecreasingState
  <2>8. f[i] = Decreasing(lens, s)
    BY DEF s
  <2> QED
    BY <2>5, <2>7, <2>8
<1>3. StartStates(lens, k, FALSE) = {f[i] : i \in 1 .. n}
  BY DEF StartStates
<1>4. f = [i \in 1 .. n |-> f[i]]
  OBVIOUS
<1> HIDE DEF f, n
<1>5. Starts(lens, f, n, k, FALSE, D)
  BY <1>1, <1>2, <1>4 DEF Starts, n
<1> QED
  BY <1>3, <1>5, StartsHeap

LEMMA ByLengthPermutes ==
  ASSUME NEW lens \in Lengths
  PROVE  Permutes(ByLength(lens), Len(lens)) /\ Len(ByLength(lens)) = Len(lens)
<1> DEFINE keys == [i \in 1 .. Len(lens) |-> << - lens[i], - i, 0 >>]
<1>1. keys \in Seq(Keys) /\ Len(keys) = Len(lens)
  <2>1. \A i \in 1 .. Len(lens) : lens[i] \in Int /\ << - lens[i], - i, 0 >> \in Keys
    BY DEF Lengths, Keys
  <2> QED
    BY <2>1 DEF Lengths
<1>2. ByLength(lens) = Descending(keys)
  BY DEF ByLength
<1> HIDE DEF keys
<1>3. Permutes(Descending(keys), Len(keys))
  BY <1>1, DescendingPermutes
<1>4. Len(Descending(keys)) = Len(keys)
  BY <1>1, <1>3 DEF Descending
<1> QED
  BY <1>1, <1>2, <1>3, <1>4

\* The q blocks of k places each share out the q * k places.
LEMMA Blocks ==
  ASSUME NEW k \in Nat \ {0}, NEW q \in Nat
  PROVE  /\ \A o \in 0 .. q - 1, j \in 1 .. k : o * k + j \in 1 .. q * k
         /\ \A o, u \in 0 .. q - 1, i, j \in 1 .. k : o * k + i = u * k + j => o = u /\ i = j
         /\ \A p \in 1 .. q * k : \E o \in 0 .. q - 1, j \in 1 .. k : p = o * k + j
<1>1. \A o \in 0 .. q - 1, j \in 1 .. k : o * k + j \in 1 .. q * k
  <2> TAKE o \in 0 .. q - 1, j \in 1 .. k
  <2>1. (o + 1) * k = o * k + k /\ o * k \in Nat
    OBVIOUS
  <2>2. (o + 1) * k <= q * k
    <3>1. ~ (q < o + 1) /\ q \in Nat /\ o + 1 \in Nat
      OBVIOUS
    <3>2. ~ (q * k < (o + 1) * k)
      BY <3>1, LessTimes
    <3> DEFINE a == q * k
               b == (o + 1) * k
    <3>3. a \in Nat /\ b \in Nat
      BY <3>1, Product
    <3> HIDE DEF a, b
    <3>4. ~ (a < b) => b <= a
      BY <3>3
    <3> QED
      BY <3>2, <3>4 DEF a, b
  <2> DEFINE a == q * k
             b == (o + 1) * k
             c == o * k
  <2>3. a \in Nat
    BY Product
  <2> HIDE DEF a, b, c
  <2>4. b = c + k /\ c \in Nat /\ b <= a
    BY <2>1, <2>2 DEF a, b, c
  <2>5. c + j \in 1 .. a
    BY <2>3, <2>4
  <2> QED
    BY <2>5 DEF a, c
<1>2. \A o, u \in 0 .. q - 1, i, j \in 1 .. k : o * k + i = u * k + j => o = u /\ i = j
  <2> SUFFICES ASSUME NEW o \in 0 .. q - 1, NEW u \in 0 .. q - 1, NEW i \in 1 .. k, NEW j \in 1 .. k,
                      o * k + i = u * k + j
               PROVE  o = u /\ i = j
    OBVIOUS
  <2>1. i - 1 \in 0 .. k - 1 /\ j - 1 \in 0 .. k - 1 /\ o \in Nat /\ u \in Nat
    OBVIOUS
  <2>2. (o * k + (i - 1)) \div k = o /\ (o * k + (i - 1)) % k = i - 1
    BY <2>1, PlaceOf
  <2>3. (u * k + (j - 1)) \div k = u /\ (u * k + (j - 1)) % k = j - 1
    BY <2>1, PlaceOf
  <2> DEFINE a == o * k
             b == u * k
  <2>4. a \in Nat /\ b \in Nat
    BY <2>1, Product
  <2> HIDE DEF a, b
  <2>5. a + i = b + j
    BY DEF a, b
  <2>6. a + (i - 1) = b + (j - 1)
    BY <2>4, <2>5
  <2>7. o = u /\ i - 1 = j - 1
    BY <2>2, <2>3, <2>6, Zenon DEF a, b
  <2> QED
    BY <2>7
<1>3. \A p \in 1 .. q * k : \E o \in 0 .. q - 1, j \in 1 .. k : p = o * k + j
  <2> TAKE p \in 1 .. q * k
  <2> DEFINE x == p - 1
             o == x \div k
             r == x % k
             c == o * k
             a == q * k
  <2>0. a \in Nat
    BY Product
  <2>1. x \in Nat /\ p = x + 1 /\ p \in 1 .. a
    BY <2>0
  <2>2. x = c + r /\ o \in Nat /\ r \in 0 .. k - 1
    <3> HIDE DEF x
    <3> QED
      BY <2>1, DivMod
  <2>3. c \in Nat
    BY <2>2, Product
  <2> HIDE DEF x, r, a
  <2>4. c < a
    <3> HIDE DEF c
    <3> QED
      BY <2>0, <2>1, <2>2, <2>3
  <2>5. o < q
    BY <2>2, <2>4, LessTimes DEF a
  <2> HIDE DEF c
  <2>6. o \in 0 .. q - 1 /\ r + 1 \in 1 .. k /\ p = c + (r + 1)
    <3> HIDE DEF o
    <3> QED
      BY <2>1, <2>2, <2>3, <2>5
  <2> QED
    BY <2>6 DEF c
<1> QED
  BY <1>1, <1>2, <1>3

LEMMA StartEqual ==
  ASSUME NEW lens \in Lengths, NEW k \in Nat \ {0}, NEW q \in Nat \ {0}, Len(lens) = q * k,
         NEW D \in Nat, \A i, j \in 1 .. Len(lens) : lens[i] - lens[j] <= D
  PROVE  /\ HeapOK(lens, StartStates(lens, k, TRUE), k, TRUE, D)
         /\ StartStates(lens, k, TRUE) # {}
<1> DEFINE n == Len(lens)
           order == ByLength(lens)
           block(o) == [j \in 1 .. k |-> << order[o * k + j] >>]
           f == [i \in 1 .. q |-> Decreasing(lens, block(i - 1))]
<1>1. n \in Nat /\ n = q * k
  BY DEF Lengths
<1>2. /\ Len(order) = n
      /\ \A p \in 1 .. n : order[p] \in 1 .. n
      /\ \A p, r \in 1 .. n : order[p] = order[r] => p = r
      /\ \A x \in 1 .. n : \E p \in 1 .. n : order[p] = x
  BY ByLengthPermutes, ZenonT(30) DEF Permutes, Bijection, Injection, Surjection, IsInjective
<1> HIDE DEF order
<1>3. /\ \A o \in 0 .. q - 1, j \in 1 .. k : o * k + j \in 1 .. n
      /\ \A o, u \in 0 .. q - 1, i, j \in 1 .. k : o * k + i = u * k + j => o = u /\ i = j
      /\ \A p \in 1 .. n : \E o \in 0 .. q - 1, j \in 1 .. k : p = o * k + j
  <2>1. /\ \A o \in 0 .. q - 1, j \in 1 .. k : o * k + j \in 1 .. q * k
        /\ \A o, u \in 0 .. q - 1, i, j \in 1 .. k : o * k + i = u * k + j => o = u /\ i = j
        /\ \A p \in 1 .. q * k : \E o \in 0 .. q - 1, j \in 1 .. k : p = o * k + j
    <3>1. q \in Nat
      OBVIOUS
    <3> QED
      BY <3>1, Blocks
  <2> HIDE DEF n
  <2> QED
    BY <1>1, <2>1, Zenon
<1> HIDE DEF n
<1>4. ASSUME NEW o \in 0 .. q - 1
      PROVE  /\ StateOK(lens, Decreasing(lens, block(o)), k, TRUE, D)
             /\ \A x : Occurs(Decreasing(lens, block(o)), x)
                         <=> \E j \in 1 .. k : order[o * k + j] = x
  <2> DEFINE s == block(o)
  <2>1. s \in Seq(Seq(1 .. n)) /\ Len(s) = k
        /\ \A j \in 1 .. k : Len(s[j]) = 1 /\ s[j][1] = order[o * k + j]
    <3>1. \A j \in 1 .. k : order[o * k + j] \in 1 .. n
      BY <1>2, <1>3
    <3>2. \A j \in 1 .. k : s[j] \in Seq(1 .. n) /\ Len(s[j]) = 1 /\ s[j][1] = order[o * k + j]
      BY <3>1
    <3>3. s = [j \in 1 .. k |-> s[j]]
      OBVIOUS
    <3> HIDE DEF s
    <3>4. s \in [1 .. k -> Seq(1 .. n)]
      BY <3>2, <3>3, Zenon
    <3> QED
      BY <3>2, <3>4
  <2> HIDE DEF s
  <2> DEFINE item(j) == order[o * k + j]
  <2>2. Len(s) = k /\ \A j \in 1 .. k : 1 .. Len(s[j]) = {1} /\ Len(s[j]) = 1 /\ s[j][1] = item(j)
    <3>1. 1 .. 1 = {1}
      OBVIOUS
    <3>2. \A j \in 1 .. k : s[j][1] = item(j)
      BY <2>1
    <3>3. Len(s) = k /\ \A j \in 1 .. k : Len(s[j]) = 1
      BY <2>1
    <3> HIDE DEF item
    <3>4. \A j \in 1 .. k : 1 .. Len(s[j]) = {1}
      BY <3>1, <3>3, Zenon
    <3> QED
      BY <3>2, <3>3, <3>4
  <2>3. \A i, j \in 1 .. k : item(i) = item(j) => i = j
    <3> DEFINE p(j) == o * k + j
    <3>1. \A j \in 1 .. k : p(j) \in 1 .. n
      BY <1>3
    <3>2. \A i, j \in 1 .. k : p(i) = p(j) => i = j
      BY <1>3
    <3> HIDE DEF p
    <3>3. ASSUME NEW i \in 1 .. k, NEW j \in 1 .. k, order[p(i)] = order[p(j)] PROVE i = j
      <4>1. p(i) \in 1 .. n /\ p(j) \in 1 .. n
        BY <3>1
      <4>2. p(i) = p(j)
        BY <1>2, <3>3, <4>1
      <4> QED
        BY <3>2, <4>2
    <3> QED
      BY <3>3 DEF p
  <2> HIDE DEF item
  <2>4. Separate(s) /\ Sparing(s) /\ Level(s)
    <3>1. Separate(s)
      <4>1. \A j \in 1 .. k : Distinct(s[j])
        BY <2>2 DEF Distinct
      <4>2. \A i, j \in 1 .. k : i # j => s[i][1] # s[j][1]
        BY <2>2, <2>3
      <4>3. \A i, j \in 1 .. k : i # j =>
              \A a \in 1 .. Len(s[i]), b \in 1 .. Len(s[j]) : s[i][a] # s[j][b]
        BY <2>2, <4>2
      <4> QED
        BY <2>2, <4>1, <4>3 DEF Separate
    <3>2. Sparing(s) /\ Level(s)
      BY <2>2 DEF Sparing, Level
    <3> QED
      BY <3>1, <3>2
  <2>5. \A x : Occurs(s, x) <=> \E j \in 1 .. k : item(j) = x
    BY <2>2 DEF Occurs
  <2>6. Shares(s, Len(lens), k)
    BY <2>1, <2>4 DEF Shares, n
  <2>8. Near(lens, s, D)
    <3>1. \A j \in 1 .. k : item(j) \in 1 .. n /\ Total(lens, s[j]) = lens[item(j)]
      <4> TAKE j \in 1 .. k
      <4>1. s[j] \in Seq(1 .. Len(lens)) /\ Len(s[j]) = 1 /\ s[j][1] = item(j)
        BY <2>1, <2>2 DEF n
      <4>2. Total(lens, s[j]) = lens[s[j][1]]
        BY <4>1, TotalType
      <4>3. s[j][1] \in 1 .. n
        BY <4>1 DEF n
      <4> QED
        BY <4>1, <4>2, <4>3
    <3>2. \A i, j \in 1 .. k : lens[item(i)] - lens[item(j)] <= D
      BY <3>1 DEF n
    <3> QED
      BY <2>2, <3>1, <3>2 DEF Near
  <2>7. /\ StateOK(lens, Decreasing(lens, s), k, TRUE, D)
        /\ \A x : Occurs(Decreasing(lens, s), x) <=> Occurs(s, x)
    BY <2>4, <2>6, <2>8, DecreasingState
  <2> QED
    BY <2>5, <2>7 DEF s, item
<1> DEFINE g(o) == Decreasing(lens, block(o))
<1>5. StartStates(lens, k, TRUE) = {g(o) : o \in 0 .. q - 1}
  <2>1. n \div k = q
    <3>1. q * k + 0 = q * k /\ 0 \in 0 .. k - 1 /\ q \in Nat
      <4>1. q * k \in Nat
        BY Product
      <4> QED
        BY <4>1
    <3> QED
      BY <1>1, <3>1, PlaceOf
  <2> QED
    BY <1>2, <2>1 DEF StartStates, order
<1> HIDE DEF block
<1>6. StartStates(lens, k, TRUE) = {f[i] : i \in 1 .. q}
  <2>1. \A o \in 0 .. q - 1 : o + 1 \in 1 .. q /\ f[o + 1] = g(o)
    OBVIOUS
  <2>2. \A i \in 1 .. q : i - 1 \in 0 .. q - 1 /\ f[i] = g(i - 1)
    OBVIOUS
  <2> HIDE DEF f, g
  <2> QED
    BY <1>5, <2>1, <2>2
<1>7. \A i \in 1 .. q : /\ i - 1 \in 0 .. q - 1 /\ StateOK(lens, f[i], k, TRUE, D)
                        /\ \A x : Occurs(f[i], x) <=> \E j \in 1 .. k : order[(i - 1) * k + j] = x
  <2> TAKE i \in 1 .. q
  <2>1. i - 1 \in 0 .. q - 1 /\ f[i] = Decreasing(lens, block(i - 1))
    OBVIOUS
  <2> QED
    BY <1>4, <2>1
<1>8. f = [i \in 1 .. q |-> f[i]]
  OBVIOUS
<1> HIDE DEF f
<1>9. \A i \in 1 .. q : \E x : Occurs(f[i], x)
  <2>1. 1 \in 1 .. k
    OBVIOUS
  <2> QED
    BY <1>7, <2>1
<1>10. \A i, j \in 1 .. q : i # j => \A x : ~ (Occurs(f[i], x) /\ Occurs(f[j], x))
  <2> SUFFICES ASSUME NEW i \in 1 .. q, NEW j \in 1 .. q, i # j, NEW x, Occurs(f[i], x), Occurs(f[j], x)
               PROVE  FALSE
    OBVIOUS
  <2>1. PICK a \in 1 .. k : order[(i - 1) * k + a] = x
    BY <1>7
  <2>2. PICK b \in 1 .. k : order[(j - 1) * k + b] = x
    BY <1>7
  <2>3. i - 1 \in 0 .. q - 1 /\ j - 1 \in 0 .. q - 1 /\ i - 1 # j - 1
    OBVIOUS
  <2> DEFINE u == i - 1
             v == j - 1
  <2> HIDE DEF u, v
  <2>4. u \in 0 .. q - 1 /\ v \in 0 .. q - 1 /\ u # v /\ order[u * k + a] = x /\ order[v * k + b] = x
    BY <2>1, <2>2, <2>3 DEF u, v
  <2>5. u * k + a \in 1 .. n /\ v * k + b \in 1 .. n
    BY <1>3, <2>4
  <2>6. u * k + a = v * k + b
    BY <1>2, <2>4, <2>5
  <2> QED
    BY <1>3, <2>4, <2>6
<1>11. \A x \in 1 .. Len(lens) : \E i \in 1 .. q : Occurs(f[i], x)
  <2> TAKE x \in 1 .. Len(lens)
  <2>1. PICK p \in 1 .. n : order[p] = x
    BY <1>2 DEF n
  <2>2. PICK o \in 0 .. q - 1, j \in 1 .. k : p = o * k + j
    BY <1>3
  <2>3. o + 1 \in 1 .. q /\ (o + 1) - 1 = o
    OBVIOUS
  <2>4. order[((o + 1) - 1) * k + j] = x
    BY <2>1, <2>2, <2>3
  <2> QED
    BY <1>7, <2>3, <2>4
<1>12. Starts(lens, f, q, k, TRUE, D)
  BY <1>7, <1>8, <1>9, <1>10, <1>11 DEF Starts
<1> QED
  BY <1>6, <1>12, StartsHeap

-----------------------------------------------------------------------------
(* get_seqlen_balanced_partitions. *)

\* The elements of a sequence without repetition, in increasing order.
LEMMA InOrderOf ==
  ASSUME NEW n, NEW w \in Seq(1 .. n), Distinct(w)
  PROVE  /\ InOrder(ToSet(w)) \in Seq(1 .. n) /\ Len(InOrder(ToSet(w))) = Len(w)
         /\ Distinct(InOrder(ToSet(w)))
         /\ \A x : (\E a \in 1 .. Len(w) : w[a] = x)
                     <=> \E a \in 1 .. Len(w) : InOrder(ToSet(w))[a] = x
<1> DEFINE S == ToSet(w)
           m == Len(w)
           f == InOrder(S)
<1>1. m \in Nat /\ DOMAIN w = 1 .. m /\ w \in [1 .. m -> 1 .. n]
  <2> DEFINE T == 1 .. n
  <2>1. w \in Seq(T)
    OBVIOUS
  <2> HIDE DEF T
  <2>2. Len(w) \in Nat /\ DOMAIN w = 1 .. Len(w) /\ w \in [1 .. Len(w) -> T]
    BY <2>1
  <2> QED
    BY <2>2 DEF T
<1>2. S \subseteq 1 .. n /\ \A x : x \in S <=> \E a \in 1 .. m : w[a] = x
  BY <1>1 DEF ToSet
<1> HIDE DEF S, m
<1>3. w \in Bijection(1 .. m, S)
  <2>1. w \in [1 .. m -> S]
    BY <1>1, <1>2
  <2>2. \A p, q \in 1 .. m : w[p] = w[q] => p = q
    BY DEF Distinct, m
  <2> QED
    BY <1>2, <2>1, <2>2 DEF Bijection, Injection, Surjection, IsInjective
<1>4. IsFiniteSet(S) /\ Cardinality(S) = m
  <2>1. 1 \in Int /\ m \in Int
    BY <1>1
  <2>2. IsFiniteSet(1 .. m) /\ Cardinality(1 .. m) = IF 1 > m THEN 0 ELSE m - 1 + 1
    BY <2>1, FS_Interval
  <2>3. ExistsBijection(1 .. m, S)
    BY <1>3 DEF ExistsBijection
  <2>4. IsFiniteSet(S) /\ Cardinality(S) = Cardinality(1 .. m)
    BY <2>2, <2>3, FS_Bijection
  <2> QED
    BY <1>1, <2>2, <2>4
<1>5. f \in Bijection(1 .. m, S)
  <2>1. S \subseteq Int
    BY <1>2
  <2> QED
    BY <1>4, <2>1, InOrderBijection
<1>6. Len(f) = m /\ f \in Seq(1 .. n)
  <2>1. f \in [1 .. m -> S]
    BY <1>5 DEF Bijection, Injection
  <2>2. f \in [1 .. m -> 1 .. n]
    <3> DEFINE T == 1 .. n
    <3>1. S \subseteq T
      BY <1>2
    <3> HIDE DEF T
    <3>2. f \in [1 .. m -> T]
      BY <2>1, <3>1
    <3> QED
      BY <3>2 DEF T
  <2> DEFINE T == 1 .. n
  <2> HIDE DEF f, T
  <2>3. f \in [1 .. m -> T]
    BY <2>2 DEF T
  <2>4. Len(f) = m /\ f \in Seq(T)
    BY <1>1, <2>3
  <2> QED
    BY <2>4 DEF T
<1> HIDE DEF f
<1>7. /\ \A p, q \in 1 .. m : f[p] = f[q] => p = q
      /\ \A x : x \in S <=> \E a \in 1 .. m : f[a] = x
  BY <1>5 DEF Bijection, Injection, Surjection, IsInjective
<1> QED
  BY <1>2, <1>6, <1>7 DEF Distinct, f, S, m

\* What check_and_sort_partitions asserts of the partitions: each of n items
\* is in one of k partitions, and none of these is empty.
Covers(parts, n, k) ==
  /\ Shares(parts, n, k) /\ \A x \in 1 .. n : Occurs(parts, x)
  /\ \A j \in 1 .. k : parts[j] # <<>>

\* No set of the last state is empty if there are as many items as sets.
LEMMA LastStateFull ==
  ASSUME NEW lens \in Lengths, NEW k \in Nat, NEW eq, NEW D, NEW s, StateOK(lens, s, k, eq, D),
         \A x \in 1 .. Len(lens) : Occurs(s, x), k <= Len(lens)
  PROVE  \A j \in 1 .. k : Len(s[j]) # 0
<1> DEFINE n == Len(lens)
<1> SUFFICES ASSUME NEW j \in 1 .. k, Len(s[j]) = 0 PROVE FALSE
  OBVIOUS
<1>1. /\ n \in Nat /\ Len(s) = k /\ \A i \in 1 .. k : s[i] \in Seq(1 .. n) /\ Len(s[i]) <= 1
  <2>1. n \in Nat
    BY DEF Lengths
  <2>2. s \in Seq(Seq(1 .. n)) /\ Len(s) = k /\ Sparing(s)
    BY DEF StateOK, Shares
  <2>3. \A i \in 1 .. k : s[i] \in Seq(1 .. n)
    BY <2>2
  <2>4. \A i \in 1 .. k : Len(s[i]) <= 1
    BY <2>2 DEF Sparing
  <2> QED
    BY <2>1, <2>2, <2>3, <2>4
<1> DEFINE T == (1 .. k) \ {j}
           chosen(x) == CHOOSE i \in T : \E a \in 1 .. Len(s[i]) : s[i][a] = x
           at == [x \in 1 .. n |-> chosen(x)]
<1>2. \A x \in 1 .. n : at[x] \in T /\ \E a \in 1 .. Len(s[at[x]]) : s[at[x]][a] = x
  <2> TAKE x \in 1 .. n
  <2>1. \E i \in T : \E a \in 1 .. Len(s[i]) : s[i][a] = x
    BY <1>1 DEF Occurs
  <2>2. chosen(x) \in T /\ \E a \in 1 .. Len(s[chosen(x)]) : s[chosen(x)][a] = x
    BY <2>1
  <2> HIDE DEF chosen
  <2> QED
    BY <2>2
<1> HIDE DEF chosen
<1>3. at = [x \in 1 .. n |-> at[x]]
  OBVIOUS
<1> HIDE DEF at
<1>4. at \in Injection(1 .. n, T)
  <2>1. at \in [1 .. n -> T]
    BY <1>2, <1>3
  <2>2. ASSUME NEW x \in 1 .. n, NEW y \in 1 .. n, at[x] = at[y] PROVE x = y
    <3>1. PICK a \in 1 .. Len(s[at[x]]) : s[at[x]][a] = x
      BY <1>2
    <3>2. PICK b \in 1 .. Len(s[at[x]]) : s[at[x]][b] = y
      BY <1>2, <2>2
    <3>3. Len(s[at[x]]) \in Nat /\ Len(s[at[x]]) <= 1
      BY <1>1, <1>2
    <3>4. a = 1 /\ b = 1
      BY <3>1, <3>2, <3>3
    <3> QED
      BY <3>1, <3>2, <3>4
  <2> QED
    BY <2>1, <2>2 DEF Injection, IsInjective
<1> HIDE DEF n
<1>5. IsFiniteSet(T) /\ Cardinality(T) = k - 1
  <2>1. 1 \in Int /\ k \in Int
    OBVIOUS
  <2>2. IsFiniteSet(1 .. k) /\ Cardinality(1 .. k) = k
    BY <2>1, FS_Interval
  <2> QED
    BY <2>2, FS_RemoveElement
<1>6. Cardinality(1 .. n) = n
  <2>1. 1 \in Int /\ n \in Int
    BY <1>1
  <2> QED
    BY <1>1, <2>1, FS_Interval
<1>7. Cardinality(1 .. n) <= Cardinality(T)
  BY <1>4, <1>5, FS_Injection
<1>8. n <= k - 1 /\ k <= n
  BY <1>5, <1>6, <1>7 DEF n
<1> QED
  BY <1>1, <1>8

\* Sorting the items of each set changes neither the sets nor their sizes.
SameSets(parts, s, k) ==
  \A j \in 1 .. k : /\ Len(parts[j]) = Len(s[j])
                    /\ \A x : (\E a \in 1 .. Len(s[j]) : s[j][a] = x)
                                <=> \E a \in 1 .. Len(parts[j]) : parts[j][a] = x

LEMMA SameSetsShare ==
  ASSUME NEW n, NEW k \in Nat, NEW s, Shares(s, n, k), NEW parts, SameSets(parts, s, k),
         parts \in Seq(Seq(1 .. n)), Len(parts) = k, \A j \in 1 .. k : Distinct(parts[j])
  PROVE  Shares(parts, n, k) /\ \A x : Occurs(parts, x) <=> Occurs(s, x)
<1> DEFINE In(part, x) == \E a \in 1 .. Len(part) : part[a] = x
<1>1. Len(s) = k /\ Separate(s)
  BY DEF Shares
<1>2. \A j \in 1 .. k : \A x : In(s[j], x) <=> In(parts[j], x)
  BY DEF SameSets
<1>3. \A x : /\ Occurs(parts, x) <=> \E j \in 1 .. k : In(parts[j], x)
             /\ Occurs(s, x) <=> \E j \in 1 .. k : In(s[j], x)
  BY <1>1 DEF Occurs
<1>4. \A i, j \in 1 .. k : i # j =>
        \A a \in 1 .. Len(parts[i]), b \in 1 .. Len(parts[j]) : parts[i][a] # parts[j][b]
  <2> SUFFICES ASSUME NEW i \in 1 .. k, NEW j \in 1 .. k, i # j,
                      NEW a \in 1 .. Len(parts[i]), NEW b \in 1 .. Len(parts[j]),
                      parts[i][a] = parts[j][b]
               PROVE  FALSE
    OBVIOUS
  <2> DEFINE x == parts[i][a]
  <2>1. In(parts[i], x) /\ In(parts[j], x)
    OBVIOUS
  <2>2. In(s[i], x) /\ In(s[j], x)
    BY <1>2, <2>1, ZenonT(30)
  <2>3. PICK c \in 1 .. Len(s[i]) : s[i][c] = x
    BY <2>2
  <2>4. PICK d \in 1 .. Len(s[j]) : s[j][d] = x
    BY <2>2
  <2> QED
    BY <1>1, <2>3, <2>4 DEF Separate
<1>5. Separate(parts)
  BY <1>4 DEF Separate
<1> HIDE DEF In
<1> QED
  BY <1>2, <1>3, <1>5 DEF Shares

\* How far apart the totals of two items may be, with a missing item as 0.
LengthsWithin(lens, equalSize, D) ==
  IF equalSize THEN \A i, j \in 1 .. Len(lens) : lens[i] - lens[j] <= D
               ELSE \A i \in 1 .. Len(lens) : lens[i] <= D

(* The partitions of get_seqlen_balanced_partitions (seqlen_balancing.py)  *)
(* are what check_and_sort_partitions asserts: k of them, none empty, and  *)
(* every index of the list in exactly one; of equal size if that is asked  *)
(* for, which needs a number of items that k divides.                      *)
THEOREM PartitionsCover ==
  ASSUME NEW lens \in Lengths, NEW k \in Nat \ {0}, k <= Len(lens), NEW equalSize \in BOOLEAN,
         equalSize => Len(lens) % k = 0, NEW D \in Nat, LengthsWithin(lens, equalSize, D)
  PROVE  /\ Covers(BalancedPartitions(lens, k, equalSize), Len(lens), k)
         /\ Near(lens, BalancedPartitions(lens, k, equalSize), D)
         /\ equalSize => Level(BalancedPartitions(lens, k, equalSize))
<1> DEFINE n == Len(lens)
           s == KarmarkarKarp(lens, k, equalSize)
           parts == BalancedPartitions(lens, k, equalSize)
<1>1. n \in Nat \ {0} /\ k \in Nat
  BY DEF Lengths
<1>2. /\ HeapOK(lens, StartStates(lens, k, equalSize), k, equalSize, D)
      /\ StartStates(lens, k, equalSize) # {}
  <2>1. CASE equalSize = FALSE
    <3>1. Len(lens) # 0
      BY <1>1
    <3> QED
      BY <2>1, <3>1, StartUnequal DEF LengthsWithin
  <2>2. CASE equalSize = TRUE
    <3> DEFINE q == n \div k
    <3>1. n = q * k + (n % k) /\ q \in Nat /\ n % k = 0
      <4> HIDE DEF n
      <4>1. n % k = 0
        BY <2>2 DEF n
      <4> QED
        BY <1>1, <4>1, DivMod
    <3> HIDE DEF q, n
    <3>2. q * k \in Nat
      BY <3>1, Product
    <3>3. n = q * k
      BY <3>1, <3>2
    <3>4. q # 0
      BY <1>1, <3>3
    <3>5. Len(lens) = q * k /\ q \in Nat \ {0}
      BY <3>1, <3>3, <3>4 DEF n
    <3> QED
      BY <2>2, <3>5, StartEqual DEF LengthsWithin
  <2> QED
    BY <2>1, <2>2
<1>3. StateOK(lens, s, k, equalSize, D) /\ \A x \in 1 .. n : Occurs(s, x)
  BY <1>2, KarmarkarKarpState
<1>4. parts = [j \in 1 .. Len(s) |-> InOrder(ToSet(s[j]))]
  BY DEF BalancedPartitions
<1> HIDE DEF s, parts
<1>5. Shares(s, n, k) /\ Len(s) = k /\ Separate(s) /\ \A j \in 1 .. k : s[j] \in Seq(1 .. n)
  BY <1>3 DEF StateOK, Shares
<1>6. ASSUME NEW j \in 1 .. k
      PROVE  /\ parts[j] \in Seq(1 .. n) /\ Len(parts[j]) = Len(s[j]) /\ Distinct(parts[j])
             /\ \A x : (\E a \in 1 .. Len(s[j]) : s[j][a] = x)
                         <=> \E a \in 1 .. Len(parts[j]) : parts[j][a] = x
  <2>1. parts[j] = InOrder(ToSet(s[j]))
    BY <1>4, <1>5
  <2>2. s[j] \in Seq(1 .. n) /\ Distinct(s[j])
    BY <1>5 DEF Separate
  <2> HIDE DEF n
  <2> DEFINE w == s[j]
             v == InOrder(ToSet(w))
  <2>3. w \in Seq(1 .. n) /\ Distinct(w) /\ parts[j] = v
    BY <2>1, <2>2
  <2> HIDE DEF w
  <2>4. /\ v \in Seq(1 .. n) /\ Len(v) = Len(w) /\ Distinct(v)
        /\ \A x : (\E a \in 1 .. Len(w) : w[a] = x) <=> \E a \in 1 .. Len(w) : v[a] = x
    BY <2>3, InOrderOf
  <2> HIDE DEF v
  <2> QED
    BY <2>3, <2>4, Zenon DEF w
<1>7. parts \in Seq(Seq(1 .. n)) /\ Len(parts) = k
  <2> DEFINE T == Seq(1 .. n)
  <2>1. parts = [j \in 1 .. k |-> InOrder(ToSet(s[j]))]
    BY <1>4, <1>5
  <2>2. \A j \in 1 .. k : parts[j] \in T
    BY <1>6
  <2> HIDE DEF T
  <2>3. parts \in [1 .. k -> T]
    <3>1. \A j \in 1 .. k : InOrder(ToSet(s[j])) \in T
      BY <2>1, <2>2
    <3> QED
      BY <2>1, <3>1, Zenon
  <2>4. parts \in Seq(T) /\ Len(parts) = k
    BY <2>3
  <2> QED
    BY <2>4 DEF T
<1>8. SameSets(parts, s, k)
  BY <1>6 DEF SameSets
<1>9. Shares(parts, n, k) /\ \A x : Occurs(parts, x) <=> Occurs(s, x)
  BY <1>1, <1>5, <1>6, <1>7, <1>8, SameSetsShare
<1>10. \A j \in 1 .. k : parts[j] # <<>>
  <2>1. \A j \in 1 .. k : Len(s[j]) # 0
    BY <1>3, LastStateFull
  <2>2. \A j \in 1 .. k : Len(parts[j]) # 0
    BY <1>6, <2>1
  <2> QED
    BY <2>2
<1>11. Covers(parts, n, k)
  BY <1>3, <1>9, <1>10 DEF Covers
<1>12. equalSize => Level(parts)
  BY <1>3, <1>5, <1>6, <1>7 DEF StateOK, Level
<1>13. Near(lens, parts, D)
  <2>1. \A j \in 1 .. k : Total(lens, parts[j]) = Total(lens, s[j])
    <3> TAKE j \in 1 .. k
    <3>1. s[j] \in Seq(1 .. n) /\ Distinct(s[j])
      BY <1>5 DEF Separate
    <3>2. SameItems(parts[j], s[j], n)
      <4>1. \A x : (\E a \in 1 .. Len(s[j]) : s[j][a] = x)
                   <=> \E a \in 1 .. Len(parts[j]) : parts[j][a] = x
        BY <1>6
      <4>2. parts[j] \in Seq(1 .. n) /\ Distinct(parts[j])
        BY <1>6
      <4> QED
        BY <3>1, <4>1, <4>2, Zenon DEF SameItems
    <3>3. \A u, w : SameItems(u, w, n) => Total(lens, u) = Total(lens, w)
      BY SameTotal
    <3> QED
      BY <3>2, <3>3, Zenon
  <2>2. Near(lens, s, D)
    BY <1>3 DEF StateOK
  <2> QED
    BY <1>5, <1>7, <2>1, <2>2 DEF Near
<1> QED
  BY <1>11, <1>12, <1>13 DEF parts

\* Some number bounds the lengths.
LEMMA LengthsBounded ==
  ASSUME NEW lens \in Lengths
  PROVE  \E D \in Nat : \A i \in 1 .. Len(lens) : lens[i] <= D
<1> DEFINE n == Len(lens)
           Bounded(m) == m <= n => \E D \in Nat : \A i \in 1 .. m : lens[i] <= D
           S == {m \in Nat : Bounded(m)}
<1>1. n \in Nat /\ \A i \in 1 .. n : lens[i] \in Nat
  BY DEF Lengths
<1> HIDE DEF n
<1>2. 0 \in S
  OBVIOUS
<1>3. ASSUME NEW m \in S PROVE m + 1 \in S
  <2>1. m \in Nat /\ m + 1 \in Nat /\ Bounded(m)
    OBVIOUS
  <2> SUFFICES ASSUME m + 1 <= n
               PROVE  \E D \in Nat : \A i \in 1 .. m + 1 : lens[i] <= D
    BY <2>1
  <2>2. PICK D \in Nat : \A i \in 1 .. m : lens[i] <= D
    BY <1>1, <2>1
  <2> DEFINE E == IF lens[m + 1] <= D THEN D ELSE lens[m + 1]
  <2>3. lens[m + 1] \in Nat
    BY <1>1, <2>1
  <2>4. E \in Nat /\ D <= E /\ lens[m + 1] <= E
    BY <2>3
  <2> HIDE DEF E
  <2>5. \A i \in 1 .. m + 1 : lens[i] <= E
    <3> TAKE i \in 1 .. m + 1
    <3>1. CASE i = m + 1
      BY <2>4, <3>1
    <3>2. CASE i # m + 1
      <4>1. i \in 1 .. m /\ i \in 1 .. n
        BY <1>1, <2>1, <3>2
      <4>2. lens[i] \in Nat /\ lens[i] <= D
        BY <1>1, <2>2, <4>1
      <4> QED
        BY <2>4, <4>2
    <3> QED
      BY <3>1, <3>2
  <2> QED
    BY <2>4, <2>5
<1>4. \A m \in Nat : m \in S
  <2> HIDE DEF S
  <2>1. \A m \in S : m + 1 \in S
    BY <1>3
  <2> QED
    BY <1>2, <2>1, SetInduction
<1>5. n \in S
  BY <1>1, <1>4
<1> QED
  BY <1>1, <1>5 DEF n

\* rearrange_micro_batches with any count up to the number of rows: that many
\* micro-batches, with at least one row in each and each row in one of them.
LEMMA MicroBatchesCover ==
  ASSUME NEW lens \in Lengths, NEW count \in Nat \ {0}, count <= Len(lens)
  PROVE  Covers(RearrangeMicroBatches(lens, count), Len(lens), count)
<1> DEFINE n == Len(lens)
           parts == BalancedPartitions(lens, count, FALSE)
           squares == [i \in 1 .. n |-> lens[i] * lens[i]]
           key(p) == << Total(squares, p), IF p = <<>> THEN 0 ELSE p[1], 0 >>
           keys == [j \in 1 .. Len(parts) |-> key(parts[j])]
           e == Descending(keys)
           s == RearrangeMicroBatches(lens, count)
<1>1. n \in Nat
  BY DEF Lengths
<1>2. Covers(parts, n, count)
  <2>1. PICK D \in Nat : \A i \in 1 .. n : lens[i] <= D
    BY LengthsBounded
  <2>2. LengthsWithin(lens, FALSE, D)
    BY <2>1 DEF LengthsWithin
  <2> QED
    BY <2>2, PartitionsCover
<1>3. s = Reorder(parts, e)
  BY DEF RearrangeMicroBatches
<1> HIDE DEF parts, s
<1>4. /\ Shares(parts, n, count) /\ Len(parts) = count
      /\ \A j \in 1 .. count : parts[j] \in Seq(1 .. n) /\ parts[j] # <<>>
  BY <1>2 DEF Covers, Shares
<1>5. squares \in Lengths /\ Len(squares) = n
  <2>1. \A i \in 1 .. n : lens[i] * lens[i] \in Nat \ {0}
    <3> TAKE i \in 1 .. n
    <3>1. lens[i] \in Nat \ {0}
      BY DEF Lengths
    <3> DEFINE a == lens[i]
    <3> HIDE DEF a
    <3>2. a \in Nat \ {0}
      BY <3>1 DEF a
    <3>3. a * a \in Nat \ {0}
      BY <3>2
    <3> QED
      BY <3>3 DEF a
  <2> DEFINE T == Nat \ {0}
  <2> HIDE DEF n
  <2>2. squares \in [1 .. n -> T]
    BY <2>1, Zenon
  <2> HIDE DEF T, squares
  <2>3. squares \in Seq(T) /\ Len(squares) = n
    BY <1>1, <2>2
  <2> QED
    BY <2>3 DEF T, Lengths
<1>6. \A j \in 1 .. count : key(parts[j]) \in Keys
  <2> TAKE j \in 1 .. count
  <2>1. parts[j] \in Seq(1 .. Len(squares)) /\ parts[j][1] \in Int
    BY <1>4, <1>5
  <2> HIDE DEF squares
  <2>2. Total(squares, parts[j]) \in Int
    BY <1>5, <2>1, TotalType
  <2> QED
    BY <2>1, <2>2 DEF Keys
<1> HIDE DEF key
<1>7. keys \in Seq(Keys) /\ Len(keys) = count
  BY <1>4, <1>6
<1> HIDE DEF keys
<1>8. Permutes(e, count)
  BY <1>7, DescendingPermutes
<1> HIDE DEF e, n
<1>9. Len(e) = count /\ \A i \in 1 .. count : e[i] \in 1 .. count
  BY <1>8 DEF Permutes, Bijection, Injection
<1>10. Rearranged(s, parts, e)
  BY <1>3, <1>4, <1>9 DEF Reorder, Rearranged
<1>11. /\ Shares(s, n, count) /\ \A i \in 1 .. count : s[i] = parts[e[i]] /\ e[i] \in 1 .. count
       /\ \A x : Occurs(s, x) <=> Occurs(parts, x)
  <2>1. \A t, u, f : Shares(t, n, count) /\ Permutes(f, count) /\ Rearranged(u, t, f)
          => /\ Shares(u, n, count) /\ \A i \in 1 .. count : u[i] = t[f[i]] /\ f[i] \in 1 .. count
             /\ \A x : Occurs(u, x) <=> Occurs(t, x)
    BY RearrangedShares
  <2> QED
    BY <1>4, <1>8, <1>10, <2>1, Zenon
<1>12. Covers(s, n, count)
  BY <1>2, <1>4, <1>11 DEF Covers
<1> QED
  BY <1>12 DEF s, n

\* Each row is once in the concatenated micro-batches.
LEMMA CoversPermutes ==
  ASSUME NEW n \in Nat, NEW k, NEW parts, Covers(parts, n, k)
  PROVE  /\ Permutes(FlattenSeq(parts), n) /\ Len(FlattenSeq(parts)) = n
         /\ \A p \in 1 .. n : FlattenSeq(parts)[p] \in 1 .. n
<1>1. Permutes(FlattenSeq(parts), n) /\ Len(FlattenSeq(parts)) = n
  BY GatheredPermutes DEF Covers, Shares
<1> QED
  BY <1>1 DEF Permutes, Bijection, Injection

\* What is computed for the rows in the order of the micro-batches.
ComputedFor(data, parts, f, n) ==
  Len(data) = n /\ \A p \in 1 .. n : data[p] = f[FlattenSeq(parts)[p]]

(* restore_dynamic_batch puts what was computed in the order of the        *)
(* micro-batches back into the order of the rows.                          *)
THEOREM RestoredInOrder ==
  ASSUME NEW n \in Nat, NEW k, NEW parts, Covers(parts, n, k),
         NEW data, NEW f, ComputedFor(data, parts, f, n)
  PROVE  RestoreDynamicBatch(data, parts) = [i \in 1 .. n |-> f[i]]
<1> DEFINE w == FlattenSeq(parts)
           revert == ReverseIdx(w)
<1>1. Permutes(w, n) /\ Len(w) = n
  BY CoversPermutes
<1>2. RestoreDynamicBatch(data, parts) = [i \in 1 .. n |-> data[revert[i]]]
  BY DEF RestoreDynamicBatch, ComputedFor
<1>3. \A p \in 1 .. n : data[p] = f[w[p]]
  BY DEF ComputedFor
<1> HIDE DEF w
<1>4. \A i \in 1 .. n : revert[i] \in 1 .. n /\ w[revert[i]] = i
  <2> TAKE i \in 1 .. n
  <2>1. revert[i] = CHOOSE j \in 1 .. n : w[j] = i
    BY <1>1 DEF ReverseIdx
  <2>2. \E j \in 1 .. n : w[j] = i
    BY <1>1 DEF Permutes, Bijection, Surjection
  <2> QED
    BY <2>1, <2>2
<1> HIDE DEF revert
<1>5. \A i \in 1 .. n : data[revert[i]] = f[i]
  BY <1>3, <1>4
<1> QED
  BY <1>2, <1>5

-----------------------------------------------------------------------------
(* Counts of micro-batches. *)

LEMMA MaxWithin ==
  ASSUME NEW m \in Nat, NEW S, S \subseteq 1 .. m, S # {}
  PROVE  Max(S) \in S
<1> DEFINE R == {p \in S \X S : p[1] > p[2]}
<1>1. IsFiniteSet(S)
  <2>1. 1 \in Int /\ m \in Int
    OBVIOUS
  <2>2. IsFiniteSet(1 .. m)
    BY <2>1, FS_Interval
  <2> QED
    BY <2>2, FS_Subset
<1>2. \A x, y \in S : <<x, y>> \in R <=> x > y
  OBVIOUS
<1>3. \A x \in S : x \in Nat
  OBVIOUS
<1> HIDE DEF R
<1>4. Precedes(R, S)
  BY <1>2, <1>3 DEF Precedes
<1>5. PICK x \in S : \A y \in S : <<y, x>> \notin R
  BY <1>1, <1>4, HasFirst
<1>6. \A y \in S : x >= y
  <2> TAKE y \in S
  <2>1. ~ (y > x)
    BY <1>2, <1>5
  <2>2. x \in Nat /\ y \in Nat
    BY <1>3
  <2> QED
    BY <2>1, <2>2
<1> QED
  BY <1>6 DEF Max

LEMMA MinOfTwo ==
  ASSUME NEW a \in Nat, NEW b \in Nat
  PROVE  Min({a, b}) = IF a <= b THEN a ELSE b
<1> DEFINE c == IF a <= b THEN a ELSE b
<1>1. \A x \in {a, b} : (\A y \in {a, b} : x <= y) <=> x = c
  OBVIOUS
<1>2. c \in {a, b}
  OBVIOUS
<1> HIDE DEF c
<1>3. (CHOOSE x \in {a, b} : \A y \in {a, b} : x <= y) = c
  BY <1>1, <1>2
<1> QED
  BY <1>3 DEF Min, c

LEMMA PositionsType ==
  ASSUME NEW n \in Nat
  PROVE  Positions(n) \in Seq(1 .. n) /\ Len(Positions(n)) = n
<1>1. Positions(n) \in [1 .. n -> 1 .. n]
  BY DEF Positions
<1> DEFINE w == Positions(n)
           T == 1 .. n
<1> HIDE DEF w
<1>2. w \in [1 .. n -> T]
  BY <1>1 DEF w
<1> HIDE DEF T
<1>3. w \in Seq(T) /\ Len(w) = n
  BY <1>2
<1> QED
  BY <1>3 DEF w, T

\* The micro-batches a rank asks for: at least one, at most one for each row.
LEMMA CountWithin ==
  ASSUME NEW lens \in Lengths, lens # <<>>, NEW limit \in Nat \ {0}
  PROVE  MicroBatchCount(lens, limit) \in 1 .. Len(lens)
<1> DEFINE n == Len(lens)
           t == Total(lens, Positions(n))
           q == (t + limit - 1) \div limit
<1>1. n \in Nat \ {0}
  BY DEF Lengths
<1>2. t \in Nat \ {0}
  <2>1. Positions(n) \in Seq(1 .. Len(lens)) /\ Len(Positions(n)) = n
    BY <1>1, PositionsType
  <2>2. Total(lens, Positions(n)) \in Nat /\ Total(lens, Positions(n)) > 0
    <3> DEFINE w == Positions(n)
    <3>1. w \in Seq(1 .. Len(lens)) /\ Len(w) > 0
      BY <1>1, <2>1
    <3> HIDE DEF w
    <3>2. Total(lens, w) \in Nat /\ Total(lens, w) > 0
      BY <3>1, TotalType
    <3> QED
      BY <3>2 DEF w
  <2> QED
    BY <2>2
<1> HIDE DEF t
<1>3. q \in Nat \ {0}
  <2> DEFINE x == t + limit - 1
  <2>1. x \in Nat /\ x >= limit
    BY <1>2
  <2> HIDE DEF x
  <2>2. x = (x \div limit) * limit + (x % limit) /\ x \div limit \in Nat /\ x % limit \in 0 .. limit - 1
    BY <2>1, DivMod
  <2>3. x \div limit # 0
    <3> SUFFICES ASSUME x \div limit = 0 PROVE FALSE
      OBVIOUS
    <3>1. x = x % limit
      BY <2>2
    <3> QED
      BY <2>1, <2>2, <3>1
  <2> QED
    BY <2>2, <2>3 DEF x
<1>4. MicroBatchCount(lens, limit) = Min({n, q})
  BY DEF MicroBatchCount, CeilDiv, t
<1> HIDE DEF n, q
<1>5. Min({n, q}) = IF n <= q THEN n ELSE q
  BY <1>1, <1>3, MinOfTwo
<1>6. (IF n <= q THEN n ELSE q) \in 1 .. n
  BY <1>1, <1>3
<1> QED
  BY <1>4, <1>5, <1>6 DEF n

\* The count ranks with m rows each agree on.
LEMMA AgreedWithin ==
  ASSUME NEW rankLens, DOMAIN rankLens # {}, NEW m \in Nat \ {0}, NEW limit \in Nat \ {0},
         \A r \in DOMAIN rankLens : rankLens[r] \in Lengths /\ Len(rankLens[r]) = m
  PROVE  AgreedCount(rankLens, limit) \in 1 .. m
<1> DEFINE S == {MicroBatchCount(rankLens[r], limit) : r \in DOMAIN rankLens}
<1>1. S \subseteq 1 .. m
  <2> SUFFICES ASSUME NEW r \in DOMAIN rankLens
               PROVE  MicroBatchCount(rankLens[r], limit) \in 1 .. m
    OBVIOUS
  <2> DEFINE l == rankLens[r]
  <2>1. l \in Lengths /\ l # <<>> /\ Len(l) = m
    <3>1. Len(<<>>) = 0
      OBVIOUS
    <3> QED
      BY <3>1
  <2> HIDE DEF l
  <2>2. MicroBatchCount(l, limit) \in 1 .. m
    BY <2>1, CountWithin
  <2> QED
    BY <2>2 DEF l
<1>2. S # {}
  OBVIOUS
<1> HIDE DEF S
<1>3. Max(S) \in S
  BY <1>1, <1>2, MaxWithin
<1>4. Max(S) \in 1 .. m
  BY <1>1, <1>3
<1> QED
  BY <1>4 DEF AgreedCount, S

-----------------------------------------------------------------------------
(* DataProto.split. *)

\* The number of parts of n rows, and the last row of the p-th of them.
PartCount(n, size) == (n + size - 1) \div size
PartEnd(p, size, n) == IF p * size <= n THEN p * size ELSE n

LEMMA PartEnds ==
  ASSUME NEW n \in Nat, NEW size \in Nat \ {0}
  PROVE  /\ PartCount(n, size) \in Nat /\ (n = 0 => PartCount(n, size) = 0)
         /\ n # 0 => PartCount(n, size) # 0 /\ PartEnd(PartCount(n, size), size, n) = n
         /\ \A p \in 1 .. PartCount(n, size) :
              /\ (p - 1) * size \in Nat /\ (p - 1) * size < n
              /\ PartEnd(p, size, n) \in (p - 1) * size + 1 .. n
              /\ PartEnd(p, size, n) - (p - 1) * size \in 1 .. size
         /\ \A p \in 1 .. PartCount(n, size) - 1 : PartEnd(p, size, n) = p * size
<1> DEFINE x == n + size - 1
           k == PartCount(n, size)
           r == x % size
<1>1. k \in Nat /\ x = k * size + r /\ r \in 0 .. size - 1
  <2>1. x \in Nat
    OBVIOUS
  <2> HIDE DEF x
  <2>2. x = (x \div size) * size + (x % size) /\ x \div size \in Nat /\ x % size \in 0 .. size - 1
    BY <2>1, DivMod
  <2>3. k = x \div size
    BY DEF PartCount, x
  <2> HIDE DEF k
  <2> QED
    BY <2>2, <2>3
<1> HIDE DEF k, r
<1> DEFINE e == k * size
<1>2. e \in Nat /\ e + r = n + size - 1 /\ e >= n /\ e - size < n /\ (n = 0 => e = 0)
  <2>1. e \in Nat /\ n + size - 1 = e + r
    BY <1>1, Product
  <2> HIDE DEF e
  <2>2. e >= n /\ e - size < n
    BY <1>1, <2>1
  <2>3. n = 0 => e < size
    BY <1>1, <2>1
  <2>4. e < size => e = 0
    <3> SUFFICES ASSUME k * size < size PROVE k * size = 0
      BY DEF e
    <3>1. CASE k = 0
      BY <3>1
    <3>2. CASE k # 0
      <4>1. k - 1 \in Nat /\ k = 1 + (k - 1)
        BY <1>1, <3>2
      <4>2. k * size = size + (k - 1) * size /\ (k - 1) * size \in Nat
        BY <4>1
      <4> DEFINE d == (k - 1) * size
                 y == k * size
      <4>3. d \in Nat /\ y = size + d /\ y < size
        BY <4>2
      <4> HIDE DEF d, y
      <4> QED
        BY <4>3
    <3> QED
      BY <3>1, <3>2
  <2> QED
    BY <2>1, <2>2, <2>3, <2>4
<1>3. n = 0 => k = 0
  <2> SUFFICES ASSUME n = 0, k # 0 PROVE FALSE
    OBVIOUS
  <2>1. k * size = 0
    BY <1>2
  <2>2. 0 < k
    BY <1>1
  <2>3. 0 * size < k * size
    BY <1>1, <2>2, LessTimes
  <2> QED
    BY <2>1, <2>3
<1>4. n # 0 => k # 0 /\ PartEnd(k, size, n) = n
  <2> SUFFICES ASSUME n # 0 PROVE k # 0 /\ PartEnd(k, size, n) = n
    OBVIOUS
  <2>1. e # 0
    BY <1>2
  <2>2. k # 0
    BY <1>1, <2>1
  <2>3. PartEnd(k, size, n) = IF e <= n THEN e ELSE n
    BY DEF PartEnd
  <2> HIDE DEF e
  <2> QED
    BY <1>2, <2>2, <2>3
<1>5. ASSUME NEW p \in 1 .. k
      PROVE  /\ (p - 1) * size \in Nat /\ (p - 1) * size < n
             /\ PartEnd(p, size, n) \in (p - 1) * size + 1 .. n
             /\ PartEnd(p, size, n) - (p - 1) * size \in 1 .. size
  <2> DEFINE a == (p - 1) * size
             b == p * size
  <2>1. p \in Nat /\ p - 1 \in Nat /\ k - 1 \in Nat /\ p - 1 <= k - 1 /\ p = (p - 1) + 1 /\ k = (k - 1) + 1
    BY <1>1
  <2>2. a \in Nat /\ b = a + size /\ e = (k - 1) * size + size /\ (k - 1) * size \in Nat
    BY <2>1
  <2>3. a <= (k - 1) * size
    <3>1. CASE p - 1 = k - 1
      BY <2>2, <3>1
    <3>2. CASE p - 1 < k - 1
      BY <2>1, <2>2, <3>2, LessTimes
    <3> QED
      BY <2>1, <3>1, <3>2
  <2>4. PartEnd(p, size, n) = IF b <= n THEN b ELSE n
    BY DEF PartEnd
  <2> DEFINE d == (k - 1) * size
  <2>5. a \in Nat /\ b = a + size /\ e = d + size /\ d \in Nat /\ a <= d
    BY <2>2, <2>3
  <2> HIDE DEF a, b, d, e
  <2>6. a < n
    BY <1>2, <2>5
  <2>7. /\ PartEnd(p, size, n) \in a + 1 .. n
        /\ PartEnd(p, size, n) - a \in 1 .. size
    BY <2>4, <2>5, <2>6
  <2> QED
    BY <2>5, <2>6, <2>7 DEF a
<1>6. ASSUME NEW p \in 1 .. k - 1 PROVE PartEnd(p, size, n) = p * size
  <2>1. p + 1 \in 1 .. k /\ (p + 1) - 1 = p
    BY <1>1
  <2>2. ((p + 1) - 1) * size < n
    BY <1>5, <2>1
  <2>3. p * size < n /\ p * size \in Nat
    <3>1. p \in Nat
      OBVIOUS
    <3> QED
      BY <2>1, <2>2, <3>1, Product
  <2> DEFINE b == p * size
  <2>4. PartEnd(p, size, n) = IF b <= n THEN b ELSE n
    BY DEF PartEnd
  <2>5. b < n /\ b \in Nat
    BY <2>3
  <2> HIDE DEF b
  <2> QED
    BY <2>4, <2>5 DEF b
<1> QED
  BY <1>1, <1>3, <1>4, <1>5, <1>6 DEF k

\* The parts of a sequence: the p-th begins after p - 1 full parts.
IsSplit(parts, w, size, S) ==
  /\ parts = [p \in 1 .. Len(parts) |-> parts[p]] /\ Len(parts) = PartCount(Len(w), size)
  /\ \A p \in 1 .. Len(parts) :
       /\ parts[p] \in Seq(S)
       /\ Len(parts[p]) = PartEnd(p, size, Len(w)) - (p - 1) * size
       /\ \A a \in 1 .. Len(parts[p]) : parts[p][a] = w[(p - 1) * size + a]

LEMMA SplitType ==
  ASSUME NEW S, NEW w \in Seq(S), NEW size \in Nat \ {0}
  PROVE  IsSplit(Split(w, size), w, size, S) /\ Split(w, size) \in Seq(Seq(S))
<1> DEFINE n == Len(w)
           k == PartCount(n, size)
           part(p) == SubSeq(w, (p - 1) * size + 1, Min({p * size, n}))
           parts == Split(w, size)
           T == Seq(S)
<1>1. n \in Nat /\ k \in Nat
  <2>1. n \in Nat
    OBVIOUS
  <2> HIDE DEF n
  <2> QED
    BY <2>1, PartEnds
<1>2. parts = [p \in 1 .. k |-> part(p)]
  BY DEF Split, PartCount
<1>3. ASSUME NEW p \in 1 .. k
      PROVE  /\ part(p) \in T
             /\ Len(part(p)) = PartEnd(p, size, n) - (p - 1) * size
             /\ \A a \in 1 .. Len(part(p)) : part(p)[a] = w[(p - 1) * size + a]
  <2> DEFINE from == (p - 1) * size
             to == PartEnd(p, size, n)
  <2>1. from \in Nat /\ from < n /\ to \in from + 1 .. n
    <3> HIDE DEF n
    <3> QED
      BY <1>1, PartEnds DEF k
  <2>2. Min({p * size, n}) = to
    <3>1. p \in Nat
      BY <1>1
    <3>2. p * size \in Nat
      BY <3>1, Product
    <3> HIDE DEF n
    <3> DEFINE b == p * size
    <3>3. b \in Nat
      BY <3>2
    <3>4. to = IF b <= n THEN b ELSE n
      BY DEF PartEnd
    <3> HIDE DEF b, to
    <3> QED
      BY <1>1, <3>3, <3>4, MinOfTwo DEF b
  <2>3. part(p) = SubSeq(w, from + 1, to)
    BY <2>2
  <2> HIDE DEF from, to
  <2>4. \A i \in from + 1 .. to : w[i] \in S
    BY <2>1
  <2>5. from + 1 \in Int /\ to \in Int
    BY <1>1, <2>1
  <2>6. /\ SubSeq(w, from + 1, to) \in Seq(S)
        /\ Len(SubSeq(w, from + 1, to)) = IF from + 1 <= to THEN to - (from + 1) + 1 ELSE 0
        /\ \A i \in 1 .. to - (from + 1) + 1 : SubSeq(w, from + 1, to)[i] = w[(from + 1) + i - 1]
    BY <2>4, <2>5, SubSeqProperties
  <2>7. Len(SubSeq(w, from + 1, to)) = to - from /\ to - (from + 1) + 1 = to - from
    BY <1>1, <2>1, <2>6
  <2>8. \A a \in 1 .. to - from : (from + 1) + a - 1 = from + a
    BY <1>1, <2>1
  <2>9. \A a \in 1 .. to - from : SubSeq(w, from + 1, to)[a] = w[from + a]
    BY <2>6, <2>7, <2>8
  <2> QED
    BY <2>3, <2>6, <2>7, <2>9 DEF from, to
<1> HIDE DEF part
<1>4. Len(parts) = k /\ \A p \in 1 .. k : parts[p] = part(p)
  BY <1>1, <1>2
<1>5. parts \in [1 .. k -> T]
  <2> HIDE DEF T
  <2> QED
    BY <1>2, <1>3
<1> HIDE DEF parts
<1>6. parts \in Seq(T)
  <2> HIDE DEF T
  <2> QED
    BY <1>1, <1>5
<1>7. IsSplit(parts, w, size, S)
  <2>1. parts = [p \in 1 .. Len(parts) |-> parts[p]]
    BY <1>4, <1>5
  <2>2. ASSUME NEW p \in 1 .. k
        PROVE  /\ parts[p] \in T
               /\ Len(parts[p]) = PartEnd(p, size, n) - (p - 1) * size
               /\ \A a \in 1 .. Len(parts[p]) : parts[p][a] = w[(p - 1) * size + a]
    BY <1>3, <1>4
  <2> QED
    BY <1>4, <2>1, <2>2 DEF IsSplit, k, n, T
<1> QED
  BY <1>6, <1>7 DEF parts, T

\* Concatenated they are the sequence again.
LEMMA SplitFlattens ==
  ASSUME NEW S, NEW w \in Seq(S), NEW size \in Nat \ {0}
  PROVE  FlattenSeq(Split(w, size)) = w
<1> DEFINE n == Len(w)
           k == PartCount(n, size)
           parts == Split(w, size)
           end(p) == PartEnd(p, size, n)
<1>1. /\ n \in Nat /\ k \in Nat /\ Len(parts) = k
      /\ IsSplit(parts, w, size, S)
  <2>1. n \in Nat /\ IsSplit(parts, w, size, S)
    BY SplitType
  <2> HIDE DEF n, parts
  <2>2. k \in Nat
    BY <2>1, PartEnds
  <2> QED
    BY <2>1, <2>2 DEF IsSplit, n
<1>2. \A p \in 1 .. k : /\ parts[p] \in Seq(S) /\ Len(parts[p]) = end(p) - (p - 1) * size
                        /\ \A a \in 1 .. Len(parts[p]) : parts[p][a] = w[(p - 1) * size + a]
  BY <1>1 DEF IsSplit
<1> HIDE DEF parts
<1>3. /\ n = 0 => k = 0
      /\ n # 0 => k # 0 /\ end(k) = n
      /\ \A p \in 1 .. k : end(p) \in (p - 1) * size + 1 .. n /\ (p - 1) * size \in Nat
      /\ \A p \in 1 .. k - 1 : end(p) = p * size
  <2> HIDE DEF n
  <2> QED
    BY <1>1, PartEnds
<1> HIDE DEF k, end
<1>4. CASE n = 0
  <2>1. Len(parts) = 0
    BY <1>1, <1>3, <1>4
  <2>2. FlattenSeq(parts) = <<>>
    BY <2>1 DEF FlattenSeq
  <2>3. w = <<>>
    BY <1>4 DEF n
  <2> QED
    BY <2>2, <2>3 DEF parts
<1>5. CASE n # 0
  <2>1. k \in Nat \ {0}
    BY <1>1, <1>3, <1>5
  <2>2. PICK f : PartialConcats(parts, k, f) /\ FlattenSeq(parts) = f[k]
    BY <1>1, <2>1, FlattenIsLast
  <2>3. f[1] = parts[1] /\ \A p \in 1 .. k : p # 1 => f[p] = f[p - 1] \o parts[p]
    <3>1. f = [i \in 1 .. k |-> IF i = 1 THEN parts[i] ELSE f[i - 1] \o parts[i]]
      BY <2>2 DEF PartialConcats
    <3>2. 1 \in 1 .. k
      BY <2>1
    <3> QED
      BY <3>1, <3>2, Zenon
  <2> DEFINE Holds(p) == f[p] \in Seq(S) /\ Len(f[p]) = end(p) /\ \A a \in 1 .. end(p) : f[p][a] = w[a]
             G == {m \in Nat : m + 1 <= k => Holds(m + 1)}
  <2>4. 0 \in G
    <3>1. 1 \in 1 .. k /\ (1 - 1) * size = 0
      BY <2>1
    <3>2. end(1) \in 1 .. n
      BY <1>3, <3>1
    <3>3. parts[1] \in Seq(S) /\ Len(parts[1]) = end(1) /\ \A a \in 1 .. Len(parts[1]) : parts[1][a] = w[a]
      <4>1. /\ parts[1] \in Seq(S) /\ Len(parts[1]) = end(1) - (1 - 1) * size
            /\ \A a \in 1 .. Len(parts[1]) : parts[1][a] = w[(1 - 1) * size + a]
        BY <1>2, <3>1
      <4>2. Len(parts[1]) = end(1)
        BY <1>1, <3>1, <3>2, <4>1
      <4>3. \A a \in 1 .. end(1) : (1 - 1) * size + a = a
        BY <1>1, <3>1, <3>2
      <4> QED
        BY <4>1, <4>2, <4>3
    <3>4. Holds(1)
      BY <2>3, <3>3
    <3> QED
      BY <3>4
  <2>5. ASSUME NEW m \in G PROVE m + 1 \in G
    <3>1. m \in Nat /\ (m + 1 <= k => Holds(m + 1))
      OBVIOUS
    <3> DEFINE p == m + 1
               q == p + 1
    <3> SUFFICES ASSUME q <= k PROVE Holds(q)
      BY <3>1
    <3>2. p \in 1 .. k - 1 /\ q \in 1 .. k /\ q # 1 /\ q - 1 = p /\ Holds(p)
      BY <1>1, <3>1
    <3> DEFINE from == p * size
    <3>3. end(p) = from /\ end(q) \in from + 1 .. n /\ from \in Nat
      BY <1>3, <3>2
    <3>4. /\ parts[q] \in Seq(S) /\ Len(parts[q]) = end(q) - from
          /\ \A a \in 1 .. Len(parts[q]) : parts[q][a] = w[from + a]
      BY <1>2, <3>2
    <3>5. f[q] = f[p] \o parts[q]
      BY <2>3, <3>2
    <3>6. f[p] \in Seq(S) /\ Len(f[p]) = from /\ \A a \in 1 .. from : f[p][a] = w[a]
      BY <3>2, <3>3
    <3> HIDE DEF q, p, from, Holds
    <3>7. /\ f[p] \o parts[q] \in Seq(S) /\ Len(f[p] \o parts[q]) = Len(f[p]) + Len(parts[q])
          /\ \A a \in 1 .. Len(f[p]) + Len(parts[q]) :
               (f[p] \o parts[q])[a] = IF a <= Len(f[p]) THEN f[p][a] ELSE parts[q][a - Len(f[p])]
      <4> DEFINE u == f[p]
                 v == parts[q]
      <4>1. u \in Seq(S) /\ v \in Seq(S)
        BY <3>4, <3>6
      <4> HIDE DEF u, v
      <4>2. /\ u \o v \in Seq(S) /\ Len(u \o v) = Len(u) + Len(v)
            /\ \A a \in 1 .. Len(u) + Len(v) :
                 (u \o v)[a] = IF a <= Len(u) THEN u[a] ELSE v[a - Len(u)]
        BY <4>1, ConcatProperties
      <4> QED
        BY <4>2 DEF u, v
    <3>8. Len(f[p]) + Len(parts[q]) = end(q)
      BY <1>1, <3>3, <3>4, <3>6
    <3>9. ASSUME NEW a \in 1 .. end(q) PROVE f[q][a] = w[a]
      <4>1. f[q][a] = IF a <= from THEN f[p][a] ELSE parts[q][a - from]
        BY <3>5, <3>6, <3>7, <3>8
      <4>2. CASE a <= from
        <5>1. a \in 1 .. from
          BY <3>3, <4>2
        <5> QED
          BY <3>6, <4>1, <4>2, <5>1
      <4>3. CASE ~ (a <= from)
        <5>1. a - from \in 1 .. end(q) - from /\ from + (a - from) = a
          BY <1>1, <3>3, <4>3
        <5>2. parts[q][a - from] = w[from + (a - from)]
          BY <3>4, <5>1
        <5> QED
          BY <4>1, <4>3, <5>1, <5>2
      <4> QED
        BY <4>2, <4>3
    <3> QED
      BY <3>5, <3>7, <3>8, <3>9 DEF Holds
  <2>6. \A m \in Nat : m \in G
    <3> HIDE DEF G
    <3>1. \A m \in G : m + 1 \in G
      BY <2>5
    <3> QED
      BY <2>4, <3>1, SetInduction
  <2>7. k - 1 \in Nat /\ (k - 1) + 1 = k
    BY <2>1
  <2>8. Holds(k)
    BY <2>1, <2>6, <2>7
  <2>9. f[k] \in Seq(S) /\ Len(f[k]) = n /\ \A a \in 1 .. n : f[k][a] = w[a]
    BY <1>3, <1>5, <2>8
  <2>10. f[k] = w
    <3> DEFINE u == f[k]
    <3>1. u \in Seq(S) /\ Len(u) = n /\ \A a \in 1 .. n : u[a] = w[a]
      BY <2>9
    <3> HIDE DEF u
    <3>2. u = w
      BY <3>1, SeqEqual DEF n
    <3> QED
      BY <3>2 DEF u
  <2> QED
    BY <2>2, <2>10 DEF parts
<1> QED
  BY <1>4, <1>5 DEF parts

-----------------------------------------------------------------------------
(* The load of the parts that a data parallel rank gets. *)

\* A stretch of some items, after the first a of them, may be named by other
\* indices: what counts are the lengths.
Stretch(lens1, sub, lens, items, a) ==
  /\ sub \in Seq(1 .. Len(lens1)) /\ a \in Nat /\ a + Len(sub) <= Len(items)
  /\ \A m \in 1 .. Len(sub) : lens1[sub[m]] = lens[items[a + m]]

LEMMA StretchTotal ==
  ASSUME NEW lens1 \in Lengths, NEW lens \in Lengths, NEW items \in Seq(1 .. Len(lens)),
         NEW f, Sums(lens, items, f), NEW sub, NEW a, Stretch(lens1, sub, lens, items, a)
  PROVE  Total(lens1, sub) = f[a + Len(sub)] - f[a]
<1> DEFINE b == Len(sub)
           n == Len(items)
<1>1. /\ sub \in Seq(1 .. Len(lens1)) /\ a \in Nat /\ b \in Nat /\ n \in Nat /\ a + b <= n
      /\ \A m \in 1 .. b : lens1[sub[m]] = lens[items[a + m]]
  BY DEF Stretch
<1>2. PICK g : Sums(lens1, sub, g) /\ Total(lens1, sub) = g[b]
  BY <1>1, TotalIsSum
<1>3. /\ g[0] = 0 /\ \A m \in 0 .. b : g[m] \in Nat
      /\ \A m \in 1 .. b : g[m] = g[m - 1] + lens1[sub[m]]
  BY <1>1, <1>2, SumsAreNat
<1>4. /\ \A m \in 0 .. n : f[m] \in Nat
      /\ \A m \in 1 .. n : f[m] = f[m - 1] + lens[items[m]]
  BY SumsAreNat
<1> HIDE DEF b, n
<1> DEFINE G == {m \in Nat : m <= b => f[a + m] = f[a] + g[m]}
<1>5. \A m \in Nat : m \in G
  <2>1. 0 \in G
    <3>1. f[a + 0] = f[a] + g[0]
      BY <1>1, <1>3, <1>4
    <3> QED
      BY <3>1
  <2>2. ASSUME NEW m \in Nat, m \in G PROVE m + 1 \in G
    <3> SUFFICES ASSUME m + 1 <= b PROVE f[a + (m + 1)] = f[a] + g[m + 1]
      OBVIOUS
    <3>1. /\ m + 1 \in 1 .. b /\ (m + 1) - 1 = m /\ m \in 0 .. b /\ m <= b
          /\ a + (m + 1) \in 1 .. n /\ (a + (m + 1)) - 1 = a + m /\ a \in 0 .. n
      BY <1>1
    <3>2. f[a + m] = f[a] + g[m]
      BY <2>2, <3>1
    <3>3. g[m + 1] = g[m] + lens1[sub[m + 1]] /\ lens1[sub[m + 1]] = lens[items[a + (m + 1)]]
      BY <1>1, <1>3, <3>1
    <3>4. f[a + (m + 1)] = f[a + m] + lens[items[a + (m + 1)]]
      BY <1>4, <3>1
    <3>5. g[m] \in Nat /\ f[a] \in Nat /\ g[m + 1] \in Nat
      BY <1>1, <1>3, <1>4, <3>1
    <3>6. g[m + 1] - g[m] = lens1[sub[m + 1]] /\ lens1[sub[m + 1]] \in Int
      <4>1. m + 1 \in 1 .. Len(sub)
        BY <3>1 DEF b
      <4>2. sub[m + 1] \in 1 .. Len(lens1)
        BY <1>1, <4>1
      <4>3. lens1[sub[m + 1]] \in Nat
        BY <4>2 DEF Lengths
      <4> QED
        BY <3>3, <3>5, <4>3
    <3> DEFINE c == lens1[sub[m + 1]]
    <3>7. /\ f[a + (m + 1)] = (f[a] + g[m]) + c /\ g[m + 1] = g[m] + c /\ c \in Int
      BY <3>2, <3>3, <3>4, <3>6
    <3> HIDE DEF c
    <3> QED
      BY <3>5, <3>7
  <2> HIDE DEF G
  <2> QED
    BY <2>1, <2>2, SetInduction
<1>6. f[a + b] = f[a] + g[b]
  BY <1>1, <1>5
<1>7. f[a] \in Nat /\ g[b] \in Nat
  BY <1>1, <1>3, <1>4
<1> QED
  BY <1>2, <1>6, <1>7 DEF b

\* If the first differences of h over k steps are at most D apart, then those
\* of t steps are at most t * D apart.
LEMMA SumsApart ==
  ASSUME NEW k \in Nat, NEW h, NEW D \in Int, \A i \in 0 .. k : h[i] \in Int,
         \A i, j \in 1 .. k : (h[i] - h[i - 1]) - (h[j] - h[j - 1]) <= D
  PROVE  \A t \in Nat, a, b \in Nat :
           a + t <= k /\ b + t <= k => (h[a + t] - h[a]) - (h[b + t] - h[b]) <= t * D
<1> DEFINE Apart(t) == \A a, b \in Nat : a + t <= k /\ b + t <= k =>
                         (h[a + t] - h[a]) - (h[b + t] - h[b]) <= t * D
           G == {t \in Nat : Apart(t)}
<1>1. 0 \in G
  <2> SUFFICES ASSUME NEW a \in Nat, NEW b \in Nat, a <= k, b <= k
               PROVE  (h[a + 0] - h[a]) - (h[b + 0] - h[b]) <= 0 * D
    OBVIOUS
  <2>1. h[a] \in Int /\ h[b] \in Int /\ a + 0 = a /\ b + 0 = b /\ 0 * D = 0
    OBVIOUS
  <2> QED
    BY <2>1
<1>2. ASSUME NEW t \in Nat, t \in G PROVE t + 1 \in G
  <2> SUFFICES ASSUME NEW a \in Nat, NEW b \in Nat, a + (t + 1) <= k, b + (t + 1) <= k
               PROVE  (h[a + (t + 1)] - h[a]) - (h[b + (t + 1)] - h[b]) <= (t + 1) * D
    OBVIOUS
  <2>1. Apart(t)
    BY <1>2
  <2>2. (h[a + t] - h[a]) - (h[b + t] - h[b]) <= t * D
    BY <2>1
  <2>3. /\ a + (t + 1) \in 1 .. k /\ (a + (t + 1)) - 1 = a + t
        /\ b + (t + 1) \in 1 .. k /\ (b + (t + 1)) - 1 = b + t
        /\ a \in 0 .. k /\ b \in 0 .. k /\ a + t \in 0 .. k /\ b + t \in 0 .. k
        /\ a + (t + 1) \in 0 .. k /\ b + (t + 1) \in 0 .. k
    OBVIOUS
  <2>4. (h[a + (t + 1)] - h[a + t]) - (h[b + (t + 1)] - h[b + t]) <= D
    BY <2>3
  <2>5. (t + 1) * D = t * D + D /\ t * D \in Int
    OBVIOUS
  <2> DEFINE e == t * D
             x1 == h[a + (t + 1)]
             x2 == h[a + t]
             x3 == h[a]
             y1 == h[b + (t + 1)]
             y2 == h[b + t]
             y3 == h[b]
  <2>6. /\ (x2 - x3) - (y2 - y3) <= e /\ (x1 - x2) - (y1 - y2) <= D /\ e \in Int
        /\ x1 \in Int /\ x2 \in Int /\ x3 \in Int /\ y1 \in Int /\ y2 \in Int /\ y3 \in Int
    BY <2>2, <2>3, <2>4, <2>5
  <2>7. SUFFICES (x1 - x3) - (y1 - y3) <= e + D
    BY <2>5
  <2> HIDE DEF e, x1, x2, x3, y1, y2, y3
  <2> QED
    BY <2>6
<1> HIDE DEF G
<1>3. \A t \in Nat : t \in G
  BY <1>1, <1>2, SetInduction
<1>4. \A t \in Nat : Apart(t)
  BY <1>3 DEF G
<1> QED
  BY <1>4

\* The sequence of rows in the order of k parts of q items each; the items are
\* indices of lengths l that are those of the rows.
InParts(lens, ids, l, parts, k, q) ==
  /\ parts \in Seq(Seq(1 .. Len(l))) /\ Len(parts) = k /\ Len(ids) = k * q
  /\ \A j \in 1 .. k : Len(parts[j]) = q
  /\ \A j \in 1 .. k, a \in 1 .. q : l[parts[j][a]] = lens[ids[(j - 1) * q + a]]

\* m parts of q items after the first a parts.
PartsAfter(lens, u, ids, a, m, q) ==
  u \in Seq(1 .. Len(lens)) /\ Len(u) = m * q /\ \A j \in 1 .. m * q : u[j] = ids[a * q + j]

(* m consecutive parts each: their totals are within m times the bound of  *)
(* the parts.                                                              *)
LEMMA StretchesNear ==
  ASSUME NEW lens \in Lengths, NEW l \in Lengths, NEW ids \in Seq(1 .. Len(lens)),
         NEW k \in Nat, NEW q \in Nat, NEW parts, InParts(lens, ids, l, parts, k, q),
         NEW D \in Nat, Near(l, parts, D), NEW m \in Nat, NEW a \in Nat, NEW b \in Nat,
         a + m <= k, b + m <= k,
         NEW u, PartsAfter(lens, u, ids, a, m, q), NEW v, PartsAfter(lens, v, ids, b, m, q)
  PROVE  Total(lens, u) - Total(lens, v) <= m * D
<1>1. PICK f : Sums(lens, ids, f)
  <2>1. Len(ids) \in Nat
    OBVIOUS
  <2> QED
    BY <2>1, TotalIsSum
<1>2. \A j \in 0 .. Len(ids) : f[j] \in Nat
  BY <1>1, SumsAreNat
<1> DEFINE h == [j \in 0 .. k |-> f[j * q]]
<1>3. ASSUME NEW c \in Nat, NEW t \in Nat, c + t <= k
      PROVE  /\ c * q \in Nat /\ t * q \in Nat /\ (c + t) * q = c * q + t * q
             /\ c * q + t * q <= k * q
  <2>1. (c + t) * q = c * q + t * q /\ c * q \in Nat /\ t * q \in Nat
    OBVIOUS
  <2>2. PICK r \in Nat : k = (c + t) + r
    <3>1. k = (c + t) + (k - (c + t)) /\ k - (c + t) \in Nat
      BY <1>3
    <3> QED
      BY <3>1
  <2>3. k * q = (c + t) * q + r * q /\ r * q \in Nat
    BY <2>2
  <2> QED
    BY <2>1, <2>3
<1>4. \A j \in 0 .. k : j * q \in 0 .. Len(ids) /\ h[j] = f[j * q] /\ h[j] \in Nat
  <2> TAKE j \in 0 .. k
  <2>1. j \in Nat /\ 0 \in Nat /\ j + 0 <= k
    OBVIOUS
  <2>2. j * q \in Nat /\ j * q + 0 * q <= k * q /\ 0 * q = 0
    BY <1>3, <2>1
  <2>3. Len(ids) = k * q
    BY DEF InParts
  <2>4. j * q \in 0 .. Len(ids)
    BY <2>2, <2>3
  <2> QED
    BY <1>2, <2>4
<1>5. \A j \in 1 .. k : Total(l, parts[j]) = h[j] - h[j - 1]
  <2> TAKE j \in 1 .. k
  <2> DEFINE c == j - 1
  <2>1. c \in Nat /\ c + 1 <= k /\ c + 1 = j /\ c \in 0 .. k /\ j \in 0 .. k
    OBVIOUS
  <2>2. c * q \in Nat /\ j * q = c * q + q /\ c * q + q <= k * q
    <3>1. (c + 1) * q = c * q + 1 * q /\ c * q \in Nat /\ c * q + 1 * q <= k * q /\ 1 * q = q
      BY <1>3, <2>1
    <3> QED
      BY <2>1, <3>1
  <2>5. /\ parts[j] \in Seq(1 .. Len(l)) /\ Len(parts[j]) = q /\ Len(ids) = k * q
        /\ \A a1 \in 1 .. q : l[parts[j][a1]] = lens[ids[c * q + a1]]
    <3> DEFINE T == Seq(1 .. Len(l))
    <3>1. parts \in Seq(T) /\ Len(parts) = k /\ Len(parts[j]) = q /\ Len(ids) = k * q
      BY DEF InParts
    <3>2. \A a1 \in 1 .. q : l[parts[j][a1]] = lens[ids[c * q + a1]]
      BY DEF InParts
    <3> HIDE DEF T
    <3>3. parts[j] \in T
      BY <3>1
    <3> QED
      BY <3>1, <3>2, <3>3 DEF T
  <2> DEFINE s == c * q
             part == parts[j]
  <2>7. s \in Nat /\ s + q <= Len(ids)
    BY <2>2, <2>5
  <2> HIDE DEF s
  <2>8. \A a1 \in 1 .. q : l[part[a1]] = lens[ids[s + a1]]
    BY <2>5 DEF s
  <2> HIDE DEF part
  <2>9. part \in Seq(1 .. Len(l)) /\ Len(part) = q
    BY <2>5 DEF part
  <2>3. Stretch(l, part, lens, ids, s)
    BY <2>7, <2>8, <2>9 DEF Stretch
  <2>10. Total(l, part) = f[s + Len(part)] - f[s]
    BY <1>1, <2>3, StretchTotal
  <2>4. Total(l, parts[j]) = f[c * q + Len(parts[j])] - f[c * q]
    BY <2>10 DEF s, part
  <2>6. Total(l, parts[j]) = f[j * q] - f[c * q]
    BY <2>2, <2>4, <2>5
  <2> QED
    BY <1>4, <2>1, <2>6
<1>6. \A i, j \in 1 .. k : (h[i] - h[i - 1]) - (h[j] - h[j - 1]) <= D
  <2>1. Len(parts) = k
    BY DEF InParts
  <2> HIDE DEF h
  <2>2. \A i, j \in 1 .. k : Total(l, parts[i]) - Total(l, parts[j]) <= D
    BY <2>1 DEF Near
  <2> QED
    BY <1>5, <2>2
<1>7. ASSUME NEW c \in Nat, c + m <= k, NEW w, PartsAfter(lens, w, ids, c, m, q)
      PROVE  Total(lens, w) = h[c + m] - h[c]
  <2>1. /\ c * q \in Nat /\ m * q \in Nat /\ (c + m) * q = c * q + m * q
        /\ c * q + m * q <= k * q /\ Len(ids) = k * q
    BY <1>3, <1>7 DEF InParts
  <2>6. w \in Seq(1 .. Len(lens)) /\ Len(w) = m * q /\ \A j \in 1 .. m * q : w[j] = ids[c * q + j]
    BY <1>7 DEF PartsAfter
  <2>2. Stretch(lens, w, lens, ids, c * q)
    BY <2>1, <2>6 DEF Stretch
  <2>3. Total(lens, w) = f[c * q + Len(w)] - f[c * q]
    BY <1>1, <2>2, StretchTotal
  <2>4. Total(lens, w) = f[(c + m) * q] - f[c * q]
    BY <2>1, <2>3, <2>6
  <2>5. c \in 0 .. k /\ c + m \in 0 .. k
    BY <1>7
  <2> QED
    BY <1>4, <2>4, <2>5
<1>8. Total(lens, u) = h[a + m] - h[a] /\ Total(lens, v) = h[b + m] - h[b]
  BY <1>7
<1> HIDE DEF h
<1>9. \A j \in 0 .. k : h[j] \in Int
  BY <1>4
<1>10. D \in Int
  OBVIOUS
<1>11. (h[a + m] - h[a]) - (h[b + m] - h[b]) <= m * D
  BY <1>6, <1>9, <1>10, SumsApart
<1> QED
  BY <1>8, <1>11

(* The longest and the shortest length.                                    *)
LEMMA LongestAndShortest ==
  ASSUME NEW lens \in Lengths, lens # <<>>
  PROVE  /\ Max(Range(lens)) \in Nat /\ Min(Range(lens)) \in Nat
         /\ Min(Range(lens)) <= Max(Range(lens))
         /\ \A i \in 1 .. Len(lens) : lens[i] \in Min(Range(lens)) .. Max(Range(lens))
<1> DEFINE S == Range(lens)
           R == {p \in S \X S : p[1] > p[2]}
           L == {p \in S \X S : p[1] < p[2]}
<1>1. /\ Len(lens) \in Nat \ {0} /\ S = {lens[i] : i \in 1 .. Len(lens)}
      /\ \A i \in 1 .. Len(lens) : lens[i] \in Nat
  BY DEF Lengths, Range
<1>2. IsFiniteSet(S) /\ S # {} /\ S \subseteq Nat
  <2>1. PICK d \in Nat : \A i \in 1 .. Len(lens) : lens[i] <= d
    BY LengthsBounded
  <2>2. IsFiniteSet(S)
    <3>1. S \subseteq 0 .. d
      BY <1>1, <2>1
    <3>2. 0 \in Int /\ d \in Int
      OBVIOUS
    <3> QED
      BY <3>1, <3>2, FS_Interval, FS_Subset
  <2>3. lens[1] \in S /\ \A x \in S : x \in Nat
    BY <1>1
  <2> QED
    BY <1>1, <2>2, <2>3
<1>3. \A i \in 1 .. Len(lens) : lens[i] \in S
  BY <1>1
<1> HIDE DEF S
<1>4. /\ \A x, y \in S : <<x, y>> \in R <=> x > y
      /\ \A x, y \in S : <<x, y>> \in L <=> x < y
  OBVIOUS
<1> HIDE DEF R, L
<1>5. Precedes(R, S) /\ Precedes(L, S)
  BY <1>2, <1>4 DEF Precedes
<1>6. \E x \in S : \A y \in S : x >= y
  <2>1. PICK x \in S : \A y \in S : <<y, x>> \notin R
    BY <1>2, <1>5, HasFirst
  <2>2. \A y \in S : ~ (y > x) /\ y \in Nat /\ x \in Nat
    BY <1>2, <1>4, <2>1
  <2>3. \A y \in S : x >= y
    BY <2>2
  <2> QED
    BY <2>3
<1>7. \E x \in S : \A y \in S : x <= y
  <2>1. PICK x \in S : \A y \in S : <<y, x>> \notin L
    BY <1>2, <1>5, HasFirst
  <2>2. \A y \in S : ~ (y < x) /\ y \in Nat /\ x \in Nat
    BY <1>2, <1>4, <2>1
  <2>3. \A y \in S : x <= y
    BY <2>2
  <2> QED
    BY <2>3
<1>8. Max(S) \in S /\ (\A y \in S : Max(S) >= y) /\ Min(S) \in S /\ \A y \in S : Min(S) <= y
  BY <1>6, <1>7 DEF Max, Min
<1> QED
  BY <1>2, <1>3, <1>8 DEF S
=============================================================================
