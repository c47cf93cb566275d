------------------------ MODULE EvidencePipelineProofs ------------------------
(***************************************************************************)
(* What the evidence pipeline promises, for any streams, records, faults   *)
(* and width of a sequence number: the walk through sorted intervals       *)
(* decides exact coverage, an accepted bundle is faithful to what the      *)
(* sensors observed, and an undisturbed one is accepted.                   *)
(***************************************************************************)
EXTENDS EvidencePipeline, FiniteSetTheorems, FunctionTheorems, SequenceTheorems,
        NaturalsInduction, WellFoundedInduction, TLAPS

-----------------------------------------------------------------------------
(* Numbers.                                                                  *)

\* A set of numbers that is not empty has a smallest one.
LEMMA Least ==
  ASSUME NEW S \in SUBSET Nat, S # {}
  PROVE  \E m \in S : \A k \in S : m <= k
<1>1. PICK x \in S : \A y \in S : ~ (<<y, x>> \in OpToRel(<,Nat))
  BY NatLessThanWellFounded, WFMin
<1>2. ASSUME NEW k \in S PROVE ~(k < x)
  BY <1>1, Zenon DEF OpToRel
<1>3. x \in Nat /\ \A k \in S : k \in Nat
  OBVIOUS
<1>4. \A k \in S : x <= k
  BY <1>2, <1>3
<1> QED
  BY <1>4

\* A set of numbers up to n that holds 0, and with each number the next, holds them all.
LEMMA Upwards ==
  ASSUME NEW n \in Nat, NEW P, 0 \in P, \A i \in 0 .. n - 1 : i \in P => i + 1 \in P
  PROVE  \A i \in 0 .. n : i \in P
<1> SUFFICES ASSUME {i \in 0 .. n : i \notin P} # {}
             PROVE  FALSE
  OBVIOUS
<1> DEFINE S == {i \in 0 .. n : i \notin P}
<1>1. S \in SUBSET Nat
  OBVIOUS
<1>2. PICK m \in S : \A k \in S : m <= k
  BY <1>1, Least
<1>3. m # 0 /\ m \in 0 .. n /\ m \notin P
  OBVIOUS
<1>4. m - 1 \in 0 .. n - 1 /\ m - 1 \notin S
  BY <1>2, <1>3
<1>5. m - 1 \in P
  BY <1>4
<1> QED
  BY <1>3, <1>4, <1>5

-----------------------------------------------------------------------------
(* Sorting and picking.                                                      *)

Upto(v, i) == {j \in DOMAIN v : v[j] < v[i] \/ (v[j] = v[i] /\ j <= i)}

\* The places of v in the order of its values are all of its places, each of them once.
LEMMA Places ==
  ASSUME NEW S \in SUBSET Nat, IsFiniteSet(S), NEW v \in [S -> Nat]
  PROVE  /\ Cardinality(S) \in Nat
         /\ \A k \in 1 .. Cardinality(S) :
              Place(v, k) \in S /\ Cardinality(Upto(v, Place(v, k))) = k
         /\ \A i \in S : /\ Cardinality(Upto(v, i)) \in 1 .. Cardinality(S)
                         /\ Place(v, Cardinality(Upto(v, i))) = i
         /\ \A k, l \in 1 .. Cardinality(S) : k < l =>
              \/ v[Place(v, k)] < v[Place(v, l)]
              \/ v[Place(v, k)] = v[Place(v, l)] /\ Place(v, k) < Place(v, l)
<1> DEFINE n == Cardinality(S)
           rank == [i \in S |-> Cardinality(Upto(v, i))]
<1>1. n \in Nat /\ IsFiniteSet(1 .. n) /\ Cardinality(1 .. n) = n
  BY FS_CardinalityType, FS_Interval
<1>2. DOMAIN v = S /\ \A i \in S : v[i] \in Nat /\ i \in Nat
  OBVIOUS
<1>3. \A i, j \in S : j \in Upto(v, i) <=> v[j] < v[i] \/ (v[j] = v[i] /\ j <= i)
  BY <1>2 DEF Upto
<1>4. \A i \in S : Upto(v, i) \in SUBSET S /\ i \in Upto(v, i)
  BY <1>2, <1>3 DEF Upto
<1>5. \A i, j \in S : j \notin Upto(v, i) => v[i] < v[j] \/ (v[i] = v[j] /\ i < j)
  <2>1. ASSUME NEW i \in S, NEW j \in S, j \notin Upto(v, i)
        PROVE  v[i] < v[j] \/ (v[i] = v[j] /\ i < j)
    <3>1. v[i] \in Nat /\ v[j] \in Nat /\ i \in Nat /\ j \in Nat
      BY <1>2
    <3>2. ~(v[j] < v[i] \/ (v[j] = v[i] /\ j <= i))
      BY <1>3, <2>1
    <3> QED
      BY <3>1, <3>2
  <2> QED
    BY <2>1
<1>6. ASSUME NEW i \in S
      PROVE  /\ i \in Upto(v, i) /\ Upto(v, i) \in SUBSET S /\ IsFiniteSet(Upto(v, i))
             /\ Cardinality(Upto(v, i)) \in 1 .. n
  <2>1. i \in Upto(v, i) /\ Upto(v, i) \in SUBSET S
    BY <1>4
  <2>2. IsFiniteSet(Upto(v, i)) /\ Cardinality(Upto(v, i)) <= n
    BY <2>1, FS_Subset
  <2>3. Cardinality(Upto(v, i)) \in Nat /\ Cardinality(Upto(v, i)) # 0
    BY <2>1, <2>2, FS_CardinalityType, FS_EmptySet
  <2> QED
    BY <1>1, <2>1, <2>2, <2>3
<1>7. ASSUME NEW i \in S, NEW j \in S, j \in Upto(v, i), i # j
      PROVE  Cardinality(Upto(v, j)) < Cardinality(Upto(v, i))
  <2>1. Upto(v, j) \subseteq Upto(v, i) /\ i \notin Upto(v, j)
    <3>1. v[i] \in Nat /\ v[j] \in Nat /\ i \in Nat /\ j \in Nat
      BY <1>2
    <3>2. v[j] < v[i] \/ (v[j] = v[i] /\ j <= i)
      BY <1>3, <1>7
    <3>3. ASSUME NEW k \in Upto(v, j) PROVE k \in Upto(v, i)
      <4>1. k \in S /\ v[k] \in Nat /\ k \in Nat
        BY <1>2, <1>4
      <4>2. v[k] < v[j] \/ (v[k] = v[j] /\ k <= j)
        BY <1>3, <4>1
      <4>3. v[k] < v[i] \/ (v[k] = v[i] /\ k <= i)
        BY <3>1, <3>2, <4>1, <4>2
      <4> QED
        BY <1>3, <4>1, <4>3
    <3>4. ~(v[i] < v[j] \/ (v[i] = v[j] /\ i <= j))
      BY <3>1, <3>2, <1>7
    <3> QED
      BY <1>3, <3>3, <3>4
  <2>2. Cardinality(Upto(v, j)) <= Cardinality(Upto(v, i))
    BY <1>6, <2>1, FS_Subset
  <2>3. Cardinality(Upto(v, j)) # Cardinality(Upto(v, i))
    BY <1>6, <2>1, FS_Subset
  <2> QED
    BY <1>1, <1>6, <2>2, <2>3
<1>8. \A i, j \in S : i \in Upto(v, j) \/ j \in Upto(v, i)
  BY DEF Upto
<1>9. rank \in Injection(S, 1 .. n)
  <2>1. rank \in [S -> 1 .. n]
    BY <1>6
  <2>2. ASSUME NEW i \in S, NEW j \in S, rank[i] = rank[j] PROVE i = j
    BY <1>1, <1>6, <1>7, <1>8, <2>2
  <2> QED
    BY <2>1, <2>2, Fun_IsInj
<1>10. rank \in Surjection(S, 1 .. n)
  BY <1>1, <1>9, FS_Injection
<1>11. \A i \in S : rank[i] = Cardinality(Upto(v, i))
  OBVIOUS
<1> HIDE DEF n, rank
<1>12. \A k \in 1 .. n : \E i \in S : rank[i] = k
  BY <1>10, Fun_SurjectionProperties, Zenon
<1>13. \A i, j \in S : rank[i] = rank[j] => i = j
  BY <1>9, Fun_InjectionProperties, Zenon
<1>14. ASSUME NEW k \in 1 .. n
       PROVE  Place(v, k) \in S /\ Cardinality(Upto(v, Place(v, k))) = k
  <2>1. \E i \in S : Cardinality(Upto(v, i)) = k
    BY <1>12, <1>11
  <2>2. Place(v, k) = CHOOSE i \in S : Cardinality(Upto(v, i)) = k
    BY <1>2 DEF Place, Upto
  <2> QED
    BY <2>1, <2>2
<1>15. ASSUME NEW x \in S PROVE Place(v, Cardinality(Upto(v, x))) = x
  <2>1. Cardinality(Upto(v, x)) \in 1 .. n
    BY <1>6
  <2>2. /\ Place(v, Cardinality(Upto(v, x))) \in S
        /\ rank[Place(v, Cardinality(Upto(v, x)))] = rank[x]
    BY <2>1, <1>14, <1>11
  <2> QED
    BY <2>2, <1>13
<1>16. ASSUME NEW k \in 1 .. n, NEW l \in 1 .. n, k < l
       PROVE  \/ v[Place(v, k)] < v[Place(v, l)]
              \/ v[Place(v, k)] = v[Place(v, l)] /\ Place(v, k) < Place(v, l)
  <2>1. Place(v, l) \notin Upto(v, Place(v, k))
    <3>1. Cardinality(Upto(v, Place(v, k))) = k /\ Cardinality(Upto(v, Place(v, l))) = l
      BY <1>14
    <3>2. Place(v, k) \in S /\ Place(v, l) \in S /\ k \in Nat /\ l \in Nat
      BY <1>14
    <3>3. Place(v, k) # Place(v, l)
      BY <3>1, <1>16
    <3>4. ASSUME Place(v, l) \in Upto(v, Place(v, k)) PROVE FALSE
      <4>1. Cardinality(Upto(v, Place(v, l))) < Cardinality(Upto(v, Place(v, k)))
        BY <3>2, <3>3, <3>4, <1>7
      <4> QED
        BY <3>1, <3>2, <4>1, <1>16
    <3> QED
      BY <3>4
  <2>2. Place(v, k) \in S /\ Place(v, l) \in S
    BY <1>14
  <2> QED
    BY <1>5, <2>1, <2>2
<1> QED
  BY <1>1, <1>6, <1>14, <1>15, <1>16 DEF n

\* f puts the places up to n in the order of their keys.
Orders(f, n, key) ==
  /\ f \in [1 .. n -> 1 .. n]
  /\ \A k, l \in 1 .. n : k < l => key[f[k]] <= key[f[l]]
  /\ \A k, l \in 1 .. n : f[k] = f[l] => k = l
  /\ \A i \in 1 .. n : \E k \in 1 .. n : f[k] = i

\* Sorted holds each element of q once, in the order of their keys.
LEMMA SortedFacts ==
  ASSUME NEW q, NEW n \in Nat, DOMAIN q = 1 .. n, NEW key \in [1 .. n -> Nat]
  PROVE  \E f : Orders(f, n, key) /\ Sorted(q, key) = [k \in 1 .. n |-> q[f[k]]]
<1> DEFINE f == [k \in 1 .. n |-> Place(key, k)]
<1>1. 1 .. n \in SUBSET Nat /\ IsFiniteSet(1 .. n) /\ Cardinality(1 .. n) = n
  BY FS_Interval
<1>2. \A k \in 1 .. n : Place(key, k) \in 1 .. n /\ Cardinality(Upto(key, Place(key, k))) = k
  BY <1>1, Places, Zenon
<1>3. \A i \in 1 .. n : /\ Cardinality(Upto(key, i)) \in 1 .. n
                        /\ Place(key, Cardinality(Upto(key, i))) = i
  BY <1>1, Places, Zenon
<1>4. \A k, l \in 1 .. n : k < l =>
        \/ key[Place(key, k)] < key[Place(key, l)]
        \/ key[Place(key, k)] = key[Place(key, l)] /\ Place(key, k) < Place(key, l)
  BY <1>1, Places, Zenon
<1>5. f \in [1 .. n -> 1 .. n] /\ Sorted(q, key) = [k \in 1 .. n |-> q[f[k]]]
  BY <1>2 DEF Sorted
<1>6. \A k, l \in 1 .. n : k < l => key[f[k]] <= key[f[l]]
  <2>1. \A k \in 1 .. n : f[k] = Place(key, k) /\ key[f[k]] \in Nat
    BY <1>2
  <2>2. ASSUME NEW k \in 1 .. n, NEW l \in 1 .. n, k < l PROVE key[f[k]] <= key[f[l]]
    <3>1. /\ f[k] = Place(key, k) /\ f[l] = Place(key, l)
          /\ key[f[k]] \in Nat /\ key[f[l]] \in Nat
      BY <2>1
    <3>2. key[Place(key, k)] < key[Place(key, l)] \/ key[Place(key, k)] = key[Place(key, l)]
      BY <1>4, <2>2
    <3> QED
      BY <3>1, <3>2
  <2> QED
    BY <2>2
<1>7. \A k, l \in 1 .. n : f[k] = f[l] => k = l
  BY <1>2
<1>8. \A i \in 1 .. n : \E k \in 1 .. n : f[k] = i
  BY <1>3
<1>9. Orders(f, n, key)
  BY <1>5, <1>6, <1>7, <1>8 DEF Orders
<1> HIDE DEF f
<1> QED
  BY <1>5, <1>9

\* f enumerates S in its order.
Enumerates(f, S) ==
  /\ f \in [1 .. Cardinality(S) -> S]
  /\ \A k, l \in 1 .. Cardinality(S) : k < l => f[k] < f[l]
  /\ \A k, l \in 1 .. Cardinality(S) : f[k] = f[l] => k = l
  /\ \A i \in S : \E k \in 1 .. Cardinality(S) : f[k] = i

\* Pick holds the elements of q at some of its places, in the order of the places.
LEMMA PickFacts ==
  ASSUME NEW q, NEW S \in SUBSET Nat, IsFiniteSet(S)
  PROVE  /\ Cardinality(S) \in Nat
         /\ \E f : /\ Enumerates(f, S)
                   /\ Pick(q, S) = [k \in 1 .. Cardinality(S) |-> q[f[k]]]
<1> DEFINE n == Cardinality(S)
           id == [i \in S |-> i]
           f == [k \in 1 .. n |-> Place(id, k)]
<1>1. id \in [S -> Nat] /\ n \in Nat
  BY FS_CardinalityType
<1>2. \A k \in 1 .. n : Place(id, k) \in S /\ Cardinality(Upto(id, Place(id, k))) = k
  BY <1>1, Places, Zenon
<1>3. \A i \in S : /\ Cardinality(Upto(id, i)) \in 1 .. n
                   /\ Place(id, Cardinality(Upto(id, i))) = i
  BY <1>1, Places, Zenon
<1>4. \A k, l \in 1 .. n : k < l =>
        \/ id[Place(id, k)] < id[Place(id, l)]
        \/ id[Place(id, k)] = id[Place(id, l)] /\ Place(id, k) < Place(id, l)
  BY <1>1, Places, Zenon
<1>5. f \in [1 .. n -> S] /\ Pick(q, S) = [k \in 1 .. n |-> q[f[k]]]
  BY <1>2 DEF Pick
<1>6. \A k, l \in 1 .. n : k < l => f[k] < f[l]
  BY <1>2, <1>4
<1>7. \A k, l \in 1 .. n : f[k] = f[l] => k = l
  BY <1>2
<1>8. \A i \in S : \E k \in 1 .. n : f[k] = i
  BY <1>3
<1>9. Enumerates(f, S)
  BY <1>5, <1>6, <1>7, <1>8 DEF Enumerates
<1> HIDE DEF f
<1> QED
  BY <1>1, <1>5, <1>9
-----------------------------------------------------------------------------
(* Recursion.                                                                *)

\* f takes k steps in A.
Iterates(f, k, A, first, step) ==
  /\ f \in [0 .. k -> A] /\ f[0] = first
  /\ \A i \in 1 .. k : f[i] = step[i][f[i - 1]]

\* There are as many steps as one likes.
LEMMA Iteration ==
  ASSUME NEW n \in Nat, NEW A, NEW first \in A, NEW step \in [1 .. n -> [A -> A]]
  PROVE  \E f : Iterates(f, n, A, first, step)
<1> DEFINE P == {k \in 0 .. n : \E f : Iterates(f, k, A, first, step)}
<1>1. 0 \in P
  <2>1. Iterates([i \in 0 .. 0 |-> first], 0, A, first, step) /\ 0 \in 0 .. n
    BY DEF Iterates
  <2> QED
    BY <2>1
<1>2. ASSUME NEW k \in 0 .. n - 1, k \in P PROVE k + 1 \in P
  <2>0. PICK f : Iterates(f, k, A, first, step)
    BY <1>2
  <2>1. /\ f \in [0 .. k -> A] /\ f[0] = first
        /\ \A i \in 1 .. k : f[i] = step[i][f[i - 1]]
    BY <2>0 DEF Iterates
  <2> DEFINE g == [i \in 0 .. k + 1 |-> IF i = k + 1 THEN step[k + 1][f[k]] ELSE f[i]]
  <2>2. k \in 0 .. k /\ k + 1 \in 1 .. n /\ f[k] \in A
    BY <2>1
  <2>3. step[k + 1][f[k]] \in A
    BY <2>2
  <2>4. g \in [0 .. k + 1 -> A] /\ g[0] = first
    BY <2>1, <2>3
  <2>5. ASSUME NEW i \in 1 .. k + 1 PROVE g[i] = step[i][g[i - 1]]
    <3>1. CASE i = k + 1
      BY <3>1
    <3>2. CASE i # k + 1
      <4>1. i \in 1 .. k /\ i - 1 \in 0 .. k /\ i - 1 # k + 1
        BY <3>2
      <4>2. g[i] = f[i] /\ g[i - 1] = f[i - 1]
        BY <4>1, <3>2
      <4> QED
        BY <2>1, <4>1, <4>2
    <3> QED
      BY <3>1, <3>2
  <2>6. Iterates(g, k + 1, A, first, step)
    BY <2>4, <2>5 DEF Iterates
  <2>7. k + 1 \in 0 .. n
    BY <2>2
  <2> HIDE DEF g
  <2> QED
    BY <2>6, <2>7
<1>3. n \in P
  <2> HIDE DEF P
  <2>1. \A i \in 0 .. n : i \in P
    BY <1>1, <1>2, Upwards
  <2>2. n \in 0 .. n
    OBVIOUS
  <2> QED
    BY <2>1, <2>2
<1> QED
  BY <1>3

-----------------------------------------------------------------------------
(* ValidateRawCoverage.                                                      *)

LEMMA ModulusType == Modulus \in Nat /\ Modulus > 0
BY EvidenceAssumption DEF Modulus

LEMMA Small ==
  ASSUME NEW M \in Nat, NEW x \in 0 .. M - 1
  PROVE  x % M = x
OBVIOUS

Number == 0 .. Modulus - 1
RangeOf == [start : Number, end : Number]

\* How many numbers ranges take, one after the other.
LEMMA ConsumedFacts ==
  ASSUME NEW have, Len(have) \in Nat, NEW ranges \in Seq(RangeOf)
  PROVE  /\ Consumed(have, ranges) \in [0 .. Len(ranges) -> Int]
         /\ Consumed(have, ranges)[0] = 0
         /\ \A k \in 1 .. Len(ranges) :
              Consumed(have, ranges)[k] = Covers(have, Consumed(have, ranges)[k - 1], ranges[k])
<1> DEFINE n == Len(ranges)
           step == [k \in 1 .. n |-> [p \in Int |-> Covers(have, p, ranges[k])]]
           Body(f) == [k \in 0 .. n |-> IF k = 0 THEN 0 ELSE Covers(have, f[k - 1], ranges[k])]
<1>1. \A k \in 1 .. n : ranges[k] \in RangeOf
  OBVIOUS
<1>2. ASSUME NEW k \in 1 .. n, NEW p \in Int PROVE Covers(have, p, ranges[k]) \in Int
  <2>1. ranges[k].end - ranges[k].start + 1 \in Int
    BY <1>1 DEF RangeOf, Number
  <2>2. Wide(ranges[k]) \in Int
    BY <2>1, ModulusType DEF Wide
  <2> QED
    BY <2>2 DEF Covers
<1>3. step \in [1 .. n -> [Int -> Int]]
  BY <1>2
<1>4. n \in Nat
  OBVIOUS
<1>5. PICK f : Iterates(f, n, Int, 0, step)
  <2>1. 0 \in Int
    OBVIOUS
  <2> HIDE DEF n, step
  <2> QED
    BY <1>3, <1>4, <2>1, Iteration
<1>6. /\ f \in [0 .. n -> Int] /\ f[0] = 0
      /\ \A k \in 1 .. n : f[k] = step[k][f[k - 1]]
  BY <1>5 DEF Iterates
<1>7. \A k \in 1 .. n : f[k] = Covers(have, f[k - 1], ranges[k])
  <2>1. \A k \in 1 .. n : f[k - 1] \in Int
    BY <1>4, <1>6
  <2> QED
    BY <1>6, <2>1
<1>8. f = Body(f)
  <2>1. \A k \in 0 .. n : k # 0 => k \in 1 .. n
    BY <1>4
  <2>2. \A k \in 0 .. n : f[k] = Body(f)[k]
    BY <1>6, <1>7, <2>1
  <2> QED
    BY <1>6, <2>2
<1>9. Consumed(have, ranges) = CHOOSE g : g = Body(g)
  BY DEF Consumed
<1>10. Consumed(have, ranges) = Body(Consumed(have, ranges))
  <2> HIDE DEF Body
  <2> QED
    BY <1>8, <1>9
<1>11. \A k \in 1 .. n : k \in 0 .. n /\ k # 0
  BY <1>4
<1> HIDE DEF n
<1>12. /\ Consumed(have, ranges)[0] = 0
       /\ \A k \in 1 .. n :
            Consumed(have, ranges)[k] = Covers(have, Consumed(have, ranges)[k - 1], ranges[k])
       /\ DOMAIN Consumed(have, ranges) = 0 .. n
  BY <1>4, <1>10, <1>11
<1>13. \A k \in 0 .. n : Consumed(have, ranges)[k] \in Int
  <2> DEFINE P == {k \in 0 .. n : Consumed(have, ranges)[k] \in Int}
  <2>1. 0 \in P
    BY <1>4, <1>12
  <2>2. ASSUME NEW k \in 0 .. n - 1, k \in P PROVE k + 1 \in P
    <3>1. k + 1 \in 1 .. n /\ (k + 1) - 1 = k /\ k + 1 \in 0 .. n
      BY <1>4
    <3>2. Consumed(have, ranges)[k] \in Int
      BY <2>2
    <3>3. Consumed(have, ranges)[k + 1] \in Int
      BY <1>2, <1>12, <3>1, <3>2
    <3> QED
      BY <3>1, <3>3
  <2> HIDE DEF P
  <2>3. \A k \in 0 .. n : k \in P
    BY <1>4, <2>1, <2>2, Upwards
  <2> QED
    BY <2>3 DEF P
<1>14. Consumed(have, ranges) = [k \in 0 .. n |-> Consumed(have, ranges)[k]]
  BY <1>10
<1> QED
  BY <1>12, <1>13, <1>14 DEF n

\* Each range takes the numbers that follow, as many as it is wide.
Takes(pos, m, h, n, c) ==
  /\ pos \in [0 .. n -> Nat] /\ pos[0] = 0
  /\ \A k \in 1 .. n :
       /\ pos[k] = pos[k - 1] + (c[k].end - c[k].start + 1) /\ pos[k] <= m
       /\ \A i \in 0 .. c[k].end - c[k].start : h[pos[k - 1] + i + 1] = c[k].start + i

LEMMA Walk ==
  ASSUME NEW m \in Nat, NEW h \in [1 .. m -> Nat], Len(h) = m,
         NEW n \in Nat, NEW c \in Seq(RangeOf), Len(c) = n,
         \A k \in 1 .. n : c[k].start # 0 /\ c[k].end >= c[k].start,
         Consumed(h, c)[n] = m
  PROVE  Takes(Consumed(h, c), m, h, n, c)
<1> DEFINE pos == Consumed(h, c)
<1>1. /\ pos \in [0 .. n -> Int] /\ pos[0] = 0
      /\ \A k \in 1 .. n : pos[k] = Covers(h, pos[k - 1], c[k])
  BY ConsumedFacts
<1>2. ASSUME NEW k \in 1 .. n
      PROVE  /\ c[k].start \in Nat /\ c[k].end \in Nat
             /\ Wide(c[k]) = c[k].end - c[k].start + 1 /\ Wide(c[k]) \in Nat
  <2>1. c[k] \in RangeOf
    OBVIOUS
  <2>2. /\ c[k].start \in 1 .. Modulus - 1 /\ c[k].end \in 1 .. Modulus - 1
        /\ c[k].end >= c[k].start
    BY <2>1, ModulusType DEF RangeOf, Number
  <2>3. c[k].end - c[k].start + 1 \in 0 .. Modulus - 1
    BY <2>2, ModulusType
  <2>4. Wide(c[k]) = c[k].end - c[k].start + 1
    BY <2>3, ModulusType, Small DEF Wide
  <2> QED
    BY <2>2, <2>3, <2>4
<1>3. ASSUME NEW k \in 1 .. n
      PROVE  /\ pos[k - 1] < 0 => pos[k] < 0
             /\ pos[k] >= 0 =>
                  /\ pos[k - 1] >= 0
                  /\ pos[k] = pos[k - 1] + (c[k].end - c[k].start + 1) /\ pos[k] <= m
                  /\ \A i \in 0 .. c[k].end - c[k].start : h[pos[k - 1] + i + 1] = c[k].start + i
  <2>1. pos[k] = Covers(h, pos[k - 1], c[k]) /\ pos[k - 1] \in Int
    BY <1>1
  <2> HIDE DEF pos
  <2> DEFINE w == c[k].end - c[k].start + 1
             bad == \/ pos[k - 1] < 0 \/ pos[k - 1] >= m \/ w > m - pos[k - 1]
                    \/ \E i \in 0 .. w - 1 : h[pos[k - 1] + i + 1] # c[k].start + i
  <2>2. pos[k] = IF bad THEN -1 ELSE pos[k - 1] + w
    BY <1>2, <2>1 DEF Covers
  <2>3. w - 1 = c[k].end - c[k].start /\ w \in Nat
    BY <1>2
  <2>4. pos[k - 1] < 0 => pos[k] < 0
    BY <2>2
  <2>5. ASSUME pos[k] >= 0
        PROVE  /\ pos[k - 1] >= 0
               /\ pos[k] = pos[k - 1] + (c[k].end - c[k].start + 1) /\ pos[k] <= m
               /\ \A i \in 0 .. c[k].end - c[k].start :
                    h[pos[k - 1] + i + 1] = c[k].start + i
    <3>1. ~ bad
      BY <2>2, <2>5
    <3>2. pos[k] = pos[k - 1] + w
      BY <2>2, <3>1
    <3>3. pos[k - 1] >= 0 /\ w <= m - pos[k - 1]
      BY <2>1, <2>3, <3>1
    <3>4. \A i \in 0 .. w - 1 : h[pos[k - 1] + i + 1] = c[k].start + i
      BY <3>1
    <3> QED
      BY <2>1, <2>3, <3>2, <3>3, <3>4
  <2> QED
    BY <2>4, <2>5
<1>4. ASSUME NEW k \in 0 .. n PROVE pos[k] >= 0
  <2> SUFFICES ASSUME pos[k] < 0 PROVE FALSE
    BY <1>1
  <2> DEFINE P == {i \in 0 .. n - k : pos[k + i] < 0}
  <2>1. 0 \in P
    OBVIOUS
  <2>2. ASSUME NEW i \in 0 .. (n - k) - 1, i \in P PROVE i + 1 \in P
    <3>1. k + (i + 1) \in 1 .. n /\ (k + (i + 1)) - 1 = k + i /\ i + 1 \in 0 .. n - k
      OBVIOUS
    <3>2. pos[k + i] < 0
      BY <2>2
    <3>3. pos[k + (i + 1)] < 0
      BY <1>3, <3>1, <3>2
    <3> QED
      BY <3>1, <3>3
  <2>3. n - k \in Nat /\ n - k \in 0 .. n - k
    OBVIOUS
  <2>4. n - k \in P
    <3> HIDE DEF P
    <3> QED
      BY <2>1, <2>2, <2>3, Upwards
  <2>5. pos[k + (n - k)] < 0 /\ k + (n - k) = n
    BY <2>4
  <2> QED
    BY <2>5
<1>5. \A k \in 1 .. n : k \in 0 .. n
  OBVIOUS
<1>6. pos \in [0 .. n -> Nat]
  BY <1>1, <1>4
<1> QED
  BY <1>1, <1>3, <1>4, <1>5, <1>6 DEF Takes

Over(ranges, seq) == {i \in DOMAIN ranges : ranges[i].start <= seq /\ seq <= ranges[i].end}

\* What ValidateRawCoverage is there to prove.
Exact(seqs, ranges) ==
  /\ \A i, j \in DOMAIN seqs : i # j => seqs[i] # seqs[j]
  /\ \A i \in DOMAIN seqs : seqs[i] # 0 /\ Cardinality(Over(ranges, seqs[i])) = 1
  /\ \A c \in ToSet(ranges) : c.start <= c.end /\ c.start .. c.end \subseteq ToSet(seqs)

\* A function of the places up to n is a sequence.
LEMMA LenIs ==
  ASSUME NEW n \in Nat, NEW A, NEW q \in [1 .. n -> A]
  PROVE  q \in Seq(A) /\ Len(q) = n
OBVIOUS

\* A set with one element.
LEMMA One ==
  ASSUME NEW n \in Nat, NEW S \in SUBSET (1 .. n)
  PROVE  Cardinality(S) = 1 <=> \E x \in S : \A y \in S : y = x
<1>1. IsFiniteSet(1 .. n)
  BY FS_Interval
<1>2. IsFiniteSet(S)
  BY <1>1, FS_Subset
<1>3. Cardinality(S) = 1 <=> \E x : S = {x}
  BY <1>2, FS_Singleton
<1>4. ASSUME NEW x, S = {x} PROVE x \in S /\ \A y \in S : y = x
  BY <1>4
<1>5. ASSUME NEW x \in S, \A y \in S : y = x PROVE S = {x}
  BY <1>5
<1> QED
  BY <1>3, <1>4, <1>5, Zenon

\* Two sequences that both are sorted: the ranges and the numbers they are to cover.
SortedCoverage(m, h, n, c) ==
  /\ m \in Nat /\ h \in [1 .. m -> Number] /\ Len(h) = m
  /\ n \in Nat /\ c \in Seq(RangeOf) /\ Len(c) = n
  /\ \A i, j \in 1 .. m : i < j => h[i] <= h[j]
  /\ \A i, j \in 1 .. n : i < j => c[i].start <= c[j].start

\* What the walk through sorted ranges and numbers checks.
Walked(m, h, n, c) ==
  /\ \A k \in 1 .. n : c[k].start # 0 /\ c[k].end >= c[k].start
  /\ \A p \in 1 .. m : h[p] # 0
  /\ m = 0 <=> n = 0
  /\ \A k \in 2 .. n : c[k].start > c[k - 1].end
  /\ \A p \in 2 .. m : h[p] # h[p - 1]
  /\ Consumed(h, c)[n] = m

\* ... and what it means.
Partitioned(m, h, n, c) ==
  /\ \A p, q \in 1 .. m : p # q => h[p] # h[q]
  /\ \A p \in 1 .. m : h[p] # 0
  /\ \A p \in 1 .. m : \E k \in 1 .. n :
       /\ c[k].start <= h[p] /\ h[p] <= c[k].end
       /\ \A l \in 1 .. n : c[l].start <= h[p] /\ h[p] <= c[l].end => l = k
  /\ \A k \in 1 .. n : /\ c[k].start <= c[k].end
                       /\ \A x \in c[k].start .. c[k].end : \E p \in 1 .. m : h[p] = x

LEMMA SortedFactsOf ==
  ASSUME NEW m, NEW h, NEW n, NEW c, SortedCoverage(m, h, n, c)
  PROVE  /\ \A p \in 1 .. m : h[p] \in Nat
         /\ \A k \in 1 .. n : c[k].start \in Nat /\ c[k].end \in Nat
         /\ h \in [1 .. m -> Nat]
<1>1. /\ h \in [1 .. m -> Number] /\ \A k \in 1 .. n : c[k] \in RangeOf
  BY DEF SortedCoverage
<1> QED
  BY <1>1, ModulusType DEF Number, RangeOf

\* Ranges that are apart from the next are apart.
LEMMA Apart ==
  ASSUME NEW m, NEW h, NEW n, NEW c, SortedCoverage(m, h, n, c),
         \A k \in 1 .. n : c[k].end >= c[k].start,
         \A k \in 2 .. n : c[k].start > c[k - 1].end,
         NEW k \in 1 .. n, NEW l \in 1 .. n, k < l
  PROVE  c[k].end < c[l].start
<1>1. n \in Nat
  BY DEF SortedCoverage
<1>2. \A i \in 1 .. n : c[i].start \in Nat /\ c[i].end \in Nat
  BY SortedFactsOf
<1>3. l \in 2 .. n /\ l - 1 \in 1 .. n
  BY <1>1
<1>4. c[l].start > c[l - 1].end
  BY <1>3
<1>5. CASE k = l - 1
  BY <1>2, <1>4, <1>5
<1>6. CASE k # l - 1
  <2>1. k + 1 \in 2 .. n /\ k + 1 \in 1 .. n /\ (k + 1) - 1 = k /\ k + 1 <= l - 1
    BY <1>1, <1>6
  <2>2. c[k + 1].start > c[k].end
    BY <2>1
  <2>3. c[k + 1].start <= c[l - 1].start
    <3>1. CASE k + 1 = l - 1
      BY <1>2, <1>3, <2>1, <3>1
    <3>2. CASE k + 1 < l - 1
      BY <1>3, <2>1, <3>2 DEF SortedCoverage
    <3> QED
      BY <1>1, <2>1, <3>1, <3>2
  <2> QED
    BY <1>2, <1>3, <1>4, <2>1, <2>2, <2>3
<1> QED
  BY <1>5, <1>6

\* What the walk accepts is partitioned.
LEMMA WalkedIsPartitioned ==
  ASSUME NEW m, NEW h, NEW n, NEW c, SortedCoverage(m, h, n, c), Walked(m, h, n, c)
  PROVE  Partitioned(m, h, n, c)
<1> DEFINE pos == Consumed(h, c)
<1>1. /\ m \in Nat /\ Len(h) = m /\ n \in Nat /\ c \in Seq(RangeOf) /\ Len(c) = n
      /\ \A i, j \in 1 .. m : i < j => h[i] <= h[j]
  BY DEF SortedCoverage
<1>2. /\ \A p \in 1 .. m : h[p] \in Nat
      /\ \A k \in 1 .. n : c[k].start \in Nat /\ c[k].end \in Nat
      /\ h \in [1 .. m -> Nat]
  BY SortedFactsOf
<1>3. /\ \A k \in 1 .. n : c[k].start # 0 /\ c[k].end >= c[k].start
      /\ \A p \in 1 .. m : h[p] # 0
      /\ \A k \in 2 .. n : c[k].start > c[k - 1].end
      /\ \A p \in 2 .. m : h[p] # h[p - 1]
      /\ Consumed(h, c)[n] = m
  BY DEF Walked
<1>4. /\ pos \in [0 .. n -> Nat] /\ pos[0] = 0
      /\ \A k \in 1 .. n :
           /\ pos[k] = pos[k - 1] + (c[k].end - c[k].start + 1) /\ pos[k] <= m
           /\ \A i \in 0 .. c[k].end - c[k].start : h[pos[k - 1] + i + 1] = c[k].start + i
  <2>1. \A k \in 1 .. n : c[k].start # 0 /\ c[k].end >= c[k].start
    BY <1>3
  <2>2. Takes(pos, m, h, n, c)
    BY <1>1, <1>2, <1>3, <2>1, Walk
  <2> QED
    BY <2>2 DEF Takes
<1>5. ASSUME NEW p \in 1 .. m, NEW q \in 1 .. m, p < q PROVE h[p] < h[q]
  <2>1. p + 1 \in 2 .. m /\ p + 1 \in 1 .. m /\ (p + 1) - 1 = p
    BY <1>1, <1>5
  <2>2. h[p] <= h[p + 1] /\ h[p + 1] # h[p]
    BY <1>1, <1>3, <2>1
  <2>3. h[p + 1] <= h[q]
    <3>1. CASE p + 1 = q
      BY <1>2, <3>1
    <3>2. CASE p + 1 < q
      BY <1>1, <2>1, <3>2
    <3> QED
      BY <1>1, <1>5, <3>1, <3>2
  <2> QED
    BY <1>2, <2>1, <2>2, <2>3
<1>6. \A p, q \in 1 .. m : p # q => h[p] # h[q]
  <2>1. ASSUME NEW p \in 1 .. m, NEW q \in 1 .. m, p # q PROVE h[p] # h[q]
    <3>1. p < q \/ q < p
      BY <1>1, <2>1
    <3> QED
      BY <1>2, <1>5, <3>1
  <2> QED
    BY <2>1
<1>7. ASSUME NEW p \in 1 .. m
      PROVE  \E k \in 1 .. n : /\ c[k].start <= h[p] /\ h[p] <= c[k].end
                               /\ \A l \in 1 .. n : c[l].start <= h[p] /\ h[p] <= c[l].end => l = k
  <2> DEFINE S == {k \in 0 .. n : p <= pos[k]}
  <2>1. S \in SUBSET Nat /\ n \in S
    BY <1>1, <1>3
  <2>2. PICK k \in S : \A l \in S : k <= l
    BY <2>1, Least
  <2>3. k # 0 /\ k \in 1 .. n /\ k - 1 \in 0 .. n
    BY <1>1, <1>4
  <2>4. k - 1 \notin S
    BY <2>2, <2>3
  <2>5. pos[k - 1] \in Nat /\ pos[k] \in Nat /\ pos[k - 1] < p /\ p <= pos[k]
    BY <1>4, <2>3, <2>4
  <2> DEFINE i == p - pos[k - 1] - 1
  <2>6. i \in 0 .. c[k].end - c[k].start /\ pos[k - 1] + i + 1 = p
    <3>1. pos[k] = pos[k - 1] + (c[k].end - c[k].start + 1)
      BY <1>4, <2>3
    <3>2. c[k].start \in Nat /\ c[k].end \in Nat /\ p \in Nat
      BY <1>2, <2>3
    <3> HIDE DEF pos
    <3> QED
      BY <2>5, <3>1, <3>2
  <2>7. h[p] = c[k].start + i
    BY <1>4, <2>3, <2>6
  <2>8. c[k].start <= h[p] /\ h[p] <= c[k].end
    BY <1>2, <2>3, <2>6, <2>7
  <2>9. ASSUME NEW l \in 1 .. n, c[l].start <= h[p], h[p] <= c[l].end, l # k PROVE FALSE
    <3>1. l < k \/ k < l
      BY <2>3, <2>9
    <3>2. CASE l < k
      <4>1. c[l].end < c[k].start
        BY <1>3, <2>3, <3>2, Apart
      <4> QED
        BY <1>2, <2>3, <2>8, <2>9, <4>1
    <3>3. CASE k < l
      <4>1. c[k].end < c[l].start
        BY <1>3, <2>3, <3>3, Apart
      <4> QED
        BY <1>2, <2>3, <2>8, <2>9, <4>1
    <3> QED
      BY <3>1, <3>2, <3>3
  <2> QED
    BY <2>3, <2>8, <2>9
<1>8. ASSUME NEW k \in 1 .. n, NEW x \in c[k].start .. c[k].end
      PROVE  \E p \in 1 .. m : h[p] = x
  <2> DEFINE i == x - c[k].start
  <2>1. i \in 0 .. c[k].end - c[k].start
    BY <1>2
  <2>2. h[pos[k - 1] + i + 1] = c[k].start + i /\ c[k].start + i = x
    BY <1>2, <1>4, <2>1
  <2>3. pos[k - 1] \in Nat
    BY <1>1, <1>4
  <2>4. pos[k - 1] + i + 1 \in 1 .. m
    <3>1. pos[k] = pos[k - 1] + (c[k].end - c[k].start + 1) /\ pos[k] <= m
      BY <1>4
    <3>2. c[k].start \in Nat /\ c[k].end \in Nat
      BY <1>2
    <3> DEFINE w == c[k].end - c[k].start
    <3>3. w \in Int /\ i \in 0 .. w /\ pos[k] = pos[k - 1] + (w + 1)
      BY <2>1, <3>1, <3>2
    <3> HIDE DEF pos, i, w
    <3>4. i \in Nat /\ i <= w
      BY <3>3
    <3>5. pos[k - 1] + i + 1 <= m
      BY <1>1, <2>3, <3>1, <3>3, <3>4
    <3> QED
      BY <1>1, <2>3, <3>4, <3>5
  <2> QED
    BY <2>2, <2>4
<1> QED
  BY <1>2, <1>3, <1>6, <1>7, <1>8 DEF Partitioned

\* ... and what is partitioned, it accepts.
LEMMA PartitionedIsWalked ==
  ASSUME NEW m, NEW h, NEW n, NEW c, SortedCoverage(m, h, n, c), Partitioned(m, h, n, c)
  PROVE  Walked(m, h, n, c)
<1> DEFINE pos == Consumed(h, c)
<1>1. /\ m \in Nat /\ Len(h) = m /\ n \in Nat /\ c \in Seq(RangeOf) /\ Len(c) = n
      /\ \A i, j \in 1 .. m : i < j => h[i] <= h[j]
      /\ \A i, j \in 1 .. n : i < j => c[i].start <= c[j].start
  BY DEF SortedCoverage
<1>2. /\ \A p \in 1 .. m : h[p] \in Nat
      /\ \A k \in 1 .. n : c[k].start \in Nat /\ c[k].end \in Nat
      /\ \A k \in 1 .. n : c[k] \in RangeOf
  <2>1. \A k \in 1 .. n : c[k] \in RangeOf
    BY DEF SortedCoverage
  <2> QED
    BY <2>1, SortedFactsOf
<1>3. /\ \A p, q \in 1 .. m : p # q => h[p] # h[q]
      /\ \A p \in 1 .. m : h[p] # 0
      /\ \A p \in 1 .. m : \E k \in 1 .. n :
           /\ c[k].start <= h[p] /\ h[p] <= c[k].end
           /\ \A l \in 1 .. n : c[l].start <= h[p] /\ h[p] <= c[l].end => l = k
      /\ \A k \in 1 .. n : c[k].start <= c[k].end
      /\ \A k \in 1 .. n : \A x \in c[k].start .. c[k].end : \E p \in 1 .. m : h[p] = x
  BY DEF Partitioned
<1>4. ASSUME NEW p \in 1 .. m, NEW q \in 1 .. m PROVE p < q <=> h[p] < h[q]
  <2>1. p < q => h[p] < h[q]
    BY <1>1, <1>2, <1>3
  <2>2. q < p => h[q] < h[p]
    BY <1>1, <1>2, <1>3
  <2>3. q = p => h[q] = h[p]
    OBVIOUS
  <2>4. p \in Nat /\ q \in Nat /\ h[p] \in Nat /\ h[q] \in Nat
    BY <1>1, <1>2
  <2> QED
    BY <2>1, <2>2, <2>3, <2>4
<1>5. ASSUME NEW k \in 1 .. n PROVE \E p \in 1 .. m : h[p] = c[k].start
  <2>1. c[k].start \in c[k].start .. c[k].end
    BY <1>2, <1>3
  <2> QED
    BY <1>3, <2>1
<1>6. \A k \in 1 .. n : c[k].start # 0 /\ c[k].end >= c[k].start
  <2>1. ASSUME NEW k \in 1 .. n PROVE c[k].start # 0 /\ c[k].end >= c[k].start
    BY <1>2, <1>3, <1>5
  <2> QED
    BY <2>1
<1>7. m = 0 <=> n = 0
  <2>1. ASSUME m = 0, n # 0 PROVE FALSE
    <3>1. 1 \in 1 .. n
      BY <1>1, <2>1
    <3> QED
      BY <1>5, <2>1, <3>1
  <2>2. ASSUME n = 0, m # 0 PROVE FALSE
    <3>1. 1 \in 1 .. m
      BY <1>1, <2>2
    <3> QED
      BY <1>3, <2>2, <3>1
  <2> QED
    BY <2>1, <2>2
<1>8. \A k \in 2 .. n : c[k].start > c[k - 1].end
  <2>1. ASSUME NEW k \in 2 .. n, ~(c[k].start > c[k - 1].end) PROVE FALSE
    <3>1. k \in 1 .. n /\ k - 1 \in 1 .. n /\ k - 1 < k /\ k - 1 # k
      BY <1>1
    <3>2. c[k - 1].start <= c[k].start /\ c[k].start <= c[k - 1].end
      BY <1>1, <1>2, <2>1, <3>1
    <3>3. PICK p \in 1 .. m : h[p] = c[k].start
      BY <1>5, <3>1
    <3>4. c[k].start <= h[p] /\ h[p] <= c[k].end
      BY <1>2, <1>3, <3>1, <3>3
    <3>5. c[k - 1].start <= h[p] /\ h[p] <= c[k - 1].end
      BY <3>2, <3>3
    <3>6. PICK j \in 1 .. n :
            \A l \in 1 .. n : c[l].start <= h[p] /\ h[p] <= c[l].end => l = j
      BY <1>3
    <3> QED
      BY <3>1, <3>4, <3>5, <3>6
  <2> QED
    BY <2>1
<1>9. ASSUME NEW k \in 1 .. n, NEW l \in 1 .. n, k < l PROVE c[k].end < c[l].start
  BY <1>6, <1>8, <1>9, Apart
<1>10. /\ pos \in [0 .. n -> Int] /\ pos[0] = 0
       /\ \A k \in 1 .. n : pos[k] = Covers(h, pos[k - 1], c[k])
  BY <1>1, ConsumedFacts
<1> DEFINE Taken(k) == /\ pos[k] \in 0 .. m
                       /\ \A p \in 1 .. m : p <= pos[k] <=> k # 0 /\ h[p] <= c[k].end
<1>11. ASSUME NEW k \in 0 .. n - 1, Taken(k) PROVE Taken(k + 1)
  <2> DEFINE l == k + 1
             w == c[l].end - c[l].start + 1
             p1 == pos[k] + 1
  <2>1. l \in 1 .. n /\ l - 1 = k /\ k \in Nat
    BY <1>1
  <2>2. PICK p0 \in 1 .. m : h[p0] = c[l].start
    BY <1>5, <2>1
  <2>3. ~(p0 <= pos[k])
    <3>1. CASE k = 0
      BY <1>11, <3>1
    <3>2. CASE k # 0
      <4>1. k \in 1 .. n /\ k < l
        BY <1>1, <2>1, <3>2
      <4>2. c[k].end < c[l].start
        BY <1>9, <2>1, <4>1
      <4>3. ~(h[p0] <= c[k].end)
        BY <1>2, <2>1, <2>2, <4>1, <4>2
      <4> QED
        BY <1>11, <4>3
    <3> QED
      BY <3>1, <3>2
  <2>4. p1 \in 1 .. m /\ p1 <= p0 /\ ~(p1 <= pos[k]) /\ pos[k] \in Nat
    BY <1>1, <1>11, <2>2, <2>3
  <2>5. h[p1] <= c[l].start
    BY <1>1, <1>2, <2>2, <2>4
  <2>6. PICK j \in 1 .. n : c[j].start <= h[p1] /\ h[p1] <= c[j].end
    BY <1>3, <2>4
  <2>7. ~(j <= k)
    <3>1. ASSUME j <= k PROVE FALSE
      <4>1. k \in 1 .. n /\ k # 0
        BY <1>1, <2>1, <3>1
      <4>2. ~(h[p1] <= c[k].end)
        BY <1>11, <2>4, <4>1
      <4>3. CASE j = k
        BY <2>6, <4>2, <4>3
      <4>4. CASE j < k
        <5>1. c[j].end < c[k].start /\ c[k].start <= c[k].end
          BY <1>9, <1>3, <4>1, <4>4
        <5> QED
          BY <1>2, <2>4, <2>6, <4>1, <4>2, <5>1
      <4> QED
        BY <3>1, <4>1, <4>3, <4>4
    <3> QED
      BY <3>1
  <2>8. h[p1] = c[l].start
    <3>1. CASE j = l
      BY <1>2, <2>1, <2>4, <2>5, <2>6, <3>1
    <3>2. CASE l < j
      <4>1. c[l].end < c[j].start /\ c[l].start <= c[l].end
        BY <1>9, <1>3, <2>1, <3>2
      <4> QED
        BY <1>2, <2>1, <2>4, <2>5, <2>6, <4>1
    <3> QED
      BY <2>1, <2>7, <3>1, <3>2
  <2>9. w \in Nat /\ w - 1 \in Nat /\ w - 1 = c[l].end - c[l].start
    BY <1>2, <1>3, <2>1
  <2>10. \A i \in 0 .. w - 1 : p1 + i \in 1 .. m /\ h[p1 + i] = c[l].start + i
    <3> DEFINE P == {i \in 0 .. w - 1 : p1 + i \in 1 .. m /\ h[p1 + i] = c[l].start + i}
    <3>1. 0 \in P
      BY <1>2, <2>1, <2>4, <2>8, <2>9
    <3>2. ASSUME NEW i \in 0 .. (w - 1) - 1, i \in P PROVE i + 1 \in P
      <4>1. p1 + i \in 1 .. m /\ h[p1 + i] = c[l].start + i /\ i \in Nat /\ i + 1 \in 0 .. w - 1
        BY <2>9, <3>2
      <4>2. c[l].start + (i + 1) \in c[l].start .. c[l].end
        BY <1>2, <2>1, <2>9, <4>1
      <4>3. PICK q \in 1 .. m : h[q] = c[l].start + (i + 1)
        BY <1>3, <2>1, <4>2
      <4>4. h[p1 + i] < h[q]
        BY <1>2, <2>1, <4>1, <4>3
      <4>5. p1 + i < q
        BY <1>4, <4>1, <4>4
      <4>6. p1 + (i + 1) \in 1 .. m /\ p1 + (i + 1) <= q /\ p1 + i < p1 + (i + 1)
        <5>1. p1 \in Nat /\ q \in Nat /\ q <= m /\ p1 >= 1
          BY <1>1, <2>4
        <5> HIDE DEF p1
        <5> QED
          BY <1>1, <4>1, <4>5, <5>1
      <4>7. h[p1 + i] < h[p1 + (i + 1)]
        BY <1>4, <4>1, <4>6
      <4>8. h[p1 + (i + 1)] <= h[q]
        <5>1. CASE p1 + (i + 1) = q
          BY <1>2, <4>3, <5>1
        <5>2. CASE p1 + (i + 1) < q
          BY <1>1, <4>6, <4>3, <5>2
        <5> QED
          BY <2>4, <4>1, <4>6, <4>3, <5>1, <5>2
      <4>9. h[p1 + (i + 1)] = c[l].start + (i + 1)
        BY <1>2, <2>1, <4>1, <4>3, <4>6, <4>7, <4>8
      <4> QED
        BY <4>1, <4>6, <4>9
    <3> HIDE DEF P, w, p1
    <3>3. \A i \in 0 .. w - 1 : i \in P
      BY <2>9, <3>1, <3>2, Upwards
    <3> QED
      BY <3>3 DEF P
  <2>11. w - 1 \in 0 .. w - 1 /\ p1 + (w - 1) = pos[k] + w
    BY <2>4, <2>9
  <2>12. pos[k] + w \in 1 .. m /\ h[pos[k] + w] = c[l].end
    BY <1>2, <2>1, <2>9, <2>10, <2>11
  <2>13. Wide(c[l]) = w
    <3>1. c[l].start \in 1 .. Modulus - 1 /\ c[l].end \in 0 .. Modulus - 1
      BY <1>2, <1>6, <2>1, ModulusType DEF RangeOf, Number
    <3>2. w \in 0 .. Modulus - 1
      BY <1>3, <2>1, <2>9, <3>1, ModulusType
    <3> QED
      BY <3>2, ModulusType, Small DEF Wide
  <2>14. \A i \in 0 .. w - 1 : h[pos[k] + i + 1] = c[l].start + i
    <3>1. \A i \in 0 .. w - 1 : p1 + i = pos[k] + i + 1
      BY <2>4, <2>9
    <3> QED
      BY <2>10, <3>1
  <2>15. pos[l] = pos[k] + w
    <3>1. pos[l] = Covers(h, pos[k], c[l])
      BY <1>10, <2>1
    <3>2. ~(pos[k] < 0) /\ ~(pos[k] >= m) /\ ~(w > m - pos[k])
      BY <1>1, <2>4, <2>9, <2>12
    <3> HIDE DEF w, pos, l
    <3> QED
      BY <1>1, <2>13, <2>14, <3>1, <3>2 DEF Covers
  <2>16. ASSUME NEW p \in 1 .. m PROVE p <= pos[l] <=> h[p] <= c[l].end
    <3>1. pos[l] \in 1 .. m /\ h[pos[l]] = c[l].end
      BY <2>12, <2>15
    <3>2. pos[l] < p <=> h[pos[l]] < h[p]
      BY <1>4, <3>1
    <3>3. p \in Nat /\ pos[l] \in Nat /\ h[p] \in Nat /\ h[pos[l]] \in Nat
      BY <1>1, <1>2, <3>1
    <3> HIDE DEF pos, l
    <3> QED
      BY <3>1, <3>2, <3>3
  <2> QED
    BY <2>1, <2>12, <2>15, <2>16
<1>12. Taken(n)
  <2> DEFINE P == {k \in 0 .. n : Taken(k)}
  <2>1. Taken(0) /\ 0 \in 0 .. n
    BY <1>1, <1>10
  <2>2. 0 \in P
    BY <2>1
  <2>3. ASSUME NEW k \in 0 .. n - 1, k \in P PROVE k + 1 \in P
    <3>1. k + 1 \in 0 .. n
      BY <1>1
    <3>2. Taken(k)
      BY <2>3
    <3> HIDE DEF Taken
    <3> QED
      BY <1>11, <3>1, <3>2
  <2> HIDE DEF P, Taken
  <2>4. \A k \in 0 .. n : k \in P
    BY <1>1, <2>2, <2>3, Upwards
  <2>5. n \in 0 .. n
    BY <1>1
  <2> QED
    BY <2>4, <2>5 DEF P
<1>13. pos[n] = m
  <2>1. CASE m = 0
    BY <1>12, <2>1
  <2>2. CASE m # 0
    <3>1. m \in 1 .. m /\ n \in 1 .. n
      BY <1>1, <1>7, <2>2
    <3>2. PICK j \in 1 .. n : c[j].start <= h[m] /\ h[m] <= c[j].end
      BY <1>3, <3>1
    <3>3. h[m] <= c[n].end
      <4>1. CASE j = n
        BY <3>2, <4>1
      <4>2. CASE j < n
        <5>1. c[j].end < c[n].start /\ c[n].start <= c[n].end
          BY <1>9, <1>3, <3>1, <4>2
        <5> QED
          BY <1>2, <3>1, <3>2, <5>1
      <4> QED
        BY <1>1, <4>1, <4>2
    <3>4. m <= pos[n]
      BY <1>12, <1>1, <3>1, <3>3
    <3> QED
      BY <1>12, <1>1, <3>4
  <2> QED
    BY <2>1, <2>2
<1>14. \A p \in 2 .. m : h[p] # h[p - 1]
  BY <1>1, <1>3
<1> QED
  BY <1>3, <1>6, <1>7, <1>8, <1>13, <1>14 DEF Walked

\* ValidateRawCoverage accepts exactly the ranges that hold every number once and no other.
LEMMA Coverage ==
  ASSUME NEW seqs \in Seq(Number), NEW ranges \in Seq(RangeOf)
  PROVE  ValidCoverage(seqs, ranges) <=> Exact(seqs, ranges)
<1> DEFINE m == Len(seqs)
           n == Len(ranges)
           key == [i \in DOMAIN ranges |-> ranges[i].start]
           h == Sorted(seqs, seqs)
           c == Sorted(ranges, key)
<1>1. /\ m \in Nat /\ DOMAIN seqs = 1 .. m /\ n \in Nat /\ DOMAIN ranges = 1 .. n
      /\ ToSet(seqs) = {seqs[i] : i \in 1 .. m} /\ ToSet(ranges) = {ranges[i] : i \in 1 .. n}
      /\ (seqs = <<>> <=> m = 0) /\ (ranges = <<>> <=> n = 0)
  BY DEF ToSet
<1>2. /\ \A i \in 1 .. m : seqs[i] \in Number /\ seqs[i] \in Nat
      /\ \A i \in 1 .. n : /\ ranges[i] \in RangeOf
                           /\ ranges[i].start \in Nat /\ ranges[i].end \in Nat
  <2>1. \A i \in 1 .. m : seqs[i] \in Number
    OBVIOUS
  <2>2. \A i \in 1 .. n : ranges[i] \in RangeOf
    OBVIOUS
  <2>3. \A x \in Number : x \in Nat
    BY ModulusType DEF Number
  <2>4. \A x \in RangeOf : x.start \in Nat /\ x.end \in Nat
    BY <2>3 DEF RangeOf
  <2> QED
    BY <2>1, <2>2, <2>3, <2>4
<1>3. key \in [1 .. n -> Nat] /\ seqs \in [1 .. m -> Nat]
  BY <1>1, <1>2
<1>4. \A i \in 1 .. n : key[i] = ranges[i].start
  BY <1>1
<1> HIDE DEF m, n, key
<1>5. PICK g : Orders(g, m, seqs) /\ h = [k \in 1 .. m |-> seqs[g[k]]]
  BY <1>1, <1>3, SortedFacts
<1>6. PICK f : Orders(f, n, key) /\ c = [k \in 1 .. n |-> ranges[f[k]]]
  BY <1>1, <1>3, SortedFacts
<1>7. /\ g \in [1 .. m -> 1 .. m]
      /\ \A k, l \in 1 .. m : k < l => seqs[g[k]] <= seqs[g[l]]
      /\ \A k, l \in 1 .. m : g[k] = g[l] => k = l
      /\ \A i \in 1 .. m : \E k \in 1 .. m : g[k] = i
  BY <1>5 DEF Orders
<1>8. /\ f \in [1 .. n -> 1 .. n]
      /\ \A k, l \in 1 .. n : k < l => key[f[k]] <= key[f[l]]
      /\ \A k, l \in 1 .. n : f[k] = f[l] => k = l
      /\ \A i \in 1 .. n : \E k \in 1 .. n : f[k] = i
  BY <1>6 DEF Orders
<1>9. /\ \A p \in 1 .. m : g[p] \in 1 .. m /\ h[p] = seqs[g[p]]
      /\ \A k \in 1 .. n : f[k] \in 1 .. n /\ c[k] = ranges[f[k]]
      /\ Len(h) = m /\ Len(c) = n /\ DOMAIN h = 1 .. m /\ DOMAIN c = 1 .. n
      /\ h \in [1 .. m -> Number] /\ c \in Seq(RangeOf)
  <2> HIDE DEF h, c
  <2>1. /\ \A p \in 1 .. m : g[p] \in 1 .. m /\ h[p] = seqs[g[p]]
        /\ \A k \in 1 .. n : f[k] \in 1 .. n /\ c[k] = ranges[f[k]]
        /\ DOMAIN h = 1 .. m /\ DOMAIN c = 1 .. n
    BY <1>5, <1>6, <1>7, <1>8
  <2>2. h \in [1 .. m -> Number] /\ c \in [1 .. n -> RangeOf]
    BY <1>2, <1>5, <1>6, <2>1
  <2>3. c \in Seq(RangeOf) /\ Len(c) = n
    BY <1>1, <2>2, LenIs
  <2>4. Len(h) = m
    BY <1>1, <2>2, LenIs
  <2> QED
    BY <2>1, <2>2, <2>3, <2>4
<1> HIDE DEF h, c
<1>10. SortedCoverage(m, h, n, c)
  <2>1. \A i, j \in 1 .. m : i < j => h[i] <= h[j]
    <3>1. \A i \in 1 .. m : seqs[g[i]] = h[i]
      BY <1>9
    <3> QED
      BY <1>7, <3>1
  <2>2. \A i, j \in 1 .. n : i < j => c[i].start <= c[j].start
    <3>1. \A i \in 1 .. n : key[f[i]] = c[i].start
      BY <1>9, <1>4
    <3> SUFFICES ASSUME NEW i \in 1 .. n, NEW j \in 1 .. n, i < j
                 PROVE  c[i].start <= c[j].start
      OBVIOUS
    <3> HIDE DEF key
    <3>2. key[f[i]] <= key[f[j]]
      BY <1>8
    <3>3. key[f[i]] = c[i].start /\ key[f[j]] = c[j].start
      BY <3>1
    <3> QED
      BY <3>2, <3>3
  <2> QED
    BY <1>1, <1>9, <2>1, <2>2 DEF SortedCoverage
<1>11. /\ \A p \in 1 .. m : \E i \in 1 .. m : seqs[i] = h[p]
       /\ \A i \in 1 .. m : \E p \in 1 .. m : seqs[i] = h[p]
       /\ \A x : x \in ToSet(seqs) <=> \E p \in 1 .. m : h[p] = x
  <2>1. \A p \in 1 .. m : \E i \in 1 .. m : seqs[i] = h[p]
    BY <1>9
  <2>2. \A i \in 1 .. m : \E p \in 1 .. m : seqs[i] = h[p]
    <3>1. ASSUME NEW i \in 1 .. m PROVE \E p \in 1 .. m : seqs[i] = h[p]
      <4>1. PICK p \in 1 .. m : g[p] = i
        BY <1>7
      <4> QED
        BY <1>9, <4>1
    <3> QED
      BY <3>1
  <2>3. \A x : x \in ToSet(seqs) <=> \E i \in 1 .. m : seqs[i] = x
    BY <1>1
  <2> QED
    BY <2>1, <2>2, <2>3
<1>12. /\ \A k \in 1 .. n : c[k] \in ToSet(ranges)
       /\ \A r \in ToSet(ranges) : \E k \in 1 .. n : c[k] = r
  <2>1. \A k \in 1 .. n : c[k] \in ToSet(ranges)
    BY <1>1, <1>9
  <2>2. ASSUME NEW r \in ToSet(ranges) PROVE \E k \in 1 .. n : c[k] = r
    <3>1. PICK i \in 1 .. n : ranges[i] = r
      BY <1>1
    <3>2. PICK k \in 1 .. n : f[k] = i
      BY <1>8
    <3> QED
      BY <1>9, <3>1, <3>2
  <2> QED
    BY <2>1, <2>2
<1>13. ValidCoverage(seqs, ranges) <=> Walked(m, h, n, c)
  <2>1. /\ (\A r \in ToSet(ranges) : r.start # 0 /\ r.end >= r.start)
             <=> (\A k \in 1 .. n : c[k].start # 0 /\ c[k].end >= c[k].start)
    <3>1. ASSUME \A r \in ToSet(ranges) : r.start # 0 /\ r.end >= r.start
          PROVE  \A k \in 1 .. n : c[k].start # 0 /\ c[k].end >= c[k].start
      BY <1>12, <3>1
    <3>2. ASSUME \A k \in 1 .. n : c[k].start # 0 /\ c[k].end >= c[k].start,
                 NEW r \in ToSet(ranges)
          PROVE  r.start # 0 /\ r.end >= r.start
      BY <1>12, <3>2
    <3> QED
      BY <3>1, <3>2
  <2>2. 0 \notin ToSet(seqs) <=> \A p \in 1 .. m : h[p] # 0
    BY <1>1, <1>7, <1>9, <1>11
  <2>3. ValidCoverage(seqs, ranges) <=>
          /\ \A r \in ToSet(ranges) : r.start # 0 /\ r.end >= r.start
          /\ 0 \notin ToSet(seqs) /\ (seqs = <<>>) = (ranges = <<>>)
          /\ \A i \in 2 .. Len(c) : c[i].start > c[i - 1].end
          /\ \A i \in 2 .. Len(h) : h[i] # h[i - 1]
          /\ Consumed(h, c)[Len(c)] = Len(h)
    BY DEF ValidCoverage, h, c, key
  <2>4. (seqs = <<>>) = (ranges = <<>>) <=> (m = 0 <=> n = 0)
    BY <1>1
  <2> QED
    BY <1>9, <2>1, <2>2, <2>3, <2>4 DEF Walked
<1>14. Exact(seqs, ranges) <=> Partitioned(m, h, n, c)
  <2>1. (\A i, j \in 1 .. m : i # j => seqs[i] # seqs[j])
          <=> (\A p, q \in 1 .. m : p # q => h[p] # h[q])
    <3>1. ASSUME \A i, j \in 1 .. m : i # j => seqs[i] # seqs[j],
                 NEW p \in 1 .. m, NEW q \in 1 .. m, p # q
          PROVE  h[p] # h[q]
      <4>1. g[p] # g[q] /\ g[p] \in 1 .. m /\ g[q] \in 1 .. m
        BY <1>7, <1>9, <3>1
      <4>2. seqs[g[p]] # seqs[g[q]]
        BY <3>1, <4>1, Zenon
      <4>3. h[p] = seqs[g[p]] /\ h[q] = seqs[g[q]]
        BY <1>9
      <4> QED
        BY <4>2, <4>3
    <3>2. ASSUME \A p, q \in 1 .. m : p # q => h[p] # h[q],
                 NEW i \in 1 .. m, NEW j \in 1 .. m, i # j
          PROVE  seqs[i] # seqs[j]
      <4>1. PICK p \in 1 .. m : g[p] = i
        BY <1>7
      <4>2. PICK q \in 1 .. m : g[q] = j
        BY <1>7
      <4>3. p # q /\ h[p] = seqs[i] /\ h[q] = seqs[j]
        BY <1>9, <3>2, <4>1, <4>2
      <4> QED
        BY <3>2, <4>3
    <3> QED
      BY <3>1, <3>2
  <2>2. \A i \in 1 .. m : Over(ranges, seqs[i]) \in SUBSET (1 .. n)
    BY <1>1 DEF Over
  <2>3. ASSUME NEW p \in 1 .. m
        PROVE  Cardinality(Over(ranges, h[p])) = 1 <=>
                 \E k \in 1 .. n :
                   /\ c[k].start <= h[p] /\ h[p] <= c[k].end
                   /\ \A l \in 1 .. n : c[l].start <= h[p] /\ h[p] <= c[l].end => l = k
    <3>1. \A i \in 1 .. n :
            i \in Over(ranges, h[p]) <=> ranges[i].start <= h[p] /\ h[p] <= ranges[i].end
      BY <1>1 DEF Over
    <3>2. Cardinality(Over(ranges, h[p])) = 1 <=>
            \E x \in Over(ranges, h[p]) : \A y \in Over(ranges, h[p]) : y = x
      BY <1>1, <1>9, <2>2, One
    <3>3. \A k \in 1 .. n :
            f[k] \in Over(ranges, h[p]) <=> c[k].start <= h[p] /\ h[p] <= c[k].end
      BY <1>9, <3>1
    <3>4. \A i \in Over(ranges, h[p]) : i \in 1 .. n
      BY <1>9, <2>2
    <3>5. (\E x \in Over(ranges, h[p]) : \A y \in Over(ranges, h[p]) : y = x) <=>
            (\E k \in 1 .. n : /\ f[k] \in Over(ranges, h[p])
                               /\ \A l \in 1 .. n : f[l] \in Over(ranges, h[p]) => l = k)
      <4>1. ASSUME NEW x \in Over(ranges, h[p]), \A y \in Over(ranges, h[p]) : y = x
            PROVE  \E k \in 1 .. n : /\ f[k] \in Over(ranges, h[p])
                                     /\ \A l \in 1 .. n : f[l] \in Over(ranges, h[p]) => l = k
        <5>1. PICK k \in 1 .. n : f[k] = x
          BY <1>8, <3>4
        <5> QED
          BY <1>8, <4>1, <5>1
      <4>2. ASSUME NEW k \in 1 .. n, f[k] \in Over(ranges, h[p]),
                   \A l \in 1 .. n : f[l] \in Over(ranges, h[p]) => l = k
            PROVE  \E x \in Over(ranges, h[p]) : \A y \in Over(ranges, h[p]) : y = x
        <5>1. ASSUME NEW y \in Over(ranges, h[p]) PROVE y = f[k]
          <6>1. PICK l \in 1 .. n : f[l] = y
            BY <1>8, <3>4
          <6> QED
            BY <4>2, <6>1
        <5> QED
          BY <4>2, <5>1
      <4> QED
        BY <4>1, <4>2
    <3> QED
      BY <3>2, <3>3, <3>5
  <2>4. (\A i \in 1 .. m : seqs[i] # 0 /\ Cardinality(Over(ranges, seqs[i])) = 1)
          <=> (\A p \in 1 .. m : h[p] # 0 /\ Cardinality(Over(ranges, h[p])) = 1)
    <3>1. ASSUME \A i \in 1 .. m : seqs[i] # 0 /\ Cardinality(Over(ranges, seqs[i])) = 1,
                 NEW p \in 1 .. m
          PROVE  h[p] # 0 /\ Cardinality(Over(ranges, h[p])) = 1
      <4>1. PICK i \in 1 .. m : seqs[i] = h[p]
        BY <1>11
      <4> QED
        BY <3>1, <4>1
    <3>2. ASSUME \A p \in 1 .. m : h[p] # 0 /\ Cardinality(Over(ranges, h[p])) = 1,
                 NEW i \in 1 .. m
          PROVE  seqs[i] # 0 /\ Cardinality(Over(ranges, seqs[i])) = 1
      <4>1. PICK p \in 1 .. m : seqs[i] = h[p]
        BY <1>11
      <4> QED
        BY <3>2, <4>1
    <3> QED
      BY <3>1, <3>2
  <2>5. (\A r \in ToSet(ranges) : r.start <= r.end /\ r.start .. r.end \subseteq ToSet(seqs))
          <=> (\A k \in 1 .. n : /\ c[k].start <= c[k].end
                                 /\ \A x \in c[k].start .. c[k].end : \E p \in 1 .. m : h[p] = x)
    <3>1. \A x : x \in ToSet(seqs) <=> \E p \in 1 .. m : h[p] = x
      BY <1>7, <1>9, <1>11
    <3>2. (\A r \in ToSet(ranges) : r.start <= r.end /\ r.start .. r.end \subseteq ToSet(seqs))
            <=> (\A k \in 1 .. n : /\ c[k].start <= c[k].end
                                   /\ c[k].start .. c[k].end \subseteq ToSet(seqs))
      <4>1. ASSUME \A r \in ToSet(ranges) : /\ r.start <= r.end
                                           /\ r.start .. r.end \subseteq ToSet(seqs),
                   NEW k \in 1 .. n
            PROVE  c[k].start <= c[k].end /\ c[k].start .. c[k].end \subseteq ToSet(seqs)
        BY <1>12, <4>1
      <4>2. ASSUME \A k \in 1 .. n : /\ c[k].start <= c[k].end
                                     /\ c[k].start .. c[k].end \subseteq ToSet(seqs),
                   NEW r \in ToSet(ranges)
            PROVE  r.start <= r.end /\ r.start .. r.end \subseteq ToSet(seqs)
        <5>1. PICK k \in 1 .. n : c[k] = r
          BY <1>12
        <5> QED
          BY <4>2, <5>1
      <4> QED
        BY <4>1, <4>2, Zenon
    <3> QED
      BY <3>1, <3>2
  <2> QED
    BY <1>1, <2>1, <2>3, <2>4, <2>5 DEF Exact, Partitioned
<1> QED
  BY <1>10, <1>13, <1>14, WalkedIsPartitioned, PartitionedIsWalked

-----------------------------------------------------------------------------
(* The types of the pipeline's state.                                        *)

ShaOf == [sensor : Sensors, seq : Nat]
Chunk == [stream : Streams, n : Nat, bytes : Seq(Nat), eof : BOOLEAN, offset : Nat]
Flow == [stream : Streams, bytes : Seq(Nat), denied : BOOLEAN]

RecordsOf(s, t, Body) ==
  [sensor : {s}, seq : Number, prev : Nat, type : {t}, body : Body, sha : ShaOf]
EventsOf(s, t, Body) ==
  [type : {t}, sensor : {s}, start : Number, end : Number, sha : ShaOf, details : Body]

Record == RecordsOf("workload", "output", {<<>>})
          \cup RecordsOf("workload", "network/plaintext", Chunk)
          \cup RecordsOf("boundary", "network/flow", Flow)
Reference == EventsOf("workload", "output", {<<>>})
             \cup EventsOf("workload", "network/plaintext", Chunk)
             \cup EventsOf("boundary", "network/flow", Flow)
Event == Reference \cup {Mark("run/start"), Mark("run/finish")}

Types ==
  /\ backend \in Backends
  /\ at \in {"capturing", "captured", "appended", "failed", "accepted", "refused"}
  /\ connection \in [Streams -> {"new", "open", "closed", "denied", "reported"}]
  /\ sent \in [Streams -> Nat] /\ captured \in [Streams -> Nat] /\ unended \subseteq Streams
  /\ wrote \in [Sensors -> Seq(Record)] /\ records \in Seq(Record)
  /\ heads \in [Sensors -> Nat] /\ observed \in [Sensors -> Nat]
  /\ log \in Seq(Event) /\ faults \in Nat

LEMMA SensorsAre == Sensors = {"workload", "boundary"}
BY DEF Sensors

LEMMA RecordFields ==
  ASSUME NEW r \in Record
  PROVE  /\ r.sensor \in Sensors /\ r.seq \in Number /\ r.prev \in Nat /\ r.sha \in ShaOf
         /\ r.type \in {"output", "network/plaintext", "network/flow"}
         /\ r.type = "network/plaintext" => r.body \in Chunk
         /\ r.type = "network/flow" <=> r.sensor = "boundary"
         /\ r.type = "network/flow" => r.body \in Flow
         /\ EventOf(r) \in Reference
BY DEF Record, RecordsOf, Reference, EventsOf, EventOf, Sensors

LEMMA EventFields ==
  ASSUME NEW e \in Event
  PROVE  /\ e.type \in {"output", "network/plaintext", "network/flow", "run/start", "run/finish"}
         /\ e.type \in {"run/start", "run/finish"} <=> e.sensor = "none"
         /\ e.sensor # "none" => e \in Reference
BY DEF Event, Reference, EventsOf, Mark

LEMMA ReferenceFields ==
  ASSUME NEW e \in Reference
  PROVE  /\ e \in Event /\ e.sensor \in Sensors /\ e.sensor # "none"
         /\ e.start \in Number /\ e.end \in Number /\ e.sha \in ShaOf
         /\ e.type \in {"output", "network/plaintext", "network/flow"}
         /\ e.type = "network/plaintext" => e.details \in Chunk
BY DEF Event, Reference, EventsOf, Sensors

\* What a sensor writes is a record with a number of its own.
LEMMA WrittenRecords ==
  ASSUME Types, NEW s \in Sensors, NEW t, NEW b, Writes(s, t, b),
         \/ s = "workload" /\ t = "output" /\ b = <<>>
         \/ s = "workload" /\ t = "network/plaintext" /\ b \in Chunk
         \/ s = "boundary" /\ t = "network/flow" /\ b \in Flow
  PROVE  LET n == Len(wrote[s]) + 1
             r == [sensor |-> s, seq |-> n, prev |-> n - 1, type |-> t, body |-> b,
                   sha |-> [sensor |-> s, seq |-> n]]
         IN /\ r \in Record /\ n <= MaxRecords /\ n \in Nat
            /\ wrote' = [wrote EXCEPT ![s] = Append(@, r)] /\ records' = Append(records, r)
            /\ wrote' \in [Sensors -> Seq(Record)] /\ records' \in Seq(Record)
<1> DEFINE n == Len(wrote[s]) + 1
           r == [sensor |-> s, seq |-> n, prev |-> n - 1, type |-> t, body |-> b,
                 sha |-> [sensor |-> s, seq |-> n]]
<1>1. wrote[s] \in Seq(Record) /\ records \in Seq(Record) /\ wrote \in [Sensors -> Seq(Record)]
  BY DEF Types
<1>2. /\ Len(wrote["workload"]) + Len(wrote["boundary"]) < MaxRecords
      /\ wrote' = [wrote EXCEPT ![s] = Append(@, r)] /\ records' = Append(records, r)
  BY DEF Writes
<1>3. n <= MaxRecords /\ n \in Number /\ n - 1 \in Nat /\ n \in Nat
  <2>1. Len(wrote["workload"]) \in Nat /\ Len(wrote["boundary"]) \in Nat
    BY <1>1 DEF Sensors
  <2> DEFINE l == Len(wrote[s])
  <2>2. l = Len(wrote["workload"]) \/ l = Len(wrote["boundary"])
    BY DEF Sensors
  <2>3. l \in Nat /\ l < MaxRecords
    <3> DEFINE x == Len(wrote["workload"])
               y == Len(wrote["boundary"])
    <3>1. x \in Nat /\ y \in Nat /\ x + y < MaxRecords /\ (l = x \/ l = y)
      BY <1>2, <2>1, <2>2
    <3>2. MaxRecords \in Nat
      BY EvidenceAssumption
    <3> HIDE DEF l, x, y
    <3> QED
      BY <3>1, <3>2
  <2>4. n = l + 1
    OBVIOUS
  <2> HIDE DEF l
  <2>5. n <= MaxRecords /\ n \in Nat /\ n - 1 \in Nat
    BY <2>3, <2>4, EvidenceAssumption
  <2> HIDE DEF n
  <2>6. n \in Number
    BY <2>5, EvidenceAssumption, ModulusType DEF Number, Modulus
  <2> QED
    BY <2>5, <2>6
<1>4. [sensor |-> s, seq |-> n] \in ShaOf
  BY <1>3 DEF ShaOf
<1>5. r \in Record
  <2> HIDE DEF n
  <2> QED
    BY <1>3, <1>4 DEF Record, RecordsOf
<1> HIDE DEF r
<1>6. Append(records, r) \in Seq(Record) /\ Append(wrote[s], r) \in Seq(Record)
  BY <1>1, <1>5
<1>7. wrote' \in [Sensors -> Seq(Record)] /\ records' \in Seq(Record)
  BY <1>1, <1>2, <1>6
<1> QED
  BY <1>2, <1>3, <1>5, <1>7 DEF r

LEMMA DisturbedSeq ==
  ASSUME NEW A, NEW q \in Seq(A), NEW d \in Disturbed(q)
  PROVE  d \in Seq(A)
<1>1. ASSUME NEW i \in DOMAIN q, d = RemoveAt(q, i) PROVE d \in Seq(A)
  <2>1. i \in 1 .. Len(q) /\ Len(q) \in Nat /\ \A k \in 1 .. Len(q) : q[k] \in A
    OBVIOUS
  <2>2. SubSeq(q, 1, i - 1) \in Seq(A) /\ SubSeq(q, i + 1, Len(q)) \in Seq(A)
    BY <2>1, SubSeqProperties
  <2> QED
    BY <1>1, <2>2, ConcatProperties DEF RemoveAt
<1>2. ASSUME NEW i \in DOMAIN q, d = InsertAt(q, i, q[i]) PROVE d \in Seq(A)
  <2>1. i \in 1 .. Len(q) /\ Len(q) \in Nat /\ \A k \in 1 .. Len(q) : q[k] \in A
    OBVIOUS
  <2>2. SubSeq(q, 1, i - 1) \in Seq(A) /\ SubSeq(q, i, Len(q)) \in Seq(A)
    BY <2>1, SubSeqProperties
  <2>3. <<q[i]>> \in Seq(A)
    BY <2>1
  <2> QED
    BY <1>2, <2>2, <2>3, ConcatProperties DEF InsertAt
<1>3. ASSUME NEW i \in 1 .. Len(q) - 1, d = [q EXCEPT ![i] = q[i + 1], ![i + 1] = q[i]]
      PROVE  d \in Seq(A)
  <2>1. i \in 1 .. Len(q) /\ i + 1 \in 1 .. Len(q) /\ q[i] \in A /\ q[i + 1] \in A
    OBVIOUS
  <2> QED
    BY <1>3, <2>1
<1> QED
  BY <1>1, <1>2, <1>3 DEF Disturbed

LEMMA MisreadReference ==
  ASSUME NEW e \in Reference, NEW d \in Misread(e)
  PROVE  d \in Reference
<1>1. /\ e.start \in Int /\ e.end \in Int /\ 0 \in Number /\ Modulus - 1 \in Number
      /\ (e.end - 1) % Modulus \in Number
      /\ (e.start + 1) % Modulus \in Number /\ (e.end + 1) % Modulus \in Number
  BY ReferenceFields, ModulusType DEF Number
<1>2. PICK x, y \in Number : d = [e EXCEPT !.start = x, !.end = y]
  <2>1. e.start \in Number /\ e.end \in Number
    BY ReferenceFields
  <2>2. [e EXCEPT !.start = 0] = [e EXCEPT !.start = 0, !.end = e.end]
    BY DEF Reference, EventsOf
  <2>3. ASSUME NEW x PROVE [e EXCEPT !.end = x] = [e EXCEPT !.start = e.start, !.end = x]
    BY DEF Reference, EventsOf
  <2> QED
    <3>1. \/ d = [e EXCEPT !.start = 0]
          \/ d = [e EXCEPT !.end = (e.end - 1) % Modulus]
          \/ d = [e EXCEPT !.end = (e.end + 1) % Modulus]
          \/ d = [e EXCEPT !.start = (e.start + 1) % Modulus, !.end = (e.end + 1) % Modulus]
          \/ d = [e EXCEPT !.end = Modulus - 1]
      BY DEF Misread
    <3>2. \/ d = [e EXCEPT !.start = 0, !.end = e.end]
          \/ d = [e EXCEPT !.start = e.start, !.end = (e.end - 1) % Modulus]
          \/ d = [e EXCEPT !.start = e.start, !.end = (e.end + 1) % Modulus]
          \/ d = [e EXCEPT !.start = (e.start + 1) % Modulus, !.end = (e.end + 1) % Modulus]
          \/ d = [e EXCEPT !.start = e.start, !.end = Modulus - 1]
      BY <2>2, <2>3, <3>1
    <3> QED
      BY <1>1, <2>1, <3>2
<1> QED
  BY <1>2 DEF Reference, EventsOf

LEMMA InitTypes == Init => Types
BY EvidenceAssumption DEF Init, Types

LEMMA NextTypes == Types /\ [Next]_vars => Types'
<1> SUFFICES ASSUME Types, [Next]_vars PROVE Types'
  OBVIOUS
<1> USE DEF vars, wire, bundle
<1>1. CASE Outputs
  <2>1. Writes("workload", "output", <<>>) /\ "workload" \in Sensors
    BY <1>1 DEF Outputs, Sensors
  <2>2. wrote' \in [Sensors -> Seq(Record)] /\ records' \in Seq(Record)
    BY <2>1, WrittenRecords
  <2> QED
    BY <1>1, <2>2 DEF Outputs, Capturing, Types
<1>2. ASSUME NEW s \in Streams, Transfers(s) PROVE Types'
  <2>1. PICK bytes \in {<<>>, <<sent[s]>>}, eof \in BOOLEAN :
          /\ connection' = [connection EXCEPT ![s] = IF eof THEN "closed" ELSE "open"]
          /\ sent' = [sent EXCEPT ![s] = @ + Len(bytes)]
          /\ Writes("workload", "network/plaintext",
                    [stream |-> s, n |-> captured[s] + 1, bytes |-> bytes, eof |-> eof,
                     offset |-> IF s \in Datagram THEN 0 ELSE sent[s]])
    BY <1>2 DEF Transfers
  <2>2. [stream |-> s, n |-> captured[s] + 1, bytes |-> bytes, eof |-> eof,
         offset |-> IF s \in Datagram THEN 0 ELSE sent[s]] \in Chunk
    <3>1. sent[s] \in Nat /\ captured[s] + 1 \in Nat
      BY DEF Types
    <3>2. <<>> \in Seq(Nat) /\ <<sent[s]>> \in Seq(Nat)
      BY <3>1
    <3> QED
      BY <3>1, <3>2 DEF Chunk
  <2>3. wrote' \in [Sensors -> Seq(Record)] /\ records' \in Seq(Record)
    BY <2>1, <2>2, WrittenRecords DEF Sensors
  <2>4. connection' \in [Streams -> {"new", "open", "closed", "denied", "reported"}]
    BY <2>1 DEF Types
  <2>5. sent' \in [Streams -> Nat]
    BY <2>1 DEF Types
  <2> QED
    BY <1>2, <2>3, <2>4, <2>5 DEF Transfers, Capturing, Types
<1>3. ASSUME NEW s \in Streams, Misses(s) PROVE Types'
  BY <1>3 DEF Misses, Capturing, Fault, Types
<1>4. ASSUME NEW s \in Streams, Denies(s) \/ Vanishes(s) PROVE Types'
  BY <1>4 DEF Denies, Vanishes, Capturing, Types
<1>5. ASSUME NEW s \in Streams, ReportsFlow(s) PROVE Types'
  <2> DEFINE b == [stream |-> s, bytes |-> [i \in 1 .. sent[s] |-> i - 1],
                   denied |-> connection[s] = "denied"]
  <2>1. Writes("boundary", "network/flow", b)
    BY <1>5 DEF ReportsFlow
  <2>2. [i \in 1 .. sent[s] |-> i - 1] \in Seq(Nat)
    <3>1. sent[s] \in Nat
      BY DEF Types
    <3> QED
      BY <3>1
  <2>3. b \in Flow
    BY <2>2 DEF Flow
  <2>4. wrote' \in [Sensors -> Seq(Record)] /\ records' \in Seq(Record)
    <3> HIDE DEF b
    <3> QED
      BY <2>1, <2>3, WrittenRecords DEF Sensors
  <2> QED
    BY <1>5, <2>4 DEF ReportsFlow, Capturing, Types
<1>6. CASE Ends
  <2>1. heads' \in [Sensors -> Nat]
    BY <1>6 DEF Ends, Types
  <2> QED
    BY <1>6, <2>1 DEF Ends, Types
<1>7. CASE Normalizes
  <2>1. ASSUME NEW normal, normal \in Seq(Event)
        PROVE  <<Mark("run/start")>> \o normal \o <<Mark("run/finish")>> \in Seq(Event)
    <3>1. <<Mark("run/start")>> \in Seq(Event) /\ <<Mark("run/finish")>> \in Seq(Event)
      BY DEF Event
    <3>2. <<Mark("run/start")>> \o normal \in Seq(Event)
      BY <2>1, <3>1, ConcatProperties
    <3> QED
      BY <3>1, <3>2, ConcatProperties
  <2>2. \A i \in DOMAIN records : EventOf(records[i]) \in Event
    BY RecordFields, ReferenceFields DEF Types
  <2>3. [i \in DOMAIN records |-> EventOf(records[i])] \in Seq(Event)
    <3>1. DOMAIN records = 1 .. Len(records) /\ Len(records) \in Nat
      BY DEF Types
    <3>2. [i \in DOMAIN records |-> EventOf(records[i])] \in [1 .. Len(records) -> Event]
      BY <2>2, <3>1
    <3> QED
      BY <3>1, <3>2, LenIs
  <2>4. <<>> \in Seq(Event)
    OBVIOUS
  <2>5. log' \in Seq(Event)
    BY <1>7, <2>1, <2>3, <2>4 DEF Normalizes, Types
  <2> QED
    BY <1>7, <2>5 DEF Normalizes, Types
<1>8. CASE Validates
  BY <1>8 DEF Validates, Types
<1>9. CASE RecordsDisturbed
  <2>1. ASSUME NEW i \in DOMAIN records
        PROVE  [records EXCEPT ![i].seq = (@ + 1) % Modulus] \in Seq(Record)
    <3>1. records[i] \in Record /\ records \in Seq(Record)
      BY DEF Types
    <3>2. (records[i].seq + 1) % Modulus \in Number
      BY <3>1, RecordFields, ModulusType DEF Number
    <3>3. [records[i] EXCEPT !.seq = (records[i].seq + 1) % Modulus] \in Record
      BY <3>1, <3>2 DEF Record, RecordsOf
    <3>4. [records EXCEPT ![i] = [records[i] EXCEPT !.seq = (records[i].seq + 1) % Modulus]]
            \in Seq(Record)
      BY <3>1, <3>3
    <3> QED
      BY <3>4
  <2>2. records' \in Seq(Record)
    BY <1>9, <2>1, DisturbedSeq DEF RecordsDisturbed, Types
  <2> QED
    BY <1>9, <2>2 DEF RecordsDisturbed, Fault, Types
<1>10. CASE EventsDisturbed
  <2>1. ASSUME NEW i \in DOMAIN log, log[i].sensor # "none", NEW e \in Misread(log[i])
        PROVE  [log EXCEPT ![i] = e] \in Seq(Event)
    <3>1. log[i] \in Event /\ log \in Seq(Event)
      BY DEF Types
    <3>2. e \in Event
      BY <2>1, <3>1, EventFields, MisreadReference, ReferenceFields
    <3> QED
      BY <3>1, <3>2
  <2>2. log' \in Seq(Event)
    BY <1>10, <2>1, DisturbedSeq DEF EventsDisturbed, Types
  <2> QED
    BY <1>10, <2>2 DEF EventsDisturbed, Fault, Types
<1>11. CASE HealthMisreported
  BY <1>11 DEF HealthMisreported, Fault, Types
<1>12. CASE UNCHANGED vars
  BY <1>12 DEF Types
<1> QED
  BY <1>1, <1>2, <1>3, <1>4, <1>5, <1>6, <1>7, <1>8, <1>9, <1>10, <1>11, <1>12 DEF Next

\* Every record, event and number of the pipeline has its type, in Width bits where it is
\* a sequence number.
THEOREM PipelineTypes == Spec => []Types
<1>1. Init => Types
  BY InitTypes
<1>2. Types /\ [Next]_vars => Types'
  BY NextTypes
<1> QED
  BY <1>1, <1>2, PTL DEF Spec

-----------------------------------------------------------------------------
(* CoverageIsExact.                                                          *)

\* What Pick picks.
LEMMA PickSeq ==
  ASSUME NEW A, NEW q \in Seq(A), NEW S \in SUBSET (1 .. Len(q))
  PROVE  /\ Pick(q, S) \in Seq(A) /\ Len(Pick(q, S)) = Cardinality(S) /\ Cardinality(S) \in Nat
         /\ \E f : /\ Enumerates(f, S)
                   /\ \A k \in 1 .. Cardinality(S) : f[k] \in S /\ Pick(q, S)[k] = q[f[k]]
<1> DEFINE n == Cardinality(S)
<1>1. S \in SUBSET Nat /\ IsFiniteSet(S)
  <2>1. Len(q) \in Int /\ 1 \in Int
    OBVIOUS
  <2>2. IsFiniteSet(1 .. Len(q))
    BY <2>1, FS_Interval
  <2>3. S \in SUBSET Nat
    OBVIOUS
  <2>4. IsFiniteSet(S)
    BY <2>2, FS_Subset
  <2> QED
    BY <2>3, <2>4
<1>2. n \in Nat
  BY <1>1, FS_CardinalityType
<1>3. PICK f : Enumerates(f, S) /\ Pick(q, S) = [k \in 1 .. n |-> q[f[k]]]
  BY <1>1, PickFacts
<1>4. f \in [1 .. n -> S]
  BY <1>3 DEF Enumerates
<1>5. \A i \in S : q[i] \in A
  OBVIOUS
<1>6. Pick(q, S) \in [1 .. n -> A]
  BY <1>3, <1>4, <1>5
<1> HIDE DEF n
<1>7. Pick(q, S) \in Seq(A) /\ Len(Pick(q, S)) = n
  BY <1>2, <1>6, LenIs
<1>8. \A k \in 1 .. n : f[k] \in S /\ Pick(q, S)[k] = q[f[k]]
  BY <1>3, <1>4
<1> QED
  BY <1>2, <1>3, <1>7, <1>8 DEF n

\* What is of a sensor.
LEMMA OfSensor ==
  ASSUME NEW A, NEW q \in Seq(A), NEW s
  PROVE  /\ Of(s, q) \in Seq(A)
         /\ \A k \in DOMAIN Of(s, q) : Of(s, q)[k].sensor = s /\ \E i \in DOMAIN q : Of(s, q)[k] = q[i]
         /\ \A i \in DOMAIN q : q[i].sensor = s => \E k \in DOMAIN Of(s, q) : Of(s, q)[k] = q[i]
<1> DEFINE S == {i \in DOMAIN q : q[i].sensor = s}
           n == Cardinality(S)
<1>1. S \in SUBSET (1 .. Len(q)) /\ DOMAIN q = 1 .. Len(q)
  OBVIOUS
<1>2. Of(s, q) = Pick(q, S)
  BY DEF Of
<1> HIDE DEF S
<1>3. /\ Pick(q, S) \in Seq(A) /\ Len(Pick(q, S)) = n /\ n \in Nat
      /\ \E f : /\ Enumerates(f, S)
                /\ \A k \in 1 .. n : f[k] \in S /\ Pick(q, S)[k] = q[f[k]]
  BY <1>1, PickSeq
<1>4. PICK f : /\ Enumerates(f, S)
               /\ \A k \in 1 .. n : f[k] \in S /\ Pick(q, S)[k] = q[f[k]]
  BY <1>3
<1>5. DOMAIN Of(s, q) = 1 .. n /\ Of(s, q) \in Seq(A)
  BY <1>2, <1>3
<1>6. ASSUME NEW k \in 1 .. n
      PROVE  Of(s, q)[k].sensor = s /\ \E i \in DOMAIN q : Of(s, q)[k] = q[i]
  BY <1>2, <1>4 DEF S
<1>7. ASSUME NEW i \in DOMAIN q, q[i].sensor = s PROVE \E k \in 1 .. n : Of(s, q)[k] = q[i]
  <2>1. i \in S
    BY <1>7 DEF S
  <2>2. PICK k \in 1 .. n : f[k] = i
    BY <1>4, <2>1 DEF Enumerates
  <2> QED
    BY <1>2, <1>4, <2>2
<1> HIDE DEF n
<1> QED
  BY <1>5, <1>6, <1>7

\* The events that refer to records.
LEMMA NormalizedSeq ==
  ASSUME Types
  PROVE  /\ Normalized \in Seq(Reference)
         /\ \A k \in DOMAIN Normalized : \E i \in DOMAIN log : Normalized[k] = log[i]
         /\ \A i \in DOMAIN log :
              log[i].sensor # "none" => \E k \in DOMAIN Normalized : Normalized[k] = log[i]
<1> DEFINE S == {i \in DOMAIN log : log[i].type \notin {"run/start", "run/finish"}}
           n == Cardinality(S)
<1>1. log \in Seq(Event) /\ DOMAIN log = 1 .. Len(log)
  BY DEF Types
<1>2. S \in SUBSET (1 .. Len(log)) /\ Normalized = Pick(log, S)
  BY <1>1 DEF Normalized
<1>3. \A i \in DOMAIN log : (i \in S <=> log[i].sensor # "none") /\ (i \in S => log[i] \in Reference)
  BY <1>1, EventFields
<1> HIDE DEF S
<1>4. /\ Pick(log, S) \in Seq(Event) /\ Len(Pick(log, S)) = n /\ n \in Nat
      /\ \E f : /\ Enumerates(f, S)
                /\ \A k \in 1 .. n : f[k] \in S /\ Pick(log, S)[k] = log[f[k]]
  BY <1>1, <1>2, PickSeq
<1>5. PICK f : /\ Enumerates(f, S)
               /\ \A k \in 1 .. n : f[k] \in S /\ Pick(log, S)[k] = log[f[k]]
  BY <1>4
<1>6. DOMAIN Normalized = 1 .. n /\ Normalized \in Seq(Event)
  BY <1>2, <1>4
<1>7. \A k \in 1 .. n : /\ Normalized[k] \in Reference
                        /\ \E i \in DOMAIN log : Normalized[k] = log[i]
  BY <1>1, <1>2, <1>5, <1>3
<1>8. ASSUME NEW i \in DOMAIN log, log[i].sensor # "none"
      PROVE  \E k \in 1 .. n : Normalized[k] = log[i]
  <2>1. i \in S
    BY <1>8, <1>3
  <2>2. PICK k \in 1 .. n : f[k] = i
    BY <1>5, <2>1 DEF Enumerates
  <2> QED
    BY <1>2, <1>5, <2>2
<1>9. Normalized \in [1 .. n -> Reference]
  BY <1>6, <1>7
<1> HIDE DEF n
<1>10. Normalized \in Seq(Reference)
  BY <1>4, <1>9, LenIs
<1> QED
  BY <1>6, <1>7, <1>8, <1>10

LEMMA SeqsAndRanges ==
  ASSUME Types, NEW s \in Sensors
  PROVE  Seqs(s) \in Seq(Number) /\ Ranges(s) \in Seq(RangeOf)
<1>1. Of(s, records) \in Seq(Record) /\ Of(s, Normalized) \in Seq(Reference)
  BY OfSensor, NormalizedSeq DEF Types
<1>2. Seqs(s) \in Seq(Number)
  <2> DEFINE rs == Of(s, records)
  <2>1. \A i \in DOMAIN rs : rs[i].seq \in Number
    BY <1>1, RecordFields
  <2>2. DOMAIN rs = 1 .. Len(rs) /\ Len(rs) \in Nat
    BY <1>1
  <2>3. [i \in DOMAIN rs |-> rs[i].seq] \in Seq(Number)
    <3> HIDE DEF rs
    <3>1. [i \in DOMAIN rs |-> rs[i].seq] \in [1 .. Len(rs) -> Number]
      BY <2>1, <2>2
    <3> QED
      BY <2>2, <3>1, LenIs
  <2> QED
    BY <2>3 DEF Seqs
<1>3. Ranges(s) \in Seq(RangeOf)
  <2> DEFINE es == Of(s, Normalized)
  <2>1. \A i \in DOMAIN es : [start |-> es[i].start, end |-> es[i].end] \in RangeOf
    BY <1>1, ReferenceFields DEF RangeOf
  <2>2. DOMAIN es = 1 .. Len(es) /\ Len(es) \in Nat
    BY <1>1
  <2>3. [i \in DOMAIN es |-> [start |-> es[i].start, end |-> es[i].end]] \in Seq(RangeOf)
    <3> HIDE DEF es
    <3>1. [i \in DOMAIN es |-> [start |-> es[i].start, end |-> es[i].end]]
            \in [1 .. Len(es) -> RangeOf]
      BY <2>1, <2>2
    <3> QED
      BY <2>2, <3>1, LenIs
  <2> QED
    BY <2>3 DEF Ranges
<1> QED
  BY <1>2, <1>3

\* At every width: what the walk through sorted intervals accepts is what it is there to
\* prove (raw.go:183).
THEOREM ExactCoverage == Spec => []CoverageIsExact
<1>1. ASSUME Types PROVE CoverageIsExact
  <2>1. ASSUME NEW s \in Sensors PROVE ValidCoverage(Seqs(s), Ranges(s)) <=> Exact(Seqs(s), Ranges(s))
    BY <1>1, SeqsAndRanges, Coverage
  <2> QED
    BY <2>1 DEF CoverageIsExact, Exact, Over
<1> QED
  BY <1>1, PipelineTypes, PTL

-----------------------------------------------------------------------------
(* What holds on the way to a verdict.                                       *)

\* Each sensor numbers and chains its records.
Chained ==
  \A s \in Sensors : \A i \in 1 .. Len(wrote[s]) :
    /\ wrote[s][i].sensor = s /\ wrote[s][i].seq = i /\ wrote[s][i].prev = i - 1
    /\ wrote[s][i].sha = [sensor |-> s, seq |-> i]

\* The manifest's heads are those of the chains, and every stream is accounted for.
Finalized ==
  at # "capturing" =>
    /\ \A s \in Sensors : heads[s] = Len(wrote[s])
    /\ \A s \in Streams : connection[s] \in {"new", "reported"}

\* Which streams the boundary has reported, and what of them.
Flowed(i) == wrote["boundary"][i].body

Accounted ==
  /\ \A s \in Streams : connection[s] \in {"new", "denied"} => sent[s] = 0
  /\ \A s \in Streams :
       connection[s] = "reported" => \E i \in 1 .. Len(wrote["boundary"]) : Flowed(i).stream = s
  /\ \A i \in 1 .. Len(wrote["boundary"]) :
       /\ connection[Flowed(i).stream] = "reported"
       /\ Flowed(i).bytes = [k \in 1 .. sent[Flowed(i).stream] |-> k - 1]
       /\ Flowed(i).denied => sent[Flowed(i).stream] = 0


LEMMA WritesChained ==
  ASSUME Types, Chained, NEW s \in Sensors, NEW t, NEW b, Writes(s, t, b)
  PROVE  Chained'
<1> DEFINE n == Len(wrote[s]) + 1
           r == [sensor |-> s, seq |-> n, prev |-> n - 1, type |-> t, body |-> b,
                 sha |-> [sensor |-> s, seq |-> n]]
<1>1. wrote' = [wrote EXCEPT ![s] = Append(@, r)] /\ wrote \in [Sensors -> Seq(Record)]
  BY DEF Writes, Types
<1>2. ASSUME NEW x \in Sensors, NEW i \in 1 .. Len(wrote'[x])
      PROVE  /\ wrote'[x][i].sensor = x /\ wrote'[x][i].seq = i /\ wrote'[x][i].prev = i - 1
             /\ wrote'[x][i].sha = [sensor |-> x, seq |-> i]
  <2>1. CASE x # s
    BY <1>1, <1>2, <2>1 DEF Chained
  <2>2. CASE x = s
    <3>1. wrote[s] \in Seq(Record) /\ wrote'[s] = Append(wrote[s], r)
      BY <1>1
    <3>2. CASE i <= Len(wrote[s])
      <4>1. wrote'[s][i] = wrote[s][i] /\ i \in 1 .. Len(wrote[s])
        BY <1>2, <2>2, <3>1, <3>2
      <4> QED
        BY <2>2, <4>1 DEF Chained
    <3>3. CASE ~(i <= Len(wrote[s]))
      <4>1. i = n /\ wrote'[s][i] = r
        BY <1>2, <2>2, <3>1, <3>3
      <4> QED
        BY <2>2, <4>1
    <3> QED
      BY <3>2, <3>3
  <2> QED
    BY <2>1, <2>2
<1> QED
  BY <1>2 DEF Chained

LEMMA NextChained == Types /\ Chained /\ [Next]_vars => Chained'
<1> SUFFICES ASSUME Types, Chained, [Next]_vars PROVE Chained'
  OBVIOUS
<1>1. CASE Outputs
  BY <1>1, WritesChained DEF Outputs, Sensors
<1>2. ASSUME NEW s \in Streams, Transfers(s) PROVE Chained'
  BY <1>2, WritesChained DEF Transfers, Sensors
<1>3. ASSUME NEW s \in Streams, ReportsFlow(s) PROVE Chained'
  BY <1>3, WritesChained DEF ReportsFlow, Sensors
<1>4. CASE UNCHANGED wrote
  BY <1>4 DEF Chained
<1>5. \/ Outputs \/ UNCHANGED wrote
      \/ \E s \in Streams : Transfers(s) \/ ReportsFlow(s)
  BY DEF Next, vars, bundle, Ends, Normalizes, Validates, Vanishes, Misses, Denies,
         RecordsDisturbed, EventsDisturbed, HealthMisreported
<1> QED
  BY <1>1, <1>2, <1>3, <1>4, <1>5

LEMMA NextFinalized == Types /\ Finalized /\ [Next]_vars => Finalized'
<1> SUFFICES ASSUME Types, Finalized, [Next]_vars PROVE Finalized'
  OBVIOUS
<1>1. CASE Ends
  <2>1. /\ \A s \in Streams : connection[s] \in {"new", "reported"}
        /\ heads' = [s \in Sensors |-> Len(wrote[s])]
        /\ UNCHANGED <<connection, wrote>>
    BY <1>1 DEF Ends, wire
  <2> QED
    BY <2>1 DEF Finalized
<1>2. CASE at = "capturing" /\ at' = "capturing"
  BY <1>2 DEF Finalized
<1>3. CASE at # "capturing" /\ UNCHANGED <<connection, wrote, heads>>
  BY <1>3 DEF Finalized
<1>4. CASE UNCHANGED <<at, connection, wrote, heads>>
  BY <1>4 DEF Finalized
<1>5. \/ Ends
      \/ at = "capturing" /\ at' = "capturing"
      \/ at # "capturing" /\ UNCHANGED <<connection, wrote, heads>>
      \/ UNCHANGED <<at, connection, wrote, heads>>
  BY DEF Next, vars, bundle, wire, Outputs, Transfers, Vanishes, Misses, Denies, ReportsFlow,
         Capturing, Normalizes, Validates, RecordsDisturbed, EventsDisturbed, HealthMisreported
<1> QED
  BY <1>1, <1>2, <1>3, <1>4, <1>5

\* What the workload writes is not of the boundary.
LEMMA BoundaryKept ==
  ASSUME Types, NEW t, NEW b, Writes("workload", t, b)
  PROVE  wrote'["boundary"] = wrote["boundary"]
BY DEF Writes, Types, Sensors

LEMMA FlowTypes ==
  ASSUME Types, Chained
  PROVE  \A i \in 1 .. Len(wrote["boundary"]) :
           /\ wrote["boundary"][i] \in Record /\ wrote["boundary"][i].type = "network/flow"
           /\ Flowed(i) \in Flow /\ Flowed(i).stream \in Streams
<1> SUFFICES ASSUME NEW i \in 1 .. Len(wrote["boundary"])
             PROVE  /\ wrote["boundary"][i] \in Record
                    /\ wrote["boundary"][i].type = "network/flow"
                    /\ Flowed(i) \in Flow /\ Flowed(i).stream \in Streams
  OBVIOUS
<1>1. "boundary" \in Sensors /\ wrote["boundary"] \in Seq(Record)
  BY DEF Types, Sensors
<1>2. wrote["boundary"][i] \in Record /\ wrote["boundary"][i].sensor = "boundary"
  <2>1. wrote["boundary"][i] \in Record
    BY <1>1
  <2>2. wrote["boundary"][i].sensor = "boundary"
    BY <1>1 DEF Chained
  <2> QED
    BY <2>1, <2>2
<1>3. wrote["boundary"][i].type = "network/flow" /\ Flowed(i) \in Flow
  BY <1>2, RecordFields DEF Flowed
<1> QED
  BY <1>2, <1>3 DEF Flow

LEMMA NextAccounted == Types /\ Chained /\ Accounted /\ [Next]_vars => Accounted'
<1> SUFFICES ASSUME Types, Chained, Accounted, [Next]_vars PROVE Accounted'
  OBVIOUS
<1>1. /\ connection \in [Streams -> {"new", "open", "closed", "denied", "reported"}]
      /\ sent \in [Streams -> Nat] /\ wrote \in [Sensors -> Seq(Record)]
      /\ "boundary" \in Sensors
  BY DEF Types, Sensors
<1>2. CASE UNCHANGED <<connection, sent>> /\ wrote'["boundary"] = wrote["boundary"]
  BY <1>2 DEF Accounted, Flowed
<1>3. CASE Outputs
  BY <1>2, <1>3, BoundaryKept DEF Outputs, wire
<1>4. ASSUME NEW s \in Streams, Transfers(s) \/ Vanishes(s) \/ Misses(s) PROVE Accounted'
  <2>1. /\ connection[s] \in {"new", "open"}
        /\ \E c \in {"open", "closed"} : connection' = [connection EXCEPT ![s] = c]
        /\ wrote'["boundary"] = wrote["boundary"]
        /\ \A x \in Streams : x # s => sent'[x] = sent[x]
    BY <1>1, <1>4, BoundaryKept DEF Transfers, Vanishes, Misses
  <2>2. PICK c \in {"open", "closed"} : connection' = [connection EXCEPT ![s] = c]
    BY <2>1
  <2>3. /\ connection'[s] = c
        /\ \A x \in Streams : x # s => connection'[x] = connection[x] /\ sent'[x] = sent[x]
    BY <1>1, <2>1, <2>2
  <2>4. \A i \in 1 .. Len(wrote["boundary"]) : Flowed(i).stream \in Streams /\ Flowed(i).stream # s
    BY <2>1, FlowTypes DEF Accounted
  <2>5. \A x \in Streams : connection'[x] \in {"new", "denied"} => sent'[x] = 0
    BY <2>3 DEF Accounted
  <2>6. \A x \in Streams : connection'[x] = "reported" =>
          \E i \in 1 .. Len(wrote["boundary"]) : Flowed(i).stream = x
    BY <2>3 DEF Accounted
  <2>7. \A i \in 1 .. Len(wrote["boundary"]) :
          /\ connection'[Flowed(i).stream] = "reported"
          /\ Flowed(i).bytes = [k \in 1 .. sent'[Flowed(i).stream] |-> k - 1]
          /\ Flowed(i).denied => sent'[Flowed(i).stream] = 0
    BY <2>3, <2>4 DEF Accounted
  <2> QED
    BY <2>1, <2>5, <2>6, <2>7 DEF Accounted, Flowed
<1>5. ASSUME NEW s \in Streams, Denies(s) PROVE Accounted'
  <2>1. /\ connection[s] = "new" /\ connection' = [connection EXCEPT ![s] = "denied"]
        /\ UNCHANGED <<sent, wrote>>
    BY <1>5 DEF Denies
  <2>2. \A i \in 1 .. Len(wrote["boundary"]) : Flowed(i).stream \in Streams /\ Flowed(i).stream # s
    BY <2>1, FlowTypes DEF Accounted
  <2>3. /\ connection'[s] = "denied"
        /\ \A x \in Streams : x # s => connection'[x] = connection[x]
    BY <1>1, <2>1
  <2>4. \A x \in Streams : connection'[x] \in {"new", "denied"} => sent'[x] = 0
    BY <2>1, <2>3 DEF Accounted
  <2>5. \A x \in Streams : connection'[x] = "reported" =>
          \E i \in 1 .. Len(wrote["boundary"]) : Flowed(i).stream = x
    BY <2>3 DEF Accounted
  <2>6. \A i \in 1 .. Len(wrote["boundary"]) :
          /\ connection'[Flowed(i).stream] = "reported"
          /\ Flowed(i).bytes = [k \in 1 .. sent'[Flowed(i).stream] |-> k - 1]
          /\ Flowed(i).denied => sent'[Flowed(i).stream] = 0
    BY <2>1, <2>2, <2>3 DEF Accounted
  <2> QED
    BY <2>1, <2>4, <2>5, <2>6 DEF Accounted, Flowed
<1>6. ASSUME NEW s \in Streams, ReportsFlow(s) PROVE Accounted'
  <2> DEFINE b == [stream |-> s, bytes |-> [k \in 1 .. sent[s] |-> k - 1],
                   denied |-> connection[s] = "denied"]
             N == Len(wrote["boundary"])
  <2>1. /\ connection[s] \in {"closed", "denied"}
        /\ connection' = [connection EXCEPT ![s] = "reported"]
        /\ sent' = sent /\ Writes("boundary", "network/flow", b)
    BY <1>6 DEF ReportsFlow
  <2>2. /\ wrote["boundary"] \in Seq(Record) /\ N \in Nat
        /\ \E r : r.body = b /\ wrote'["boundary"] = Append(wrote["boundary"], r)
    <3> DEFINE r == [sensor |-> "boundary", seq |-> N + 1, prev |-> (N + 1) - 1,
                     type |-> "network/flow", body |-> b,
                     sha |-> [sensor |-> "boundary", seq |-> N + 1]]
    <3>1. wrote' = [wrote EXCEPT !["boundary"] = Append(@, r)]
      BY <2>1 DEF Writes
    <3>2. wrote'["boundary"] = Append(wrote["boundary"], r)
      BY <1>1, <3>1
    <3>3. r.body = b
      OBVIOUS
    <3>4. wrote["boundary"] \in Seq(Record) /\ N \in Nat
      BY <1>1
    <3> HIDE DEF b, r
    <3> QED
      BY <3>2, <3>3, <3>4
  <2>3. PICK r : r.body = b /\ wrote'["boundary"] = Append(wrote["boundary"], r)
    BY <2>2
  <2>4. /\ connection'[s] = "reported"
        /\ \A x \in Streams : x # s => connection'[x] = connection[x]
    BY <1>1, <2>1
  <2>5. \A i \in 1 .. N : Flowed(i).stream \in Streams /\ Flowed(i).stream # s
    BY <2>1, FlowTypes DEF Accounted
  <2>6. /\ Len(wrote'["boundary"]) = N + 1
        /\ wrote'["boundary"][N + 1].body = b
        /\ \A i \in 1 .. N : wrote'["boundary"][i].body = Flowed(i)
    BY <2>2, <2>3 DEF Flowed
  <2>7. \A x \in Streams : connection'[x] \in {"new", "denied"} => sent'[x] = 0
    BY <2>1, <2>4 DEF Accounted
  <2>8. ASSUME NEW x \in Streams, connection'[x] = "reported"
        PROVE  \E i \in 1 .. N + 1 : wrote'["boundary"][i].body.stream = x
    <3>1. CASE x = s
      BY <2>2, <2>6, <3>1
    <3>2. CASE x # s
      <4>1. PICK i \in 1 .. N : Flowed(i).stream = x
        BY <2>4, <2>8, <3>2 DEF Accounted
      <4> QED
        BY <2>2, <2>6, <4>1
    <3> QED
      BY <3>1, <3>2
  <2>9. ASSUME NEW i \in 1 .. N + 1
        PROVE  LET f == wrote'["boundary"][i].body IN
               /\ connection'[f.stream] = "reported"
               /\ f.bytes = [k \in 1 .. sent'[f.stream] |-> k - 1]
               /\ f.denied => sent'[f.stream] = 0
    <3>1. CASE i = N + 1
      <4>1. b.denied => sent[s] = 0
        BY <2>1 DEF Accounted
      <4>2. wrote'["boundary"][i].body = b
        BY <2>6, <3>1
      <4>3. b.stream = s /\ b.bytes = [k \in 1 .. sent[s] |-> k - 1]
        OBVIOUS
      <4> HIDE DEF b
      <4> QED
        BY <2>1, <2>4, <4>1, <4>2, <4>3
    <3>2. CASE i # N + 1
      <4>1. i \in 1 .. N
        BY <2>2, <3>2
      <4>2. /\ connection[Flowed(i).stream] = "reported"
            /\ Flowed(i).bytes = [k \in 1 .. sent[Flowed(i).stream] |-> k - 1]
            /\ Flowed(i).denied => sent[Flowed(i).stream] = 0
        BY <4>1 DEF Accounted
      <4> QED
        BY <2>1, <2>4, <2>5, <2>6, <4>1, <4>2
    <3> QED
      BY <3>1, <3>2
  <2> HIDE DEF b, N
  <2> QED
    BY <2>6, <2>7, <2>8, <2>9 DEF Accounted, Flowed
<1>7. \/ Outputs
      \/ UNCHANGED <<connection, sent>> /\ wrote'["boundary"] = wrote["boundary"]
      \/ \E s \in Streams :
           Transfers(s) \/ Vanishes(s) \/ Misses(s) \/ Denies(s) \/ ReportsFlow(s)
  BY DEF Next, vars, bundle, wire, Ends, Normalizes, Validates, RecordsDisturbed,
         EventsDisturbed, HealthMisreported
<1> QED
  BY <1>2, <1>3, <1>4, <1>5, <1>6, <1>7

-----------------------------------------------------------------------------
(* The plaintext assembler.                                                  *)

StreamType == [known : BOOLEAN, next : Nat, offset : Nat, closed : BOOLEAN, bytes : Seq(Nat)]
AssemblyType == [ok : BOOLEAN, streams : [Streams -> StreamType]]
NoAssembly == [ok |-> TRUE, streams |-> [s \in Streams |-> NoStream]]

LEMMA AddType ==
  ASSUME NEW a \in AssemblyType, NEW p \in Chunk
  PROVE  Add(a, p) \in AssemblyType
<1> DEFINE s == a.streams[p.stream]
           v == [known |-> TRUE, next |-> s.next + 1, closed |-> p.eof,
                 offset |-> IF p.stream \in Datagram THEN s.offset ELSE s.offset + Len(p.bytes),
                 bytes |-> s.bytes \o p.bytes]
<1>1. /\ p.stream \in Streams /\ s \in StreamType /\ p.bytes \in Seq(Nat) /\ p.eof \in BOOLEAN
      /\ a.streams \in [Streams -> StreamType]
  BY DEF Chunk, AssemblyType
<1>2. v \in StreamType
  BY <1>1 DEF StreamType
<1> HIDE DEF v
<1>3. [a.streams EXCEPT ![p.stream] = v] \in [Streams -> StreamType]
  BY <1>1, <1>2
<1>4. [a EXCEPT !.streams = [a.streams EXCEPT ![p.stream] = v]] \in AssemblyType
  BY <1>3 DEF AssemblyType
<1>5. [a EXCEPT !.ok = FALSE] \in AssemblyType
  BY DEF AssemblyType
<1>6. \/ Add(a, p) = [a EXCEPT !.ok = FALSE]
      \/ Add(a, p) = [a EXCEPT !.streams = [a.streams EXCEPT ![p.stream] = v]]
  BY DEF Add, v
<1> QED
  BY <1>4, <1>5, <1>6

\* One event of the log.
Step(a, e) == IF e.type = "network/plaintext" THEN Add(a, e.details) ELSE a

LEMMA StepType ==
  ASSUME NEW a \in AssemblyType, NEW e \in Event
  PROVE  Step(a, e) \in AssemblyType
<1>1. CASE e.type = "network/plaintext"
  <2>1. e.details \in Chunk
    BY <1>1, EventFields, ReferenceFields
  <2> QED
    BY <2>1, AddType DEF Step
<1>2. CASE e.type # "network/plaintext"
  BY <1>2 DEF Step
<1> QED
  BY <1>1, <1>2

LEMMA AssemblyFacts ==
  ASSUME NEW es \in Seq(Event)
  PROVE  /\ Assembly(es) \in [0 .. Len(es) -> AssemblyType]
         /\ Assembly(es)[0] = NoAssembly
         /\ \A k \in 1 .. Len(es) : Assembly(es)[k] = Step(Assembly(es)[k - 1], es[k])
<1> DEFINE n == Len(es)
           step == [k \in 1 .. n |-> [a \in AssemblyType |-> Step(a, es[k])]]
           Body(f) == [k \in 0 .. n |-> IF k = 0 THEN NoAssembly ELSE Step(f[k - 1], es[k])]
<1>1. n \in Nat /\ \A k \in 1 .. n : es[k] \in Event
  OBVIOUS
<1>2. NoAssembly \in AssemblyType
  BY DEF NoAssembly, NoStream, AssemblyType, StreamType
<1>3. step \in [1 .. n -> [AssemblyType -> AssemblyType]]
  <2>1. \A k \in 1 .. n : \A a \in AssemblyType : Step(a, es[k]) \in AssemblyType
    BY <1>1, StepType
  <2> QED
    BY <2>1
<1>4. PICK f : Iterates(f, n, AssemblyType, NoAssembly, step)
  <2> HIDE DEF n, step
  <2> QED
    BY <1>1, <1>2, <1>3, Iteration
<1>5. /\ f \in [0 .. n -> AssemblyType] /\ f[0] = NoAssembly
      /\ \A k \in 1 .. n : f[k] = step[k][f[k - 1]]
  BY <1>4 DEF Iterates
<1>6. \A k \in 1 .. n : f[k] = Step(f[k - 1], es[k])
  <2>1. \A k \in 1 .. n : f[k - 1] \in AssemblyType
    BY <1>1, <1>5
  <2> QED
    BY <1>5, <2>1
<1>7. f = Body(f)
  <2>1. \A k \in 0 .. n : k # 0 => k \in 1 .. n
    BY <1>1
  <2>2. \A k \in 0 .. n : f[k] = Body(f)[k]
    BY <1>5, <1>6, <2>1
  <2> QED
    BY <1>5, <2>2
<1>8. Assembly(es) = CHOOSE g : g = Body(g)
  BY DEF Assembly, Step, NoAssembly
<1>9. Assembly(es) = Body(Assembly(es))
  <2> HIDE DEF Body
  <2> QED
    BY <1>7, <1>8
<1>10. \A k \in 1 .. n : k \in 0 .. n /\ k # 0
  BY <1>1
<1> HIDE DEF n
<1>11. /\ Assembly(es)[0] = NoAssembly
       /\ \A k \in 1 .. n : Assembly(es)[k] = Step(Assembly(es)[k - 1], es[k])
       /\ DOMAIN Assembly(es) = 0 .. n
  BY <1>1, <1>9, <1>10
<1>12. \A k \in 0 .. n : Assembly(es)[k] \in AssemblyType
  <2> DEFINE P == {k \in 0 .. n : Assembly(es)[k] \in AssemblyType}
  <2>1. 0 \in P
    BY <1>1, <1>2, <1>11
  <2>2. ASSUME NEW k \in 0 .. n - 1, k \in P PROVE k + 1 \in P
    <3>1. k + 1 \in 1 .. n /\ (k + 1) - 1 = k /\ k + 1 \in 0 .. n
      BY <1>1
    <3>2. Assembly(es)[k] \in AssemblyType
      BY <2>2
    <3>3. Assembly(es)[k + 1] \in AssemblyType
      BY <1>1, <1>11, <3>1, <3>2, StepType
    <3> QED
      BY <3>1, <3>3
  <2> HIDE DEF P
  <2>3. \A k \in 0 .. n : k \in P
    BY <1>1, <2>1, <2>2, Upwards
  <2> QED
    BY <2>3 DEF P
<1>13. Assembly(es) = [k \in 0 .. n |-> Assembly(es)[k]]
  BY <1>9
<1> QED
  BY <1>11, <1>12, <1>13 DEF n

\* A stream the assembler does not know has no bytes.
LEMMA UnknownIsEmpty ==
  ASSUME NEW es \in Seq(Event), NEW s \in Streams,
         ~Assembly(es)[Len(es)].streams[s].known
  PROVE  Assembly(es)[Len(es)].streams[s].bytes = <<>>
<1> DEFINE n == Len(es)
           Empty(a) == ~a.streams[s].known => a.streams[s].bytes = <<>>
           P == {k \in 0 .. n : Empty(Assembly(es)[k])}
<1>1. n \in Nat /\ \A k \in 1 .. n : es[k] \in Event
  OBVIOUS
<1>2. /\ Assembly(es) \in [0 .. n -> AssemblyType]
      /\ Assembly(es)[0] = NoAssembly
      /\ \A k \in 1 .. n : Assembly(es)[k] = Step(Assembly(es)[k - 1], es[k])
  BY AssemblyFacts
<1>3. 0 \in P
  BY <1>1, <1>2 DEF NoAssembly, NoStream
<1>4. ASSUME NEW a \in AssemblyType, NEW e \in Event, Empty(a) PROVE Empty(Step(a, e))
  <2>1. CASE e.type = "network/plaintext"
    <3> DEFINE p == e.details
               t == a.streams[p.stream]
               v == [known |-> TRUE, next |-> t.next + 1, closed |-> p.eof,
                     offset |-> IF p.stream \in Datagram THEN t.offset
                                ELSE t.offset + Len(p.bytes),
                     bytes |-> t.bytes \o p.bytes]
    <3>1. a.streams \in [Streams -> StreamType]
      BY DEF AssemblyType
    <3>2. \/ Step(a, e) = [a EXCEPT !.ok = FALSE]
          \/ Step(a, e) = [a EXCEPT !.streams = [a.streams EXCEPT ![p.stream] = v]]
      BY <2>1 DEF Step, Add
    <3>3. v.known
      OBVIOUS
    <3> HIDE DEF v
    <3>4. CASE Step(a, e) = [a EXCEPT !.ok = FALSE]
      BY <1>4, <3>4 DEF AssemblyType
    <3>5. CASE Step(a, e) = [a EXCEPT !.streams = [a.streams EXCEPT ![p.stream] = v]]
      <4>1. Step(a, e).streams = [a.streams EXCEPT ![p.stream] = v]
        BY <3>5 DEF AssemblyType
      <4>2. \/ Step(a, e).streams[s] = v
            \/ Step(a, e).streams[s] = a.streams[s]
        BY <3>1, <4>1
      <4> QED
        BY <1>4, <3>3, <4>2
    <3> QED
      BY <3>2, <3>4, <3>5
  <2>2. CASE e.type # "network/plaintext"
    BY <1>4, <2>2 DEF Step
  <2> QED
    BY <2>1, <2>2
<1>5. ASSUME NEW k \in 0 .. n - 1, k \in P PROVE k + 1 \in P
  <2>1. k + 1 \in 1 .. n /\ (k + 1) - 1 = k /\ k + 1 \in 0 .. n /\ k \in 0 .. n
    BY <1>1
  <2>2. Assembly(es)[k + 1] = Step(Assembly(es)[k], es[k + 1]) /\ Assembly(es)[k] \in AssemblyType
    BY <1>2, <2>1
  <2>3. Empty(Assembly(es)[k])
    BY <1>5
  <2>4. Empty(Assembly(es)[k + 1])
    <3> HIDE DEF Empty
    <3> QED
      BY <1>1, <1>4, <2>1, <2>2, <2>3
  <2> HIDE DEF Empty
  <2> QED
    BY <2>1, <2>4
<1>6. \A k \in 0 .. n : k \in P
  <2> HIDE DEF P
  <2> QED
    BY <1>1, <1>3, <1>5, Upwards
<1>7. n \in 0 .. n
  BY <1>1
<1> QED
  BY <1>6, <1>7

-----------------------------------------------------------------------------
(* AcceptedIsFaithful.                                                       *)

\* The chain of a source that is accepted is what its sensor wrote.
LEMMA AcceptedChains ==
  ASSUME Types, Chained, Finalized, at # "capturing", Valid, NEW s \in Sensors
  PROVE  Of(s, records) = wrote[s]
<1> DEFINE chain == Of(s, records)
<1>1. chain \in Seq(Record) /\ \A k \in DOMAIN chain : chain[k].sensor = s
  BY OfSensor DEF Types
<1>2. wrote[s] \in Seq(Record) /\ Len(wrote[s]) = heads[s]
  BY DEF Types, Finalized
<1>3. CASE s \in Sources
  <2>1. ValidChain(chain, heads[s])
    BY <1>3 DEF Valid, ValidGvisor, Verify
  <2>2. InLineage(chain) /\ heads[s] = Len(chain)
    BY <2>1 DEF ValidChain
  <2> HIDE DEF chain
  <2>3. ASSUME NEW i \in 1 .. Len(chain) PROVE chain[i] = wrote[s][i]
    <3>1. i \in DOMAIN chain
      BY <1>1
    <3>2. ValidRecord(chain[i]) /\ chain[i].seq = i /\ chain[i].sensor = s
      BY <1>1, <2>2, <3>1 DEF InLineage
    <3>3. chain[i] \in ToSet(wrote[s])
      BY <3>2 DEF ValidRecord
    <3>4. PICK j \in 1 .. Len(wrote[s]) : chain[i] = wrote[s][j]
      BY <1>2, <3>3 DEF ToSet
    <3>5. wrote[s][j].seq = j
      BY DEF Chained
    <3> QED
      BY <3>2, <3>4, <3>5
  <2>4. chain = wrote[s]
    BY <1>1, <1>2, <2>2, <2>3, SeqEqual
  <2> QED
    BY <2>4 DEF chain
<1>4. CASE s \notin Sources
  <2>1. chain = <<>>
    BY <1>4 DEF Sources
  <2>2. heads[s] = 0
    BY <1>4 DEF Valid, ValidGvisor, Named
  <2> HIDE DEF chain
  <2> QED
    BY <1>2, <2>1, <2>2 DEF chain
<1> QED
  BY <1>3, <1>4

\* The places in the log of the events of a source.
OfAt(f, n, s, q) ==
  /\ DOMAIN Of(s, q) = 1 .. n
  /\ \A k \in 1 .. n : /\ f[k] \in DOMAIN q /\ Of(s, q)[k] = q[f[k]]
                       /\ q[f[k]].sensor = s
  /\ \A k, l \in 1 .. n : f[k] = f[l] => k = l
  /\ \A i \in DOMAIN q : q[i].sensor = s => \E k \in 1 .. n : f[k] = i

LEMMA OfIndex ==
  ASSUME NEW A, NEW q \in Seq(A), NEW s
  PROVE  \E n \in Nat : \E f : OfAt(f, n, s, q)
<1> DEFINE S == {i \in DOMAIN q : q[i].sensor = s}
           n == Cardinality(S)
<1>1. S \in SUBSET (1 .. Len(q)) /\ DOMAIN q = 1 .. Len(q)
  OBVIOUS
<1>2. Of(s, q) = Pick(q, S)
  BY DEF Of
<1>3. \A i : i \in S <=> i \in DOMAIN q /\ q[i].sensor = s
  OBVIOUS
<1> HIDE DEF S
<1>4. /\ Pick(q, S) \in Seq(A) /\ Len(Pick(q, S)) = n /\ n \in Nat
      /\ \E f : /\ Enumerates(f, S)
                /\ \A k \in 1 .. n : f[k] \in S /\ Pick(q, S)[k] = q[f[k]]
  BY <1>1, PickSeq
<1>5. PICK f : /\ Enumerates(f, S)
               /\ \A k \in 1 .. n : f[k] \in S /\ Pick(q, S)[k] = q[f[k]]
  BY <1>4
<1>6. DOMAIN Of(s, q) = 1 .. n
  BY <1>2, <1>4
<1>7. \A k \in 1 .. n : /\ f[k] \in DOMAIN q /\ Of(s, q)[k] = q[f[k]]
                        /\ q[f[k]].sensor = s
  BY <1>2, <1>5, <1>3
<1>8. /\ \A k, l \in 1 .. n : f[k] = f[l] => k = l
      /\ \A i \in DOMAIN q : q[i].sensor = s => \E k \in 1 .. n : f[k] = i
  BY <1>5, <1>3 DEF Enumerates
<1>9. OfAt(f, n, s, q)
  BY <1>6, <1>7, <1>8 DEF OfAt
<1> HIDE DEF n
<1> QED
  BY <1>4, <1>9

\* Each record of a source is of it.
LEMMA OfHas ==
  ASSUME NEW A, NEW q \in Seq(A), NEW s, NEW i \in DOMAIN q, q[i].sensor = s
  PROVE  \E k \in DOMAIN Of(s, q) : Of(s, q)[k] = q[i]
<1>1. PICK n \in Nat : \E f : OfAt(f, n, s, q)
  BY OfIndex
<1>2. PICK f : OfAt(f, n, s, q)
  BY <1>1
<1>3. PICK k \in 1 .. n : f[k] = i
  BY <1>2 DEF OfAt
<1>4. k \in DOMAIN Of(s, q) /\ Of(s, q)[k] = q[i]
  BY <1>2, <1>3 DEF OfAt
<1> QED
  BY <1>4

NormalizedAt(f, n) ==
  /\ DOMAIN Normalized = 1 .. n
  /\ \A k \in 1 .. n : f[k] \in DOMAIN log /\ Normalized[k] = log[f[k]]
  /\ \A k, l \in 1 .. n : f[k] = f[l] => k = l
  /\ \A i \in DOMAIN log : log[i].sensor # "none" => \E k \in 1 .. n : f[k] = i

LEMMA NormalizedIndex ==
  ASSUME Types
  PROVE  \E n \in Nat : \E f : NormalizedAt(f, n)
<1> DEFINE S == {i \in DOMAIN log : log[i].type \notin {"run/start", "run/finish"}}
           n == Cardinality(S)
<1>1. log \in Seq(Event) /\ DOMAIN log = 1 .. Len(log)
  BY DEF Types
<1>2. S \in SUBSET (1 .. Len(log)) /\ Normalized = Pick(log, S)
  BY <1>1 DEF Normalized
<1>3. \A i \in DOMAIN log : log[i].sensor # "none" => i \in S
  BY <1>1, EventFields
<1>4. \A i \in S : i \in DOMAIN log
  OBVIOUS
<1> HIDE DEF S
<1>5. /\ Pick(log, S) \in Seq(Event) /\ Len(Pick(log, S)) = n /\ n \in Nat
      /\ \E f : /\ Enumerates(f, S)
                /\ \A k \in 1 .. n : f[k] \in S /\ Pick(log, S)[k] = log[f[k]]
  BY <1>1, <1>2, PickSeq
<1>6. PICK f : /\ Enumerates(f, S)
               /\ \A k \in 1 .. n : f[k] \in S /\ Pick(log, S)[k] = log[f[k]]
  BY <1>5
<1>7. DOMAIN Normalized = 1 .. n
  BY <1>2, <1>5
<1>8. \A k \in 1 .. n : f[k] \in DOMAIN log /\ Normalized[k] = log[f[k]]
  BY <1>2, <1>6, <1>4
<1>9. /\ \A k, l \in 1 .. n : f[k] = f[l] => k = l
      /\ \A i \in DOMAIN log : log[i].sensor # "none" => \E k \in 1 .. n : f[k] = i
  BY <1>6, <1>3 DEF Enumerates
<1>10. NormalizedAt(f, n)
  BY <1>7, <1>8, <1>9 DEF NormalizedAt
<1> HIDE DEF n
<1> QED
  BY <1>5, <1>10

\* The events that refer to a record, in the log.
Referring(s, seq) ==
  {i \in DOMAIN log : log[i].sensor = s /\ log[i].start <= seq /\ seq <= log[i].end}

\* An event refers to a record in the log when its range does in the ranges of its source.
LEMMA ReferringIsOver ==
  ASSUME Types, NEW s \in Sensors, NEW seq \in Number
  PROVE  Cardinality(Referring(s, seq)) = 1 <=> Cardinality(Over(Ranges(s), seq)) = 1
<1> DEFINE es == Of(s, Normalized)
           R == Referring(s, seq)
           O == Over(Ranges(s), seq)
<1>1. PICK n \in Nat : \E f : NormalizedAt(f, n)
  BY NormalizedIndex
<1>2. PICK f : NormalizedAt(f, n)
  BY <1>1
<1>3. /\ DOMAIN Normalized = 1 .. n
      /\ \A k \in 1 .. n : f[k] \in DOMAIN log /\ Normalized[k] = log[f[k]]
      /\ \A k, l \in 1 .. n : f[k] = f[l] => k = l
      /\ \A i \in DOMAIN log : log[i].sensor # "none" => \E k \in 1 .. n : f[k] = i
  BY <1>2 DEF NormalizedAt
<1>4. Normalized \in Seq(Reference)
  BY NormalizedSeq
<1>5. PICK m \in Nat : \E g : OfAt(g, m, s, Normalized)
  BY <1>4, OfIndex
<1>6. PICK g : OfAt(g, m, s, Normalized)
  BY <1>5
<1>7. /\ DOMAIN es = 1 .. m
      /\ \A k \in 1 .. m : /\ g[k] \in DOMAIN Normalized /\ es[k] = Normalized[g[k]]
                           /\ Normalized[g[k]].sensor = s
      /\ \A k, l \in 1 .. m : g[k] = g[l] => k = l
      /\ \A i \in DOMAIN Normalized : Normalized[i].sensor = s => \E k \in 1 .. m : g[k] = i
  BY <1>6 DEF OfAt
<1> DEFINE h(k) == f[g[k]]
<1>8. /\ \A k \in 1 .. m : h(k) \in DOMAIN log /\ es[k] = log[h(k)] /\ log[h(k)].sensor = s
      /\ \A k, l \in 1 .. m : h(k) = h(l) => k = l
  BY <1>3, <1>7
<1>9. ASSUME NEW i \in DOMAIN log, log[i].sensor = s PROVE \E k \in 1 .. m : h(k) = i
  <2>1. PICK j \in 1 .. n : f[j] = i
    BY <1>3, <1>9 DEF Sensors
  <2>2. j \in DOMAIN Normalized /\ Normalized[j].sensor = s
    BY <1>3, <1>9, <2>1
  <2>3. PICK k \in 1 .. m : g[k] = j
    BY <1>7, <2>2
  <2> QED
    BY <2>1, <2>3
<1>10. /\ DOMAIN Ranges(s) = 1 .. m
       /\ \A k \in 1 .. m : Ranges(s)[k].start = es[k].start /\ Ranges(s)[k].end = es[k].end
  BY <1>7 DEF Ranges
<1> HIDE DEF h, es
<1>11. /\ O \in SUBSET (1 .. m)
       /\ \A k \in 1 .. m : k \in O <=> h(k) \in R
  BY <1>8, <1>10 DEF Over, Referring
<1>12. R \in SUBSET (1 .. Len(log)) /\ Len(log) \in Nat /\ \A i \in R : \E k \in 1 .. m : h(k) = i
  <2>1. DOMAIN log = 1 .. Len(log) /\ Len(log) \in Nat
    BY DEF Types
  <2>2. \A i \in R : i \in DOMAIN log /\ log[i].sensor = s
    BY DEF Referring
  <2> QED
    BY <1>9, <2>1, <2>2
<1> HIDE DEF R, O
<1>13. Cardinality(O) = 1 <=> \E x \in O : \A y \in O : y = x
  BY <1>11, One
<1>14. Cardinality(R) = 1 <=> \E x \in R : \A y \in R : y = x
  BY <1>12, One
<1>15. ASSUME NEW x \in O, \A y \in O : y = x PROVE \E z \in R : \A y \in R : y = z
  <2>1. x \in 1 .. m /\ h(x) \in R
    BY <1>11
  <2>2. ASSUME NEW y \in R PROVE y = h(x)
    <3>1. PICK k \in 1 .. m : h(k) = y
      BY <1>12
    <3>2. k \in O
      BY <1>11, <3>1
    <3> QED
      BY <1>15, <3>1, <3>2
  <2> QED
    BY <2>1, <2>2
<1>16. ASSUME NEW x \in R, \A y \in R : y = x PROVE \E z \in O : \A y \in O : y = z
  <2>1. PICK k \in 1 .. m : h(k) = x
    BY <1>12
  <2>2. k \in O
    BY <1>11, <2>1
  <2>3. ASSUME NEW y \in O PROVE y = k
    <3>1. y \in 1 .. m /\ h(y) \in R
      BY <1>11
    <3>2. h(y) = h(k)
      BY <1>16, <2>1, <3>1
    <3> QED
      BY <1>8, <3>1, <3>2
  <2> QED
    BY <2>2, <2>3
<1> QED
  BY <1>13, <1>14, <1>15, <1>16 DEF R, O

\* The flows of the records.
LEMMA FlowsAre ==
  ASSUME Types
  PROVE  /\ \A f \in ToSet(Flows) :
              \E i \in DOMAIN records : records[i].type = "network/flow" /\ f = records[i].body
         /\ \A i \in DOMAIN records :
              records[i].type = "network/flow" => records[i].body \in ToSet(Flows)
<1> DEFINE S == {i \in DOMAIN records : records[i].type = "network/flow"}
           n == Cardinality(S)
           rs == Pick(records, S)
<1>1. records \in Seq(Record) /\ DOMAIN records = 1 .. Len(records)
  BY DEF Types
<1>2. S \in SUBSET (1 .. Len(records)) /\ Flows = [k \in DOMAIN rs |-> rs[k].body]
  BY <1>1 DEF Flows
<1>3. \A i : i \in S <=> i \in DOMAIN records /\ records[i].type = "network/flow"
  OBVIOUS
<1> HIDE DEF S
<1>4. /\ rs \in Seq(Record) /\ Len(rs) = n /\ n \in Nat
      /\ \E f : /\ Enumerates(f, S)
                /\ \A k \in 1 .. n : f[k] \in S /\ rs[k] = records[f[k]]
  BY <1>1, <1>2, PickSeq
<1>5. PICK f : /\ Enumerates(f, S)
               /\ \A k \in 1 .. n : f[k] \in S /\ rs[k] = records[f[k]]
  BY <1>4
<1>6. DOMAIN rs = 1 .. n
  BY <1>4
<1>7. /\ DOMAIN Flows = 1 .. n
      /\ \A k \in 1 .. n : Flows[k] = records[f[k]].body /\ f[k] \in S
  BY <1>2, <1>5, <1>6
<1>8. ASSUME NEW i \in DOMAIN records, records[i].type = "network/flow"
      PROVE  \E k \in 1 .. n : Flows[k] = records[i].body
  <2>1. i \in S
    BY <1>8, <1>3
  <2>2. PICK k \in 1 .. n : f[k] = i
    BY <1>5, <2>1 DEF Enumerates
  <2> QED
    BY <1>7, <2>2
<1>9. \A k \in 1 .. n : \E i \in DOMAIN records :
        records[i].type = "network/flow" /\ Flows[k] = records[i].body
  BY <1>7, <1>3
<1> HIDE DEF n, rs
<1> QED
  BY <1>7, <1>8, <1>9 DEF ToSet

\* What an accepted bundle promises.
Faithful ==
  /\ \A s \in Sensors : Of(s, records) = wrote[s]
  /\ backend # "gvisor-container" =>
       /\ \A r \in ToSet(records) : Cardinality(Referring(r.sensor, r.seq)) = 1
       /\ \A s \in Streams : Assembled.streams[s].bytes = [i \in 1 .. sent[s] |-> i - 1]

LEMMA AcceptedReferences ==
  ASSUME Types, Valid, backend # "gvisor-container", NEW r \in ToSet(records)
  PROVE  Cardinality(Referring(r.sensor, r.seq)) = 1
<1> DEFINE s == r.sensor
<1>1. PICK i \in DOMAIN records : records[i] = r
  BY DEF ToSet
<1>2. records \in Seq(Record) /\ r \in Record /\ s \in Sensors /\ r.seq \in Number
  BY <1>1, RecordFields DEF Types
<1>3. PICK k \in DOMAIN Of(s, records) : Of(s, records)[k] = r
  BY <1>1, <1>2, OfHas
<1>4. k \in DOMAIN Seqs(s) /\ Seqs(s)[k] = r.seq
  BY <1>3 DEF Seqs
<1>5. ValidCoverage(Seqs(s), Ranges(s))
  BY <1>2 DEF Valid, Verify
<1>6. Exact(Seqs(s), Ranges(s))
  BY <1>2, <1>5, SeqsAndRanges, Coverage
<1>7. Cardinality(Over(Ranges(s), r.seq)) = 1
  BY <1>4, <1>6 DEF Exact
<1> QED
  BY <1>2, <1>7, ReferringIsOver

LEMMA AcceptedStreams ==
  ASSUME Types, Chained, Finalized, Accounted, at # "capturing", Valid,
         backend # "gvisor-container", NEW s \in Streams
  PROVE  Assembled.streams[s].bytes = [k \in 1 .. sent[s] |-> k - 1]
<1> DEFINE a == Assembled.streams
<1>1. Of("boundary", records) = wrote["boundary"] /\ "boundary" \in Sensors
  BY AcceptedChains DEF Sensors
<1>2. /\ \A f \in ToSet(Flows) :
           IF f.denied THEN ~a[f.stream].known
           ELSE a[f.stream].known /\ a[f.stream].closed /\ a[f.stream].bytes = f.bytes
      /\ \A x \in Streams : a[x].known => \E f \in ToSet(Flows) : f.stream = x
  BY DEF Valid, Verify, ReconcileFlows
<1>3. ~a[s].known => a[s].bytes = <<>>
  BY UnknownIsEmpty DEF Assembled, Types
<1> HIDE DEF a
<1>4. sent[s] = 0 => [k \in 1 .. sent[s] |-> k - 1] = <<>>
  OBVIOUS
<1>5. records \in Seq(Record) /\ wrote["boundary"] \in Seq(Record)
  BY <1>1 DEF Types
<1>6. ASSUME NEW f \in ToSet(Flows)
      PROVE  \E i \in 1 .. Len(wrote["boundary"]) : f = Flowed(i)
  <2>1. PICK j \in DOMAIN records : records[j].type = "network/flow" /\ f = records[j].body
    BY FlowsAre
  <2>2. records[j].sensor = "boundary"
    BY <1>5, <2>1, RecordFields
  <2>3. PICK k \in DOMAIN Of("boundary", records) : Of("boundary", records)[k] = records[j]
    BY <1>5, <2>2, OfHas
  <2>4. k \in 1 .. Len(wrote["boundary"]) /\ wrote["boundary"][k] = records[j]
    BY <1>1, <1>5, <2>3
  <2> QED
    BY <2>1, <2>4 DEF Flowed
<1>7. ASSUME NEW i \in 1 .. Len(wrote["boundary"]) PROVE Flowed(i) \in ToSet(Flows)
  <2>1. i \in DOMAIN Of("boundary", records) /\ Of("boundary", records)[i] = wrote["boundary"][i]
    BY <1>1, <1>5
  <2>2. PICK j \in DOMAIN records : Of("boundary", records)[i] = records[j]
    BY <1>5, <2>1, OfSensor
  <2>3. records[j].type = "network/flow"
    BY <2>1, <2>2, FlowTypes
  <2>4. records[j].body = Flowed(i)
    BY <2>1, <2>2 DEF Flowed
  <2> QED
    BY <2>3, <2>4, FlowsAre
<1>8. connection[s] \in {"new", "reported"}
  BY DEF Finalized
<1>9. CASE connection[s] = "new"
  <2>1. sent[s] = 0
    BY <1>9 DEF Accounted
  <2>2. ASSUME a[s].known PROVE FALSE
    <3>1. PICK f \in ToSet(Flows) : f.stream = s
      BY <1>2, <2>2
    <3>2. PICK i \in 1 .. Len(wrote["boundary"]) : f = Flowed(i)
      BY <1>6
    <3>3. connection[s] = "reported"
      BY <3>1, <3>2 DEF Accounted
    <3> QED
      BY <1>9, <3>3
  <2> QED
    BY <1>3, <1>4, <2>1, <2>2 DEF a
<1>10. CASE connection[s] = "reported"
  <2>1. PICK i \in 1 .. Len(wrote["boundary"]) : Flowed(i).stream = s
    BY <1>10 DEF Accounted
  <2>2. /\ Flowed(i).bytes = [k \in 1 .. sent[s] |-> k - 1]
        /\ Flowed(i).denied => sent[s] = 0
    BY <2>1 DEF Accounted
  <2>3. IF Flowed(i).denied THEN ~a[s].known ELSE a[s].bytes = Flowed(i).bytes
    BY <1>2, <1>7, <2>1
  <2> QED
    BY <1>3, <1>4, <2>2, <2>3 DEF a
<1> QED
  BY <1>8, <1>9, <1>10

LEMMA NextAccepted ==
  Types /\ Chained /\ Finalized /\ Accounted /\ AcceptedIsFaithful /\ [Next]_vars
    => AcceptedIsFaithful'
<1> SUFFICES ASSUME Types, Chained, Finalized, Accounted, AcceptedIsFaithful, [Next]_vars,
                    at' = "accepted"
             PROVE  Faithful'
  BY DEF AcceptedIsFaithful, Faithful, Referring
<1>1. UNCHANGED <<backend, wire, wrote, bundle>>
  BY DEF Next, vars, bundle, Outputs, Transfers, Vanishes, Misses, Denies, ReportsFlow, Ends,
         Capturing, Normalizes, Validates, RecordsDisturbed, EventsDisturbed, HealthMisreported
<1>2. Faithful
  <2>1. CASE at = "accepted"
    BY <2>1 DEF AcceptedIsFaithful, Faithful, Referring
  <2>2. CASE at # "accepted"
    <3>1. at = "appended" /\ Valid
      BY <2>2 DEF Next, vars, Outputs, Transfers, Vanishes, Misses, Denies, ReportsFlow, Ends,
                  Capturing, Normalizes, Validates, RecordsDisturbed, EventsDisturbed, HealthMisreported
    <3>2. \A s \in Sensors : Of(s, records) = wrote[s]
      BY <3>1, AcceptedChains
    <3>3. backend # "gvisor-container" =>
            /\ \A r \in ToSet(records) : Cardinality(Referring(r.sensor, r.seq)) = 1
            /\ \A s \in Streams : Assembled.streams[s].bytes = [i \in 1 .. sent[s] |-> i - 1]
      BY <3>1, AcceptedReferences, AcceptedStreams
    <3> QED
      BY <3>2, <3>3 DEF Faithful
  <2> QED
    BY <2>1, <2>2
<1>3. /\ backend' = backend /\ sent' = sent /\ wrote' = wrote /\ records' = records
      /\ log' = log
  BY <1>1 DEF wire, bundle
<1> QED
  BY <1>2, <1>3 DEF Faithful, Referring, Assembled

\* Whatever was lost, repeated, reordered or misread: an accepted bundle has the records
\* its sensors wrote, each in the range of exactly one event, and the bytes that passed
\* (verifier.go:66, bundle.go:260).
THEOREM AcceptedFaithfully == Spec => []AcceptedIsFaithful
<1>1. Init => Chained /\ Finalized /\ Accounted /\ AcceptedIsFaithful
  <2> SUFFICES ASSUME Init PROVE Chained /\ Finalized /\ Accounted /\ AcceptedIsFaithful
    OBVIOUS
  <2>1. \A s \in Sensors : Len(wrote[s]) = 0
    BY DEF Init
  <2>2. at = "capturing"
    BY DEF Init
  <2>3. /\ \A s \in Streams : connection[s] = "new" /\ sent[s] = 0
        /\ Len(wrote["boundary"]) = 0
    BY <2>1 DEF Init, Sensors
  <2> QED
    BY <2>1, <2>2, <2>3 DEF Chained, Finalized, Accounted, AcceptedIsFaithful
<1>2. Types /\ Chained /\ [Next]_vars => Chained'
  BY NextChained
<1>3. Types /\ Finalized /\ [Next]_vars => Finalized'
  BY NextFinalized
<1>4. Types /\ Chained /\ Accounted /\ [Next]_vars => Accounted'
  BY NextAccounted
<1>5. Types /\ Chained /\ Finalized /\ Accounted /\ AcceptedIsFaithful /\ [Next]_vars
        => AcceptedIsFaithful'
  BY NextAccepted
<1> QED
  BY <1>1, <1>2, <1>3, <1>4, <1>5, PipelineTypes, PTL DEF Spec

-----------------------------------------------------------------------------
(* HonestIsAccepted.                                                         *)


\* What Pick picks when a sequence has grown.
LEMMA PickAppend ==
  ASSUME NEW A, NEW q \in Seq(A), NEW r \in A, NEW S \in SUBSET (1 .. Len(q))
  PROVE  /\ Pick(Append(q, r), S) = Pick(q, S)
         /\ Pick(Append(q, r), S \cup {Len(q) + 1}) = Append(Pick(q, S), r)
<1> DEFINE m == Len(q) + 1
           n == Cardinality(S)
           T == S \cup {m}
           id == [i \in S |-> i]
           jd == [i \in T |-> i]
<1>1. /\ m \in Nat /\ m \notin S /\ T \in SUBSET Nat /\ S \in SUBSET Nat
      /\ \A i \in S : i < m /\ i \in 1 .. Len(q)
      /\ \A i \in 1 .. Len(q) : Append(q, r)[i] = q[i] /\ q[i] \in A
      /\ Append(q, r)[m] = r
  <2>1. Len(q) \in Nat /\ \A i \in S : i \in 1 .. Len(q)
    OBVIOUS
  <2>2. /\ m \in Nat /\ m \notin S /\ S \in SUBSET Nat
        /\ \A i \in S : i < m /\ i \in 1 .. Len(q)
    BY <2>1
  <2>3. \A i \in 1 .. Len(q) : Append(q, r)[i] = q[i] /\ q[i] \in A
    OBVIOUS
  <2>4. Append(q, r)[m] = r
    OBVIOUS
  <2> QED
    BY <2>2, <2>3, <2>4
<1>2. IsFiniteSet(S) /\ IsFiniteSet(T) /\ n \in Nat /\ Cardinality(T) = n + 1
  <2>1. IsFiniteSet(1 .. Len(q))
    BY FS_Interval
  <2>2. IsFiniteSet(S)
    BY <2>1, FS_Subset
  <2> QED
    BY <1>1, <2>2, FS_AddElement, FS_CardinalityType
<1>3. id \in [S -> Nat] /\ jd \in [T -> Nat]
  BY <1>1
<1>4. \A k \in 1 .. n : Place(id, k) \in S /\ Cardinality(Upto(id, Place(id, k))) = k
  BY <1>1, <1>2, <1>3, Places, Zenon
<1>5. \A i \in T : Place(jd, Cardinality(Upto(jd, i))) = i
  <2> HIDE DEF T, jd
  <2> QED
    BY <1>1, <1>2, <1>3, Places, Zenon
<1>6. \A i \in S : Upto(jd, i) = Upto(id, i)
  BY <1>1 DEF Upto
<1>7. Upto(jd, m) = T
  BY <1>1 DEF Upto
<1>8. \A k \in 1 .. n : Place(jd, k) = Place(id, k)
  <2> SUFFICES ASSUME NEW k \in 1 .. n PROVE Place(jd, k) = Place(id, k)
    OBVIOUS
  <2>1. Place(id, k) \in S /\ Cardinality(Upto(id, Place(id, k))) = k
    BY <1>4
  <2>2. Cardinality(Upto(jd, Place(id, k))) = k /\ Place(id, k) \in T
    BY <1>6, <2>1
  <2> QED
    BY <1>5, <2>2
<1>9. Place(jd, n + 1) = m
  BY <1>2, <1>5, <1>7
<1>10. /\ Pick(Append(q, r), S) = [k \in 1 .. n |-> Append(q, r)[Place(id, k)]]
       /\ Pick(q, S) = [k \in 1 .. n |-> q[Place(id, k)]]
       /\ Pick(Append(q, r), T) = [k \in 1 .. n + 1 |-> Append(q, r)[Place(jd, k)]]
  BY <1>2 DEF Pick
<1>11. \A k \in 1 .. n : Append(q, r)[Place(id, k)] = q[Place(id, k)] /\ q[Place(id, k)] \in A
  BY <1>1, <1>4
<1>12. Pick(q, S) \in Seq(A) /\ Len(Pick(q, S)) = n
  <2>1. Pick(q, S) \in [1 .. n -> A]
    BY <1>10, <1>11
  <2> QED
    BY <1>2, <2>1, LenIs
<1>13. /\ Append(Pick(q, S), r) \in Seq(A) /\ Len(Append(Pick(q, S), r)) = n + 1
       /\ \A k \in 1 .. n : Append(Pick(q, S), r)[k] = q[Place(id, k)]
       /\ Append(Pick(q, S), r)[n + 1] = r
  <2>1. \A k \in 1 .. n : Pick(q, S)[k] = q[Place(id, k)]
    BY <1>10
  <2> HIDE DEF n, id
  <2> QED
    BY <1>12, <2>1, AppendProperties
<1>14. /\ Pick(Append(q, r), T) \in Seq(A) /\ Len(Pick(Append(q, r), T)) = n + 1
       /\ \A k \in 1 .. n : Pick(Append(q, r), T)[k] = q[Place(id, k)]
       /\ Pick(Append(q, r), T)[n + 1] = r
  <2> DEFINE f == Pick(Append(q, r), T)
  <2>1. /\ \A k \in 1 .. n : k \in 1 .. n + 1 /\ k # n + 1
        /\ \A k \in 1 .. n + 1 : k \in 1 .. n \/ k = n + 1
        /\ n + 1 \in 1 .. n + 1 /\ n + 1 \in Nat
    BY <1>2
  <2>2. f = [k \in 1 .. n + 1 |-> Append(q, r)[Place(jd, k)]]
    BY <1>10
  <2>3. \A k \in 1 .. n : f[k] = q[Place(id, k)] /\ f[k] \in A
    BY <1>8, <1>11, <2>1, <2>2
  <2>4. f[n + 1] = r
    BY <1>1, <1>9, <2>1, <2>2
  <2>5. f \in [1 .. n + 1 -> A]
    BY <2>1, <2>2, <2>3, <2>4
  <2>6. f \in Seq(A) /\ Len(f) = n + 1
    BY <2>1, <2>5, LenIs
  <2> QED
    BY <2>3, <2>4, <2>6
<1> HIDE DEF n, id, jd, T, m
<1>15. Pick(Append(q, r), S) = Pick(q, S)
  BY <1>10, <1>11
<1>16. Pick(Append(q, r), T) = Append(Pick(q, S), r)
  <2>1. \A k \in 1 .. n + 1 : k \in 1 .. n \/ k = n + 1
    BY <1>2
  <2>2. \A k \in 1 .. n + 1 : Pick(Append(q, r), T)[k] = Append(Pick(q, S), r)[k]
    BY <1>13, <1>14, <2>1
  <2> QED
    BY <1>13, <1>14, <2>2, SeqEqual
<1> QED
  BY <1>15, <1>16 DEF T, m

\* A source's records when another record has come.
LEMMA OfAppend ==
  ASSUME NEW A, NEW q \in Seq(A), NEW r \in A, NEW s
  PROVE  Of(s, Append(q, r)) = IF r.sensor = s THEN Append(Of(s, q), r) ELSE Of(s, q)
<1> DEFINE S == {i \in DOMAIN q : q[i].sensor = s}
           T == {i \in DOMAIN Append(q, r) : Append(q, r)[i].sensor = s}
<1>1. /\ S \in SUBSET (1 .. Len(q)) /\ Len(q) \in Nat
      /\ DOMAIN q = 1 .. Len(q) /\ DOMAIN Append(q, r) = (1 .. Len(q)) \cup {Len(q) + 1}
      /\ \A i \in 1 .. Len(q) : Append(q, r)[i] = q[i]
      /\ Append(q, r)[Len(q) + 1] = r
  OBVIOUS
<1>2. Of(s, q) = Pick(q, S) /\ Of(s, Append(q, r)) = Pick(Append(q, r), T)
  BY DEF Of
<1>3. CASE r.sensor = s
  <2>1. T = S \cup {Len(q) + 1}
    BY <1>1, <1>3
  <2> HIDE DEF S, T
  <2> QED
    BY <1>1, <1>2, <1>3, <2>1, PickAppend
<1>4. CASE r.sensor # s
  <2>1. T = S
    BY <1>1, <1>4
  <2> HIDE DEF S, T
  <2> QED
    <3>1. Pick(Append(q, r), S) = Pick(q, S)
      <4>1. S \in SUBSET (1 .. Len(q))
        BY <1>1
      <4> QED
        BY <4>1, PickAppend, Zenon
    <3> QED
      BY <1>2, <1>4, <2>1, <3>1
<1> QED
  BY <1>3, <1>4

\* The events of some records.
Events(q) == [i \in DOMAIN q |-> EventOf(q[i])]

LEMMA EventsAre ==
  ASSUME NEW q \in Seq(Record)
  PROVE  /\ Events(q) \in Seq(Event) /\ Len(Events(q)) = Len(q)
         /\ \A i \in 1 .. Len(q) : Events(q)[i] = EventOf(q[i])
<1>1. /\ Len(q) \in Nat /\ DOMAIN q = 1 .. Len(q)
      /\ \A i \in 1 .. Len(q) : EventOf(q[i]) \in Event
  <2>1. \A i \in 1 .. Len(q) : q[i] \in Record
    OBVIOUS
  <2>2. \A r \in Record : EventOf(r) \in Event
    BY RecordFields, ReferenceFields
  <2> QED
    BY <2>1, <2>2
<1>2. Events(q) \in [1 .. Len(q) -> Event]
  BY <1>1 DEF Events
<1> QED
  BY <1>1, <1>2, LenIs DEF Events

LEMMA EventsAppend ==
  ASSUME NEW q \in Seq(Record), NEW r \in Record
  PROVE  Events(Append(q, r)) = Append(Events(q), EventOf(r))
<1> DEFINE n == Len(q)
           p == Append(q, r)
           es == Append(Events(q), EventOf(r))
<1>1. /\ n \in Nat /\ p \in Seq(Record) /\ Len(p) = n + 1 /\ p[n + 1] = r
      /\ \A i \in 1 .. n : p[i] = q[i]
  BY AppendProperties
<1>2. EventOf(r) \in Event
  BY RecordFields, ReferenceFields
<1>3. /\ es \in Seq(Event) /\ Len(es) = n + 1 /\ es[n + 1] = EventOf(r)
      /\ \A i \in 1 .. n : es[i] = EventOf(q[i])
  BY <1>2, EventsAre, AppendProperties
<1>4. Events(p) \in Seq(Event) /\ Len(Events(p)) = n + 1
  BY <1>1, EventsAre
<1> HIDE DEF n, p, es
<1>5. \A i \in 1 .. n + 1 : Events(p)[i] = EventOf(p[i])
  BY <1>1, EventsAre
<1>6. \A i \in 1 .. n + 1 : Events(p)[i] = es[i]
  <2>1. \A i \in 1 .. n + 1 : i \in 1 .. n \/ i = n + 1
    BY <1>1
  <2> QED
    BY <1>1, <1>3, <1>5, <2>1
<1>7. Events(p) = es
  BY <1>3, <1>4, <1>6, SeqEqual
<1> QED
  BY <1>7 DEF p, es

\* The assembler after one more event.
LEMMA AssemblyAppend ==
  ASSUME NEW es \in Seq(Event), NEW e \in Event
  PROVE  Assembly(Append(es, e))[Len(es) + 1] = Step(Assembly(es)[Len(es)], e)
<1> DEFINE n == Len(es)
           w == Append(es, e)
           P == {k \in 0 .. n : Assembly(w)[k] = Assembly(es)[k]}
<1>1. /\ n \in Nat /\ w \in Seq(Event) /\ Len(w) = n + 1 /\ w[n + 1] = e
      /\ \A i \in 1 .. n : w[i] = es[i]
  BY AppendProperties
<1>2. /\ Assembly(w)[0] = NoAssembly
      /\ \A k \in 1 .. n + 1 : Assembly(w)[k] = Step(Assembly(w)[k - 1], w[k])
  BY <1>1, AssemblyFacts
<1>3. /\ Assembly(es)[0] = NoAssembly
      /\ \A k \in 1 .. n : Assembly(es)[k] = Step(Assembly(es)[k - 1], es[k])
  BY AssemblyFacts
<1> HIDE DEF n, w
<1>4. 0 \in P
  BY <1>1, <1>2, <1>3
<1>5. ASSUME NEW i \in 0 .. n - 1, i \in P PROVE i + 1 \in P
  <2>1. /\ i + 1 \in 1 .. n /\ i + 1 \in 1 .. n + 1 /\ i + 1 \in 0 .. n /\ i + 1 - 1 = i
    BY <1>1
  <2>2. /\ Assembly(w)[i + 1] = Step(Assembly(w)[i], w[i + 1])
        /\ Assembly(es)[i + 1] = Step(Assembly(es)[i], es[i + 1])
    BY <1>2, <1>3, <2>1
  <2> QED
    BY <1>1, <1>5, <2>1, <2>2
<1> HIDE DEF P
<1>6. n \in P
  <2>1. \A i \in 0 .. n : i \in P
    BY <1>1, <1>4, <1>5, Upwards
  <2> QED
    BY <1>1, <2>1
<1>7. n + 1 \in 1 .. n + 1 /\ n + 1 - 1 = n
  BY <1>1
<1>8. Assembly(w)[n + 1] = Step(Assembly(w)[n], e)
  BY <1>1, <1>2, <1>7
<1>9. Assembly(w)[n] = Assembly(es)[n]
  BY <1>6 DEF P
<1> QED
  BY <1>8, <1>9 DEF n, w

\* A log of some events.
Marked(es) == <<Mark("run/start")>> \o es \o <<Mark("run/finish")>>

LEMMA MarkedAre ==
  ASSUME NEW es \in Seq(Event)
  PROVE  /\ Marked(es) \in Seq(Event) /\ Len(Marked(es)) = Len(es) + 2
         /\ Marked(es)[1] = Mark("run/start") /\ Marked(es)[Len(es) + 2] = Mark("run/finish")
         /\ \A i \in 1 .. Len(es) : Marked(es)[i + 1] = es[i]
<1>1. Mark("run/start") \in Event /\ Mark("run/finish") \in Event
  BY DEF Event
<1> DEFINE a == Mark("run/start")
           b == Mark("run/finish")
           p == <<a>> \o es
<1> HIDE DEF a, b
<1>2. a \in Event /\ b \in Event
  BY <1>1 DEF a, b
<1>3. /\ p \in Seq(Event) /\ Len(p) = Len(es) + 1 /\ p[1] = a
      /\ \A i \in 1 .. Len(es) : p[i + 1] = es[i]
  BY <1>2
<1>4. Marked(es) = p \o <<b>>
  BY DEF Marked, a, b
<1> HIDE DEF p
<1>5. /\ p \o <<b>> \in Seq(Event) /\ Len(p \o <<b>>) = Len(es) + 2
      /\ \A i \in 1 .. Len(es) + 1 : (p \o <<b>>)[i] = p[i]
      /\ (p \o <<b>>)[Len(es) + 2] = b
  BY <1>2, <1>3
<1>6. /\ 1 \in 1 .. Len(es) + 1 /\ \A i \in 1 .. Len(es) : i + 1 \in 1 .. Len(es) + 1
  OBVIOUS
<1> QED
  BY <1>3, <1>4, <1>5, <1>6 DEF a, b

\* The marks are nothing to the assembler.
LEMMA AssemblyMarked ==
  ASSUME NEW es \in Seq(Event)
  PROVE  Assembly(Marked(es))[Len(Marked(es))] = Assembly(es)[Len(es)]
<1> DEFINE n == Len(es)
           w == Marked(es)
           P == {k \in 0 .. n : Assembly(w)[k + 1] = Assembly(es)[k]}
<1>1. /\ n \in Nat /\ w \in Seq(Event) /\ Len(w) = n + 2
      /\ w[1].type = "run/start" /\ w[n + 2].type = "run/finish"
      /\ \A i \in 1 .. n : w[i + 1] = es[i]
  BY MarkedAre DEF Mark
<1>2. /\ Assembly(w)[0] = NoAssembly
      /\ \A k \in 1 .. n + 2 : Assembly(w)[k] = Step(Assembly(w)[k - 1], w[k])
  BY <1>1, AssemblyFacts
<1>3. /\ Assembly(es)[0] = NoAssembly
      /\ \A k \in 1 .. n : Assembly(es)[k] = Step(Assembly(es)[k - 1], es[k])
  BY AssemblyFacts
<1> HIDE DEF n, w
<1>4. 0 \in P
  <2>1. 1 \in 1 .. n + 2 /\ 1 - 1 = 0 /\ 0 + 1 = 1 /\ 0 \in 0 .. n
    BY <1>1
  <2>2. Assembly(w)[1] = NoAssembly
    BY <1>1, <1>2, <2>1 DEF Step
  <2> QED
    BY <1>3, <2>1, <2>2
<1>5. ASSUME NEW i \in 0 .. n - 1, i \in P PROVE i + 1 \in P
  <2>1. /\ i + 1 \in 1 .. n /\ i + 1 \in 0 .. n /\ i + 1 - 1 = i
        /\ i + 1 + 1 \in 1 .. n + 2 /\ i + 1 + 1 - 1 = i + 1
    BY <1>1
  <2>2. /\ Assembly(w)[i + 1 + 1] = Step(Assembly(w)[i + 1], w[i + 1 + 1])
        /\ Assembly(es)[i + 1] = Step(Assembly(es)[i], es[i + 1])
    BY <1>2, <1>3, <2>1
  <2>3. w[i + 1 + 1] = es[i + 1]
    BY <1>1, <2>1
  <2> QED
    BY <1>5, <2>1, <2>2, <2>3
<1> HIDE DEF P
<1>6. n \in P
  <2>1. \A i \in 0 .. n : i \in P
    BY <1>1, <1>4, <1>5, Upwards
  <2> QED
    BY <1>1, <2>1
<1>7. n + 2 \in 1 .. n + 2 /\ n + 2 - 1 = n + 1
  BY <1>1
<1>8. Assembly(w)[n + 2] = Assembly(w)[n + 1]
  BY <1>1, <1>2, <1>7 DEF Step
<1>9. Assembly(w)[n + 1] = Assembly(es)[n]
  BY <1>6 DEF P
<1> QED
  BY <1>1, <1>8, <1>9 DEF n, w

\* What the plaintext of the records comes to.
Replayed == Assembly(Events(records))[Len(records)]

\* What the streams have carried, when all of it was recorded.
Carries(s) ==
  [known |-> captured[s] > 0, next |-> captured[s] + 1,
   offset |-> IF s \in Datagram THEN 0 ELSE sent[s],
   closed |-> captured[s] > 0 /\ connection[s] \in {"closed", "reported"} /\ s \notin unended,
   bytes |-> [k \in 1 .. sent[s] |-> k - 1]]
Carried == [ok |-> TRUE, streams |-> [s \in Streams |-> Carries(s)]]

\* The streams of a run in which every byte was recorded.
Recorded ==
  /\ \A s \in Streams : connection[s] \in {"new", "denied"} => captured[s] = 0
  /\ \A s \in Streams : connection[s] \in {"open", "closed"} => captured[s] > 0 \/ s \in unended
  /\ \A s \in unended : connection[s] \in {"closed", "reported"}
  /\ \A i \in 1 .. Len(wrote["boundary"]) :
       LET s == Flowed(i).stream
       IN IF Flowed(i).denied THEN captured[s] = 0 /\ s \notin unended
          ELSE captured[s] > 0 \/ s \in unended
  /\ \A i, j \in 1 .. Len(wrote["boundary"]) : i # j => Flowed(i).stream # Flowed(j).stream

\* A record more in the bundle.
LEMMA WritesKept ==
  ASSUME Types, NEW s \in Sensors, NEW t, NEW b, Writes(s, t, b),
         \/ s = "workload" /\ t = "output" /\ b = <<>>
         \/ s = "workload" /\ t = "network/plaintext" /\ b \in Chunk
         \/ s = "boundary" /\ t = "network/flow" /\ b \in Flow,
         \A x \in Sensors : Of(x, records) = wrote[x]
  PROVE  /\ \A x \in Sensors : Of(x, records)' = wrote'[x]
         /\ t = "network/plaintext" => Replayed' = Add(Replayed, b)
         /\ t # "network/plaintext" => Replayed' = Replayed
<1> DEFINE n == Len(wrote[s]) + 1
           r == [sensor |-> s, seq |-> n, prev |-> n - 1, type |-> t, body |-> b,
                 sha |-> [sensor |-> s, seq |-> n]]
<1>1. /\ r \in Record /\ wrote' = [wrote EXCEPT ![s] = Append(@, r)]
      /\ records' = Append(records, r)
  BY WrittenRecords
<1>2. /\ r.sensor = s /\ EventOf(r).type = t /\ EventOf(r).details = b
      /\ records \in Seq(Record) /\ wrote \in [Sensors -> Seq(Record)]
  BY DEF EventOf, Types
<1> HIDE DEF r, n
<1>3. ASSUME NEW x \in Sensors PROVE Of(x, records') = wrote'[x]
  <2>1. Of(x, records') = IF x = s THEN Append(Of(x, records), r) ELSE Of(x, records)
    BY <1>1, <1>2, OfAppend
  <2> QED
    BY <1>1, <1>2, <2>1
<1>4. EventOf(r) \in Event /\ Events(records) \in Seq(Event) /\ Len(Events(records)) = Len(records)
  BY <1>1, <1>2, EventsAre, RecordFields, ReferenceFields
<1>5. Events(records') = Append(Events(records), EventOf(r)) /\ Len(records') = Len(records) + 1
  BY <1>1, <1>2, EventsAppend, AppendProperties
<1>6. Assembly(Events(records'))[Len(records')] = Step(Replayed, EventOf(r))
  BY <1>4, <1>5, AssemblyAppend DEF Replayed
<1>7. Replayed' = Step(Replayed, EventOf(r))
  BY <1>6 DEF Replayed
<1> QED
  BY <1>2, <1>3, <1>7 DEF Step, Of

\* A chunk more on a stream.
LEMMA CarriesMore ==
  ASSUME Types, NEW s \in Streams, NEW eof \in BOOLEAN, NEW bytes \in {<<>>, <<sent[s]>>},
         connection[s] \in {"new", "open"}, s \notin unended, unended' = unended,
         connection' = [connection EXCEPT ![s] = IF eof THEN "closed" ELSE "open"],
         sent' = [sent EXCEPT ![s] = @ + Len(bytes)], captured' = [captured EXCEPT ![s] = @ + 1]
  PROVE  Carried' = Add(Carried, [stream |-> s, n |-> captured[s] + 1, bytes |-> bytes,
                                  eof |-> eof, offset |-> IF s \in Datagram THEN 0 ELSE sent[s]])
<1> DEFINE p == [stream |-> s, n |-> captured[s] + 1, bytes |-> bytes,
                 eof |-> eof, offset |-> IF s \in Datagram THEN 0 ELSE sent[s]]
           a == Carried.streams[s]
           v == [known |-> TRUE, next |-> a.next + 1, closed |-> eof,
                 offset |-> IF s \in Datagram THEN a.offset ELSE a.offset + Len(p.bytes),
                 bytes |-> a.bytes \o p.bytes]
<1>1. /\ connection \in [Streams -> {"new", "open", "closed", "denied", "reported"}]
      /\ sent \in [Streams -> Nat] /\ captured \in [Streams -> Nat]
      /\ captured[s] \in Nat /\ sent[s] \in Nat /\ Len(bytes) \in Nat
  BY DEF Types
<1>2. /\ connection'[s] = (IF eof THEN "closed" ELSE "open")
      /\ sent'[s] = sent[s] + Len(bytes) /\ captured'[s] = captured[s] + 1
      /\ \A x \in Streams : x # s => /\ connection'[x] = connection[x] /\ sent'[x] = sent[x]
                                     /\ captured'[x] = captured[x]
  BY <1>1
<1>3. /\ a.next = captured[s] + 1 /\ ~a.closed /\ a.bytes = [k \in 1 .. sent[s] |-> k - 1]
      /\ a.offset = IF s \in Datagram THEN 0 ELSE sent[s]
  BY <1>1 DEF Carried, Carries
<1>4. a.bytes \o bytes = [k \in 1 .. sent[s] + Len(bytes) |-> k - 1]
  <2> DEFINE m == sent[s]
             f == [k \in 1 .. m |-> k - 1]
             g == [k \in 1 .. m + 1 |-> k - 1]
  <2>1. m \in Nat
    BY <1>1
  <2> HIDE DEF m
  <2>2. f \in [1 .. m -> Nat] /\ g \in [1 .. m + 1 -> Nat] /\ m + 1 \in Nat
    BY <2>1
  <2>3. /\ f \in Seq(Nat) /\ Len(f) = m
    BY <2>1, <2>2, LenIs
  <2>4. g \in Seq(Nat) /\ Len(g) = m + 1
    BY <2>2, LenIs
  <2>5. /\ \A k \in 1 .. m : f[k] = g[k] /\ g[m + 1] = m
        /\ \A k \in 1 .. m + 1 : k \in 1 .. m \/ k = m + 1
    BY <2>1
  <2>6. g[m + 1] = m
    BY <2>1
  <2> HIDE DEF f, g
  <2>7. /\ f \o <<m>> \in Seq(Nat) /\ Len(f \o <<m>>) = m + 1 /\ (f \o <<m>>)[m + 1] = m
        /\ \A k \in 1 .. m : (f \o <<m>>)[k] = f[k]
    BY <2>1, <2>3
  <2>8. \A k \in 1 .. m + 1 : (f \o <<m>>)[k] = g[k]
    BY <2>5, <2>6, <2>7
  <2>9. f \o <<m>> = g
    BY <2>4, <2>7, <2>8, SeqEqual
  <2>10. f \o <<>> = f
    BY <2>3
  <2>11. CASE bytes = <<>>
    <3>1. sent[s] + Len(bytes) = m
      BY <1>1, <2>11 DEF m
    <3> QED
      BY <1>3, <2>10, <2>11, <3>1 DEF f, m
  <2>12. CASE bytes = <<sent[s]>>
    <3>1. sent[s] + Len(bytes) = m + 1
      BY <2>12 DEF m
    <3> QED
      BY <1>3, <2>9, <2>12, <3>1 DEF f, g, m
  <2> QED
    BY <2>11, <2>12
<1>5. Carries(s)' = v
  <2> DEFINE w == [known |-> TRUE, next |-> captured[s] + 2, closed |-> eof,
                   offset |-> IF s \in Datagram THEN 0 ELSE sent[s] + Len(bytes),
                   bytes |-> [k \in 1 .. sent[s] + Len(bytes) |-> k - 1]]
  <2>1. a.next + 1 = captured[s] + 2 /\ p.bytes = bytes
    BY <1>1, <1>3
  <2>2. v.bytes = w.bytes
    BY <1>4
  <2>3. v.offset = w.offset
    BY <1>1, <1>3, <2>1
  <2>4. v = w
    BY <2>1, <2>2, <2>3
  <2>5. /\ captured'[s] > 0 /\ captured'[s] + 1 = captured[s] + 2 /\ s \notin unended'
        /\ connection'[s] \in {"closed", "reported"} <=> eof
    BY <1>1, <1>2
  <2>6. Carries(s)' = w
    BY <1>2, <2>5 DEF Carries
  <2> QED
    BY <2>4, <2>6
<1>6. \A x \in Streams : x # s => Carries(x)' = Carries(x)
  BY <1>2 DEF Carries
<1>7. Add(Carried, p) = [Carried EXCEPT !.streams[s] = v]
  <2>1. /\ p.stream = s /\ p.n = a.next /\ p.eof = eof /\ Carried.ok
        /\ s \in Datagram \/ p.offset = a.offset
    BY <1>1, <1>3 DEF Carried
  <2> HIDE DEF p
  <2> QED
    BY <1>3, <2>1 DEF Add
<1> HIDE DEF v, p
<1>8. [Carried EXCEPT !.streams[s] = v] = Carried'
  <2>1. Carried' = [ok |-> TRUE, streams |-> [x \in Streams |-> Carries(x)']]
    BY DEF Carried
  <2>2. [Carried EXCEPT !.streams[s] = v]
          = [ok |-> TRUE, streams |-> [x \in Streams |-> IF x = s THEN v ELSE Carries(x)]]
    <3> DEFINE F == [x \in Streams |-> Carries(x)]
    <3>1. Carried = [ok |-> TRUE, streams |-> F]
      BY DEF Carried
    <3>2. [F EXCEPT ![s] = v] = [x \in Streams |-> IF x = s THEN v ELSE Carries(x)]
      OBVIOUS
    <3> HIDE DEF F
    <3>3. [Carried EXCEPT !.streams[s] = v]
            = [Carried EXCEPT !.streams = [Carried.streams EXCEPT ![s] = v]]
      OBVIOUS
    <3>4. Carried.streams = F
      BY <3>1
    <3> DEFINE G == [F EXCEPT ![s] = v]
    <3>5. [Carried EXCEPT !.streams = [Carried.streams EXCEPT ![s] = v]]
            = [Carried EXCEPT !.streams = G]
      BY <3>4
    <3> HIDE DEF G
    <3>6. [[ok |-> TRUE, streams |-> F] EXCEPT !.streams = G] = [ok |-> TRUE, streams |-> G]
      <4>1. \A b : [[ok |-> b, streams |-> F] EXCEPT !.streams = G] = [ok |-> b, streams |-> G]
        OBVIOUS
      <4> QED
        BY <4>1
    <3> QED
      BY <3>1, <3>2, <3>3, <3>5, <3>6 DEF G
  <2>3. \A x \in Streams : Carries(x)' = IF x = s THEN v ELSE Carries(x)
    BY <1>5, <1>6
  <2> QED
    BY <2>1, <2>2, <2>3
<1> QED
  BY <1>7, <1>8 DEF p

\* Nothing went wrong yet: what the bundle holds is what passed.
Intact ==
  /\ \A x \in Sensors : Of(x, records) = wrote[x]
  /\ Replayed = Carried
  /\ Recorded

LEMMA OutputsIntact == Types /\ Intact /\ Outputs => Intact'
<1> SUFFICES ASSUME Types, Intact, Outputs PROVE Intact'
  OBVIOUS
<1>1. /\ Writes("workload", "output", <<>>) /\ "workload" \in Sensors
      /\ UNCHANGED <<connection, sent, captured, unended>>
  BY DEF Outputs, wire, Sensors
<1>2. /\ \A x \in Sensors : Of(x, records)' = wrote'[x]
      /\ Replayed' = Replayed
  BY <1>1, WritesKept DEF Intact
<1>3. wrote'["boundary"] = wrote["boundary"]
  BY <1>1, BoundaryKept
<1>4. Recorded'
  BY <1>1, <1>3 DEF Intact, Recorded, Flowed
<1>5. Carried' = Carried
  BY <1>1 DEF Carried, Carries
<1> QED
  BY <1>2, <1>4, <1>5 DEF Intact

LEMMA TransfersIntact ==
  ASSUME Types, Chained, Accounted, Intact, NEW s \in Streams, Transfers(s)
  PROVE  Intact'
<1>1. PICK bytes \in {<<>>, <<sent[s]>>}, eof \in BOOLEAN :
        /\ connection' = [connection EXCEPT ![s] = IF eof THEN "closed" ELSE "open"]
        /\ sent' = [sent EXCEPT ![s] = @ + Len(bytes)]
        /\ Writes("workload", "network/plaintext",
                  [stream |-> s, n |-> captured[s] + 1, bytes |-> bytes, eof |-> eof,
                   offset |-> IF s \in Datagram THEN 0 ELSE sent[s]])
  BY DEF Transfers
<1> DEFINE p == [stream |-> s, n |-> captured[s] + 1, bytes |-> bytes, eof |-> eof,
                 offset |-> IF s \in Datagram THEN 0 ELSE sent[s]]
<1>2. /\ connection[s] \in {"new", "open"} /\ unended' = unended
      /\ captured' = [captured EXCEPT ![s] = @ + 1]
  BY DEF Transfers
<1>3. /\ connection \in [Streams -> {"new", "open", "closed", "denied", "reported"}]
      /\ sent \in [Streams -> Nat] /\ captured \in [Streams -> Nat] /\ s \notin unended
      /\ "workload" \in Sensors
  BY <1>2 DEF Types, Intact, Recorded, Sensors
<1>4. Carried' = Add(Carried, p)
  BY <1>1, <1>2, <1>3, CarriesMore
<1>5. p \in Chunk
  <2>1. sent[s] \in Nat /\ captured[s] + 1 \in Nat
    BY <1>3
  <2>2. <<>> \in Seq(Nat) /\ <<sent[s]>> \in Seq(Nat)
    BY <2>1
  <2> QED
    BY <2>1, <2>2 DEF Chunk
<1> HIDE DEF p
<1>6. Writes("workload", "network/plaintext", p)
  BY <1>1 DEF p
<1>7. /\ \A x \in Sensors : Of(x, records)' = wrote'[x]
      /\ Replayed' = Add(Replayed, p)
  BY <1>3, <1>5, <1>6, WritesKept DEF Intact
<1>8. wrote'["boundary"] = wrote["boundary"]
  BY <1>6, BoundaryKept
<1>9. Recorded'
  <2>1. \A i \in 1 .. Len(wrote["boundary"]) : Flowed(i).stream \in Streams /\ Flowed(i).stream # s
    BY <1>2, FlowTypes DEF Accounted
  <2>2. /\ connection'[s] \in {"open", "closed"} /\ captured'[s] > 0
        /\ \A x \in Streams : x # s => connection'[x] = connection[x] /\ captured'[x] = captured[x]
    BY <1>1, <1>2, <1>3
  <2>3. /\ \A x \in Streams : connection'[x] \in {"new", "denied"} => captured'[x] = 0
        /\ \A x \in Streams : connection'[x] \in {"open", "closed"} => captured'[x] > 0 \/ x \in unended
        /\ \A x \in unended : connection'[x] \in {"closed", "reported"}
    BY <1>3, <2>2 DEF Types, Intact, Recorded
  <2>4. \A i \in 1 .. Len(wrote["boundary"]) :
          IF Flowed(i).denied
          THEN captured'[Flowed(i).stream] = 0 /\ Flowed(i).stream \notin unended
          ELSE captured'[Flowed(i).stream] > 0 \/ Flowed(i).stream \in unended
    BY <2>1, <2>2 DEF Intact, Recorded
  <2> QED
    BY <1>2, <1>8, <2>3, <2>4 DEF Intact, Recorded, Flowed
<1> QED
  BY <1>4, <1>7, <1>9 DEF Intact

LEMMA VanishesIntact ==
  ASSUME Types, Chained, Accounted, Intact, NEW s \in Streams, Vanishes(s)
  PROVE  Intact'
<1>1. /\ connection[s] \in {"new", "open"} /\ connection' = [connection EXCEPT ![s] = "closed"]
      /\ unended' = unended \cup {s} /\ UNCHANGED <<sent, captured, wrote, records>>
      /\ connection \in [Streams -> {"new", "open", "closed", "denied", "reported"}]
      /\ unended \subseteq Streams
  BY DEF Vanishes, Types
<1>2. /\ connection'[s] = "closed" /\ s \in unended'
      /\ \A x \in Streams : x # s => /\ connection'[x] = connection[x]
                                     /\ x \in unended' <=> x \in unended
  BY <1>1
<1>3. Carried' = Carried
  <2>1. \A x \in Streams :
          (captured[x] > 0 /\ connection'[x] \in {"closed", "reported"} /\ x \notin unended')
            = (captured[x] > 0 /\ connection[x] \in {"closed", "reported"} /\ x \notin unended)
    BY <1>1, <1>2
  <2>2. \A x \in Streams : Carries(x)' = Carries(x)
    BY <1>1, <2>1 DEF Carries
  <2> QED
    BY <2>2 DEF Carried
<1>4. Recorded'
  <2>1. \A i \in 1 .. Len(wrote["boundary"]) : Flowed(i).stream \in Streams /\ Flowed(i).stream # s
    BY <1>1, FlowTypes DEF Accounted
  <2>2. /\ \A x \in Streams : connection'[x] \in {"new", "denied"} => captured[x] = 0
        /\ \A x \in Streams : connection'[x] \in {"open", "closed"} => captured[x] > 0 \/ x \in unended'
        /\ \A x \in unended' : connection'[x] \in {"closed", "reported"}
    BY <1>1, <1>2 DEF Intact, Recorded
  <2>3. \A i \in 1 .. Len(wrote["boundary"]) :
          IF Flowed(i).denied
          THEN captured[Flowed(i).stream] = 0 /\ Flowed(i).stream \notin unended'
          ELSE captured[Flowed(i).stream] > 0 \/ Flowed(i).stream \in unended'
    BY <1>2, <2>1 DEF Intact, Recorded
  <2> QED
    BY <1>1, <2>2, <2>3 DEF Intact, Recorded, Flowed
<1>5. Replayed' = Replayed /\ \A x \in Sensors : Of(x, records)' = Of(x, records)
  BY <1>1 DEF Replayed
<1> QED
  BY <1>1, <1>3, <1>4, <1>5 DEF Intact

LEMMA DeniesIntact ==
  ASSUME Types, Accounted, Intact, NEW s \in Streams, Denies(s)
  PROVE  Intact'
<1>1. /\ connection[s] = "new" /\ connection' = [connection EXCEPT ![s] = "denied"]
      /\ UNCHANGED <<sent, captured, unended, wrote, records>>
      /\ connection \in [Streams -> {"new", "open", "closed", "denied", "reported"}]
      /\ unended \subseteq Streams
  BY DEF Denies, Types
<1>2. \A x \in Streams : /\ connection'[x] \in {"closed", "reported"} <=>
                              connection[x] \in {"closed", "reported"}
                         /\ connection'[x] \in {"open", "closed"} <=>
                              connection[x] \in {"open", "closed"}
                         /\ connection'[x] \in {"new", "denied"} <=>
                              connection[x] \in {"new", "denied"}
  BY <1>1
<1>3. Carried' = Carried
  BY <1>1, <1>2 DEF Carried, Carries
<1>4. Recorded'
  BY <1>1, <1>2 DEF Intact, Recorded, Flowed
<1>5. Replayed' = Replayed /\ \A x \in Sensors : Of(x, records)' = Of(x, records)
  BY <1>1 DEF Replayed
<1> QED
  BY <1>1, <1>3, <1>4, <1>5 DEF Intact

LEMMA ReportsIntact ==
  ASSUME Types, Chained, Accounted, Intact, NEW s \in Streams, ReportsFlow(s)
  PROVE  Intact'
<1> DEFINE b == [stream |-> s, bytes |-> [k \in 1 .. sent[s] |-> k - 1],
                 denied |-> connection[s] = "denied"]
           N == Len(wrote["boundary"])
<1>1. /\ connection[s] \in {"closed", "denied"}
      /\ connection' = [connection EXCEPT ![s] = "reported"]
      /\ UNCHANGED <<sent, captured, unended>> /\ Writes("boundary", "network/flow", b)
  BY DEF ReportsFlow
<1>2. /\ connection \in [Streams -> {"new", "open", "closed", "denied", "reported"}]
      /\ sent \in [Streams -> Nat] /\ captured \in [Streams -> Nat]
      /\ "boundary" \in Sensors /\ wrote \in [Sensors -> Seq(Record)]
      /\ wrote["boundary"] \in Seq(Record) /\ N \in Nat
  BY DEF Types, Sensors
<1>3. /\ connection'[s] = "reported"
      /\ \A x \in Streams : x # s => connection'[x] = connection[x]
  BY <1>1, <1>2
<1>4. b \in Flow /\ b.stream = s /\ (b.denied <=> connection[s] = "denied")
  <2>1. sent[s] \in Nat
    BY <1>2
  <2>2. [k \in 1 .. sent[s] |-> k - 1] \in [1 .. sent[s] -> Nat]
    BY <2>1
  <2>3. [k \in 1 .. sent[s] |-> k - 1] \in Seq(Nat)
    BY <2>1, <2>2, LenIs
  <2> QED
    BY <2>3 DEF Flow
<1>5. /\ wrote'["boundary"][N + 1].body = b /\ Len(wrote'["boundary"]) = N + 1
      /\ \A i \in 1 .. N : wrote'["boundary"][i].body = Flowed(i)
  <2> DEFINE r == [sensor |-> "boundary", seq |-> N + 1, prev |-> (N + 1) - 1,
                   type |-> "network/flow", body |-> b,
                   sha |-> [sensor |-> "boundary", seq |-> N + 1]]
  <2>1. wrote' = [wrote EXCEPT !["boundary"] = Append(@, r)]
    BY <1>1 DEF Writes
  <2>2. wrote'["boundary"] = Append(wrote["boundary"], r)
    BY <1>2, <2>1
  <2>3. r.body = b
    OBVIOUS
  <2> HIDE DEF r, b
  <2> QED
    BY <1>2, <2>2, <2>3 DEF Flowed
<1> HIDE DEF b
<1>6. /\ \A x \in Sensors : Of(x, records)' = wrote'[x]
      /\ Replayed' = Replayed
  BY <1>1, <1>2, <1>4, WritesKept DEF Intact
<1>7. connection[s] = "denied" => captured[s] = 0 /\ s \notin unended
  BY DEF Intact, Recorded
<1>8. Carried' = Carried
  <2>1. \A x \in Streams : captured[x] > 0 /\ connection'[x] \in {"closed", "reported"} <=>
                           captured[x] > 0 /\ connection[x] \in {"closed", "reported"}
    BY <1>1, <1>2, <1>3, <1>7
  <2>2. \A x \in Streams : Carries(x)' = Carries(x)
    BY <1>1, <2>1 DEF Carries
  <2> QED
    BY <2>2 DEF Carried
<1>9. Recorded'
  <2>1. /\ \A x \in Streams : connection'[x] \in {"new", "denied"} => captured[x] = 0
        /\ \A x \in Streams : connection'[x] \in {"open", "closed"} => captured[x] > 0 \/ x \in unended
        /\ \A x \in unended : connection'[x] \in {"closed", "reported"}
    BY <1>1, <1>3 DEF Types, Intact, Recorded
  <2>2. /\ \A i \in 1 .. N : Flowed(i).stream \in Streams /\ Flowed(i).stream # s
        /\ \A i \in 1 .. N : IF Flowed(i).denied
                             THEN captured[Flowed(i).stream] = 0 /\ Flowed(i).stream \notin unended
                             ELSE captured[Flowed(i).stream] > 0 \/ Flowed(i).stream \in unended
        /\ \A i, j \in 1 .. N : i # j => Flowed(i).stream # Flowed(j).stream
    BY <1>1, FlowTypes DEF Accounted, Intact, Recorded
  <2>3. IF b.denied THEN captured[s] = 0 /\ s \notin unended ELSE captured[s] > 0 \/ s \in unended
    BY <1>1, <1>4, <1>7 DEF Intact, Recorded
  <2>4. \A i \in 1 .. N + 1 : i \in 1 .. N \/ i = N + 1
    BY <1>2
  <2> DEFINE F(i) == wrote'["boundary"][i].body
  <2>5. \A i \in 1 .. N : F(i) = Flowed(i)
    BY <1>5
  <2>6. F(N + 1) = b
    BY <1>5
  <2> HIDE DEF F, N
  <2>7. \A i \in 1 .. N + 1 : IF F(i).denied
                             THEN captured[F(i).stream] = 0 /\ F(i).stream \notin unended
                             ELSE captured[F(i).stream] > 0 \/ F(i).stream \in unended
    BY <1>4, <2>2, <2>3, <2>4, <2>5, <2>6
  <2>8. \A i, j \in 1 .. N + 1 : i # j => F(i).stream # F(j).stream
    BY <1>4, <2>2, <2>4, <2>5, <2>6
  <2> QED
    BY <1>1, <1>5, <2>1, <2>7, <2>8 DEF Recorded, Flowed, F
<1> QED
  BY <1>6, <1>8, <1>9 DEF Intact

\* Nothing was lost from the bundle, and its log is the driver's.
Bundled ==
  /\ at # "capturing" => records # <<>> /\ observed = heads
  /\ at \in {"appended", "accepted"} =>
       log = Marked(IF backend = "gvisor-container" THEN <<>> ELSE Events(records))

\* What a sensor wrote is a valid chain.
LEMMA WroteInLineage ==
  ASSUME Types, Chained, NEW s \in Sensors
  PROVE  InLineage(wrote[s])
<1>1. wrote[s] \in Seq(Record) /\ DOMAIN wrote[s] = 1 .. Len(wrote[s]) /\ Len(wrote[s]) \in Nat
  BY DEF Types
<1> SUFFICES ASSUME NEW i \in 1 .. Len(wrote[s])
             PROVE  /\ ValidRecord(wrote[s][i]) /\ wrote[s][i].seq = i
                    /\ wrote[s][i].prev = IF i = 1 THEN 0 ELSE wrote[s][i - 1].sha.seq
  BY <1>1 DEF InLineage
<1>2. wrote[s][i].sensor = s /\ wrote[s][i].seq = i /\ wrote[s][i].prev = i - 1
  BY DEF Chained
<1>3. ValidRecord(wrote[s][i])
  <2>1. wrote[s][i] \in ToSet(wrote[s]) /\ i # 0
    BY <1>1 DEF ToSet
  <2> QED
    BY <1>2, <2>1 DEF ValidRecord
<1>4. CASE i = 1
  BY <1>2, <1>3, <1>4
<1>5. CASE i # 1
  <2>1. i - 1 \in 1 .. Len(wrote[s])
    BY <1>1, <1>5
  <2>2. wrote[s][i - 1].sha = [sensor |-> s, seq |-> i - 1]
    BY <2>1 DEF Chained
  <2> QED
    BY <1>2, <1>3, <1>5, <2>2
<1> QED
  BY <1>4, <1>5

LEMMA IntactKept ==
  ASSUME Intact, UNCHANGED <<wire, wrote, records>>
  PROVE  Intact'
<1>1. UNCHANGED <<connection, sent, captured, unended, wrote, records>>
  BY DEF wire
<1>2. Carried' = Carried /\ Replayed' = Replayed /\ Recorded' = Recorded
  BY <1>1 DEF Carried, Carries, Replayed, Recorded, Flowed
<1>3. \A x \in Sensors : Of(x, records)' = Of(x, records)
  BY <1>1
<1> QED
  BY <1>1, <1>2, <1>3 DEF Intact

\* The steps of a run in which nothing goes wrong.
LEMMA CalmSteps ==
  ASSUME Types, [Next]_vars, faults' = 0
  PROVE  /\ faults = 0
         /\ \/ Outputs \/ Ends \/ Normalizes \/ Validates \/ UNCHANGED vars
            \/ \E s \in Streams : Transfers(s) \/ Vanishes(s) \/ Denies(s) \/ ReportsFlow(s)
<1>1. faults \in Nat
  BY DEF Types
<1>2. ~Fault
  BY <1>1 DEF Fault
<1>3. /\ ~RecordsDisturbed /\ ~EventsDisturbed /\ ~HealthMisreported
      /\ \A s \in Streams : ~Misses(s)
  BY <1>2 DEF RecordsDisturbed, EventsDisturbed, HealthMisreported, Misses
<1>4. \/ Outputs \/ Ends \/ Normalizes \/ Validates \/ UNCHANGED vars
      \/ \E s \in Streams : Transfers(s) \/ Vanishes(s) \/ Denies(s) \/ ReportsFlow(s)
  BY <1>3 DEF Next
<1>5. faults = 0
  BY <1>4 DEF Outputs, Ends, Normalizes, Validates, vars, Transfers, Vanishes, Denies, ReportsFlow
<1> QED
  BY <1>4, <1>5

LEMMA NextIntact ==
  ASSUME Types, Chained, Accounted, Intact, [Next]_vars, faults' = 0
  PROVE  Intact'
<1>1. CASE Outputs
  BY <1>1, OutputsIntact
<1>2. ASSUME NEW s \in Streams, Transfers(s) PROVE Intact'
  BY <1>2, TransfersIntact
<1>3. ASSUME NEW s \in Streams, Denies(s) PROVE Intact'
  BY <1>3, DeniesIntact
<1>4. ASSUME NEW s \in Streams, ReportsFlow(s) PROVE Intact'
  BY <1>4, ReportsIntact
<1>5. CASE Ends \/ Normalizes \/ Validates \/ UNCHANGED vars
  BY <1>5, IntactKept DEF Ends, Normalizes, Validates, vars, bundle
<1>6. ASSUME NEW s \in Streams, Vanishes(s) PROVE Intact'
  BY <1>6, VanishesIntact
<1> QED
  BY <1>1, <1>2, <1>3, <1>4, <1>5, <1>6, CalmSteps

LEMMA NextBundled ==
  ASSUME Types, Finalized, Intact, Bundled, Chained, [Next]_vars, faults' = 0
  PROVE  Bundled' /\ (at' = "failed" => at = "failed")
<1>1. CASE \/ Outputs
           \/ \E s \in Streams : Transfers(s) \/ Vanishes(s) \/ Denies(s) \/ ReportsFlow(s)
  BY <1>1 DEF Outputs, Transfers, Vanishes, Denies, ReportsFlow, Capturing, Bundled
<1>2. CASE Ends
  BY <1>2 DEF Ends, Bundled
<1>3. CASE Normalizes
  <2>1. \A s \in Sensors : InLineage(Of(s, records))
    BY WroteInLineage DEF Intact
  <2>2. at' = "appended" /\ UNCHANGED <<backend, records, observed, heads>>
    BY <1>3, <2>1 DEF Normalizes
  <2>3. log' = Marked(IF backend = "gvisor-container" THEN <<>> ELSE Events(records))
    BY <1>3, <2>1 DEF Normalizes, Marked, Events
  <2>4. records # <<>> /\ observed = heads
    BY <1>3 DEF Normalizes, Bundled
  <2> QED
    BY <2>2, <2>3, <2>4 DEF Bundled, Events
<1>4. CASE Validates
  BY <1>4 DEF Validates, Bundled, bundle, Events
<1>5. CASE UNCHANGED vars
  BY <1>5 DEF Bundled, vars, bundle, Events
<1> QED
  BY <1>1, <1>2, <1>3, <1>4, <1>5, CalmSteps

\* Without the marks, the events of the log are those that refer to records.
LEMMA NormalizedIs ==
  ASSUME NEW es \in Seq(Event), \A i \in 1 .. Len(es) : es[i] \in Reference,
         log = Marked(es)
  PROVE  Normalized = es
<1> DEFINE n == Len(es)
           S == {i \in DOMAIN log : log[i].type \notin {"run/start", "run/finish"}}
           id == [i \in S |-> i]
<1>1. /\ n \in Nat /\ DOMAIN log = 1 .. n + 2 /\ DOMAIN es = 1 .. n
      /\ log[1].type = "run/start" /\ log[n + 2].type = "run/finish"
      /\ \A i \in 1 .. n : log[i + 1] = es[i]
  BY MarkedAre DEF Mark
<1>2. \A i \in 1 .. n : es[i].type \notin {"run/start", "run/finish"}
  BY ReferenceFields
<1>3. S = 2 .. n + 1
  <2>1. \A i \in 1 .. n + 2 : i = 1 \/ i = n + 2 \/ (i \in 2 .. n + 1 /\ i - 1 \in 1 .. n /\ i - 1 + 1 = i)
    BY <1>1
  <2>2. \A i \in 2 .. n + 1 : i \in 1 .. n + 2 /\ i - 1 \in 1 .. n /\ i - 1 + 1 = i
    BY <1>1
  <2>3. \A i \in 2 .. n + 1 : log[i].type \notin {"run/start", "run/finish"}
    <3> SUFFICES ASSUME NEW i \in 2 .. n + 1
                 PROVE  log[i].type \notin {"run/start", "run/finish"}
      OBVIOUS
    <3>1. i - 1 \in 1 .. n /\ i - 1 + 1 = i
      BY <2>2
    <3>2. log[i - 1 + 1] = es[i - 1]
      BY <1>1, <3>1
    <3>3. log[i] = es[i - 1]
      BY <3>1, <3>2
    <3> QED
      BY <1>2, <3>1, <3>3
  <2>4. \A i \in S : i \in 2 .. n + 1
    BY <1>1, <2>1
  <2>5. \A i \in 2 .. n + 1 : i \in S
    BY <1>1, <2>2, <2>3
  <2> HIDE DEF S
  <2> QED
    BY <2>4, <2>5
<1>4. Normalized = [k \in 1 .. Cardinality(S) |-> log[Place(id, k)]]
  BY DEF Normalized, Pick
<1> HIDE DEF S, n
<1>5. /\ S \in SUBSET Nat /\ IsFiniteSet(S) /\ Cardinality(S) = n
      /\ id \in [S -> Nat]
  <2> DEFINE m == n + 1
  <2>1. 2 \in Int /\ m \in Int
    BY <1>1
  <2> HIDE DEF m
  <2>2. IsFiniteSet(2 .. m) /\ Cardinality(2 .. m) = IF 2 > m THEN 0 ELSE m - 2 + 1
    BY <2>1, FS_Interval
  <2>3. Cardinality(2 .. m) = n
    BY <1>1, <2>2 DEF m
  <2> QED
    BY <1>1, <1>3, <2>2, <2>3 DEF m
<1>6. ASSUME NEW k \in 1 .. n PROVE Place(id, k) = k + 1
  <2>1. k + 1 \in S /\ 2 \in Int /\ k + 1 \in Int /\ k \in Nat
    BY <1>1, <1>3
  <2>2. Upto(id, k + 1) = 2 .. k + 1
    <3>1. \A j \in S : id[j] = j
      OBVIOUS
    <3>2. \A j \in 2 .. k + 1 : j \in S /\ j <= k + 1
      BY <1>1, <1>3, <2>1
    <3>3. \A j \in S : j <= k + 1 => j \in 2 .. k + 1
      BY <1>1, <1>3, <2>1
    <3>4. \A j \in S : j \in Nat
      BY <1>5
    <3>5. Upto(id, k + 1) = {j \in S : j <= k + 1}
      <4>1. \A j \in S : (id[j] < id[k + 1] \/ (id[j] = id[k + 1] /\ j <= k + 1)) <=> j <= k + 1
        BY <2>1, <3>1, <3>4
      <4>2. DOMAIN id = S
        OBVIOUS
      <4> HIDE DEF id
      <4> QED
        BY <4>1, <4>2 DEF Upto
    <3> HIDE DEF id
    <3> QED
      BY <3>2, <3>3, <3>5
  <2>3. Cardinality(2 .. k + 1) = k
    <3> DEFINE m == k + 1
    <3> HIDE DEF m
    <3>1. Cardinality(2 .. m) = IF 2 > m THEN 0 ELSE m - 2 + 1
      BY <2>1, FS_Interval DEF m
    <3> QED
      BY <2>1, <3>1 DEF m
  <2>4. Place(id, Cardinality(Upto(id, k + 1))) = k + 1
    <3> HIDE DEF id
    <3> QED
      BY <1>5, <2>1, Places, Zenon
  <2> QED
    BY <2>2, <2>3, <2>4
<1> HIDE DEF id
<1>7. Normalized = [k \in 1 .. n |-> es[k]]
  BY <1>1, <1>4, <1>5, <1>6
<1>8. es = [k \in DOMAIN es |-> es[k]]
  OBVIOUS
<1> QED
  BY <1>1, <1>7, <1>8

\* The events of one source's records.
LEMMA OfEvents ==
  ASSUME NEW q \in Seq(Record), NEW s
  PROVE  Of(s, Events(q)) = Events(Of(s, q))
<1> DEFINE S == {i \in DOMAIN q : q[i].sensor = s}
           id == [i \in S |-> i]
           n == Cardinality(S)
<1>1. DOMAIN q = 1 .. Len(q) /\ DOMAIN Events(q) = DOMAIN q
  BY DEF Events
<1>2. \A i \in DOMAIN q : Events(q)[i] = EventOf(q[i]) /\ Events(q)[i].sensor = q[i].sensor
  BY DEF Events, EventOf
<1>3. {i \in DOMAIN Events(q) : Events(q)[i].sensor = s} = S
  BY <1>1, <1>2
<1>4. /\ Of(s, Events(q)) = [k \in 1 .. n |-> Events(q)[Place(id, k)]]
      /\ Of(s, q) = [k \in 1 .. n |-> q[Place(id, k)]]
  BY <1>3 DEF Of, Pick
<1>5. S \in SUBSET Nat /\ IsFiniteSet(S) /\ \A i \in S : i \in DOMAIN q
  <2>1. S \in SUBSET (1 .. Len(q)) /\ Len(q) \in Nat
    BY <1>1
  <2>2. IsFiniteSet(1 .. Len(q))
    BY <2>1, FS_Interval
  <2> QED
    BY <1>1, <2>1, <2>2, FS_Subset
<1>6. \A k \in 1 .. n : Place(id, k) \in S
  <2>1. id \in [S -> Nat]
    BY <1>5
  <2> HIDE DEF S, id
  <2> QED
    BY <1>5, <2>1, Places, Zenon
<1> HIDE DEF S, id, n
<1>7. /\ \A k \in 1 .. n : Of(s, Events(q))[k] = EventOf(Of(s, q)[k])
      /\ DOMAIN Of(s, Events(q)) = 1 .. n /\ DOMAIN Of(s, q) = 1 .. n
  BY <1>2, <1>4, <1>5, <1>6
<1>8. Of(s, Events(q)) = [k \in 1 .. n |-> EventOf(Of(s, q)[k])]
  BY <1>2, <1>4, <1>5, <1>6
<1> QED
  BY <1>7, <1>8 DEF Events

\* The numbers and ranges of one source, when nothing went wrong.
LEMMA HonestSeqs ==
  ASSUME Types, Chained, Intact, NEW s \in Sensors
  PROVE  Seqs(s) = [i \in 1 .. Len(wrote[s]) |-> i]
<1>1. Of(s, records) = wrote[s] /\ DOMAIN wrote[s] = 1 .. Len(wrote[s])
  BY DEF Intact, Types
<1>2. \A i \in 1 .. Len(wrote[s]) : wrote[s][i].seq = i
  BY DEF Chained
<1> QED
  BY <1>1, <1>2 DEF Seqs

LEMMA HonestNormalized ==
  ASSUME Types, log = Marked(Events(records))
  PROVE  Normalized = Events(records)
<1>1. records \in Seq(Record)
  BY DEF Types
<1>2. /\ Events(records) \in Seq(Event) /\ Len(Events(records)) = Len(records)
      /\ \A i \in 1 .. Len(records) : Events(records)[i] = EventOf(records[i])
  BY <1>1, EventsAre
<1>3. \A i \in 1 .. Len(records) : EventOf(records[i]) \in Reference
  BY <1>1, RecordFields
<1> QED
  BY <1>2, <1>3, NormalizedIs

LEMMA HonestRanges ==
  ASSUME Types, Chained, Intact, log = Marked(Events(records)), NEW s \in Sensors
  PROVE  Ranges(s) = [i \in 1 .. Len(wrote[s]) |-> [start |-> i, end |-> i]]
<1>1. records \in Seq(Record) /\ Of(s, records) = wrote[s] /\ DOMAIN wrote[s] = 1 .. Len(wrote[s])
  BY DEF Intact, Types
<1>2. Of(s, Normalized) = Events(wrote[s])
  BY <1>1, HonestNormalized, OfEvents
<1>3. DOMAIN Events(wrote[s]) = 1 .. Len(wrote[s])
  BY <1>1 DEF Events
<1>4. \A i \in 1 .. Len(wrote[s]) : Events(wrote[s])[i].start = i /\ Events(wrote[s])[i].end = i
  <2>1. \A i \in 1 .. Len(wrote[s]) : wrote[s][i].seq = i
    BY DEF Chained
  <2> QED
    BY <1>1, <2>1 DEF Events, EventOf
<1> QED
  BY <1>2, <1>3, <1>4 DEF Ranges

\* Each record has a range of its own.
LEMMA HonestCoverage ==
  ASSUME Types, Chained, Intact, log = Marked(Events(records)), NEW s \in Sensors
  PROVE  ValidCoverage(Seqs(s), Ranges(s))
<1> DEFINE n == Len(wrote[s])
           seqs == Seqs(s)
           ranges == Ranges(s)
<1>1. n \in Nat
  BY DEF Types
<1>2. seqs = [i \in 1 .. n |-> i] /\ ranges = [i \in 1 .. n |-> [start |-> i, end |-> i]]
  BY HonestSeqs, HonestRanges
<1>3. seqs \in Seq(Number) /\ ranges \in Seq(RangeOf)
  BY SeqsAndRanges
<1> HIDE DEF n, seqs, ranges
<1>4. ToSet(seqs) = 1 .. n /\ ToSet(ranges) = {[start |-> i, end |-> i] : i \in 1 .. n}
  BY <1>2 DEF ToSet
<1>5. \A i \in DOMAIN seqs : seqs[i] # 0 /\ Cardinality(Over(ranges, seqs[i])) = 1
  <2> SUFFICES ASSUME NEW i \in 1 .. n PROVE seqs[i] # 0 /\ Cardinality(Over(ranges, seqs[i])) = 1
    BY <1>2
  <2>1. seqs[i] = i /\ i # 0
    BY <1>1, <1>2
  <2>2. \A j \in 1 .. n : ranges[j].start = j /\ ranges[j].end = j
    BY <1>2
  <2>3. DOMAIN ranges = 1 .. n
    BY <1>2
  <2>4. Over(ranges, i) \in SUBSET (1 .. n) /\ i \in Over(ranges, i)
    BY <1>1, <2>2, <2>3 DEF Over
  <2>5. \A y \in Over(ranges, i) : y = i
    BY <1>1, <2>2, <2>3 DEF Over
  <2>6. Cardinality(Over(ranges, i)) = 1
    BY <1>1, <2>4, <2>5, One
  <2> QED
    BY <2>1, <2>6
<1>6. \A c \in ToSet(ranges) : c.start <= c.end /\ c.start .. c.end \subseteq ToSet(seqs)
  <2> SUFFICES ASSUME NEW i \in 1 .. n PROVE i <= i /\ i .. i \subseteq 1 .. n
    BY <1>4
  <2> QED
    BY <1>1
<1>7. \A i, j \in DOMAIN seqs : i # j => seqs[i] # seqs[j]
  BY <1>2
<1>8. Exact(seqs, ranges)
  BY <1>5, <1>6, <1>7 DEF Exact
<1>9. ValidCoverage(seqs, ranges)
  BY <1>3, <1>8, Coverage
<1> QED
  BY <1>9 DEF seqs, ranges

\* The flows are those the boundary wrote.
LEMMA HonestFlows ==
  ASSUME Types, Intact
  PROVE  Flows = [i \in 1 .. Len(wrote["boundary"]) |-> Flowed(i)]
<1>1. records \in Seq(Record) /\ "boundary" \in Sensors /\ wrote["boundary"] \in Seq(Record)
  BY DEF Types, Sensors
<1>2. \A i \in DOMAIN records : records[i].type = "network/flow" <=> records[i].sensor = "boundary"
  BY <1>1, RecordFields
<1>3. {i \in DOMAIN records : records[i].type = "network/flow"}
        = {i \in DOMAIN records : records[i].sensor = "boundary"}
  BY <1>2
<1>4. Pick(records, {i \in DOMAIN records : records[i].type = "network/flow"}) = wrote["boundary"]
  BY <1>1, <1>3 DEF Intact, Of
<1>5. DOMAIN wrote["boundary"] = 1 .. Len(wrote["boundary"])
  BY <1>1
<1> QED
  BY <1>4, <1>5 DEF Flows, Flowed

\* The assembled streams reconcile with the flows.
LEMMA HonestStreams ==
  ASSUME Types, Chained, Finalized, Accounted, Intact, at # "capturing",
         log = Marked(Events(records))
  PROVE  Assembled.ok /\ (ReconcileFlows(Assembled.streams) <=> unended = {})
<1> DEFINE N == Len(wrote["boundary"])
<1>1. Assembled = Carried
  <2>1. records \in Seq(Record)
    BY DEF Types
  <2>2. Events(records) \in Seq(Event) /\ Len(Events(records)) = Len(records)
    BY <2>1, EventsAre
  <2> QED
    BY <2>2, AssemblyMarked DEF Assembled, Intact, Replayed
<1>2. Carried.ok /\ \A s \in Streams : Carried.streams[s] = Carries(s)
  BY DEF Carried
<1>3. DOMAIN Flows = 1 .. N /\ \A i \in 1 .. N : Flows[i] = Flowed(i)
  BY HonestFlows
<1>4. \A i \in 1 .. N : /\ Flowed(i) \in Flow /\ Flowed(i).stream \in Streams
                        /\ connection[Flowed(i).stream] = "reported"
                        /\ Flowed(i).bytes = [k \in 1 .. sent[Flowed(i).stream] |-> k - 1]
                        /\ IF Flowed(i).denied
                           THEN captured[Flowed(i).stream] = 0 /\ Flowed(i).stream \notin unended
                           ELSE captured[Flowed(i).stream] > 0 \/ Flowed(i).stream \in unended
  BY FlowTypes DEF Accounted, Intact, Recorded
<1>5. \A s \in Streams : captured[s] \in Nat
  BY DEF Types
<1>6. \A i, j \in 1 .. N : i # j => Flowed(i).stream # Flowed(j).stream
  BY DEF Intact, Recorded
<1>7. ASSUME unended = {}, NEW i \in 1 .. N
      PROVE  LET s == Carries(Flowed(i).stream)
             IN IF Flowed(i).denied THEN ~s.known ELSE s.known /\ s.closed /\ s.bytes = Flowed(i).bytes
  <2>1. Flowed(i).stream \in Streams
    BY <1>4
  <2>2. CASE Flowed(i).denied
    <3>1. captured[Flowed(i).stream] = 0
      BY <1>4, <2>1, <2>2
    <3>2. Carries(Flowed(i).stream).known = (captured[Flowed(i).stream] > 0)
      BY DEF Carries
    <3>3. (captured[Flowed(i).stream] > 0) = FALSE
      BY <3>1
    <3>4. ~Carries(Flowed(i).stream).known
      BY <3>2, <3>3
    <3> QED
      BY <2>2, <3>4
  <2>3. CASE ~Flowed(i).denied
    BY <1>4, <1>7, <2>1, <2>3 DEF Carries
  <2> QED
    BY <2>2, <2>3
<1>8. ASSUME NEW s \in Streams, Carries(s).known
      PROVE  \E i \in 1 .. N : Flowed(i).stream = s
  <2>1. captured[s] > 0
    BY <1>8 DEF Carries
  <2>2. connection[s] = "reported"
    BY <1>5, <2>1 DEF Finalized, Intact, Recorded
  <2> QED
    BY <2>2 DEF Accounted
<1> HIDE DEF N
<1>9. \A f : f \in ToSet(Flows) <=> \E i \in 1 .. N : f = Flowed(i)
  BY <1>3 DEF ToSet
<1>10. /\ \A i, j \in DOMAIN Flows : i # j => Flows[i].stream # Flows[j].stream
  BY <1>3, <1>6
<1>11. unended = {} =>
         \A f \in ToSet(Flows) :
           LET s == Assembled.streams[f.stream]
           IN IF f.denied THEN ~s.known ELSE s.known /\ s.closed /\ s.bytes = f.bytes
  <2> SUFFICES ASSUME unended = {}, NEW i \in 1 .. N
               PROVE  LET s == Assembled.streams[Flowed(i).stream]
                      IN IF Flowed(i).denied THEN ~s.known
                         ELSE s.known /\ s.closed /\ s.bytes = Flowed(i).bytes
    BY <1>9
  <2>1. Assembled.streams[Flowed(i).stream] = Carries(Flowed(i).stream)
    BY <1>1, <1>2, <1>4
  <2> QED
    BY <1>7, <2>1
<1>12. \A s \in Streams : Assembled.streams[s].known => \E f \in ToSet(Flows) : f.stream = s
  <2> SUFFICES ASSUME NEW s \in Streams, Assembled.streams[s].known
               PROVE  \E f \in ToSet(Flows) : f.stream = s
    OBVIOUS
  <2>1. Carries(s).known
    BY <1>1, <1>2
  <2> QED
    BY <1>8, <1>9, <2>1
<1>13. ASSUME NEW s \in unended PROVE ~ReconcileFlows(Assembled.streams)
  <2>1. s \in Streams /\ connection[s] = "reported"
    BY DEF Types, Finalized, Intact, Recorded
  <2>2. PICK i \in 1 .. N : Flowed(i).stream = s
    BY <2>1 DEF Accounted, N
  <2>3. ~Flowed(i).denied /\ Flowed(i) \in ToSet(Flows)
    BY <1>4, <1>9, <2>2
  <2>4. Carries(s).closed = FALSE
    BY DEF Carries
  <2>5. ~Assembled.streams[s].closed
    BY <1>1, <1>2, <2>1, <2>4
  <2> QED
    BY <2>2, <2>3, <2>5 DEF ReconcileFlows
<1> QED
  BY <1>1, <1>2, <1>10, <1>11, <1>12, <1>13 DEF ReconcileFlows

LEMMA HonestTrajectory ==
  ASSUME Types, NEW es \in Seq(Event), \A i \in 1 .. Len(es) : es[i] \in Reference,
         log = Marked(es)
  PROVE  /\ ValidTrajectory /\ \E i \in DOMAIN log : log[i].type = "run/start"
<1> DEFINE n == Len(es)
<1>1. /\ n \in Nat /\ DOMAIN log = 1 .. n + 2 /\ Len(log) = n + 2
      /\ log[1].type = "run/start" /\ log[n + 2].type = "run/finish"
      /\ \A i \in 1 .. n : log[i + 1] = es[i]
  BY MarkedAre DEF Mark
<1>2. \A i \in 1 .. n : es[i].type \notin {"run/start", "run/finish"}
  BY ReferenceFields
<1> HIDE DEF n
<1>3. \A i \in 1 .. n + 2 :
        i = 1 \/ i = n + 2 \/ (i - 1 \in 1 .. n /\ i - 1 + 1 = i)
  BY <1>1
<1>4. ASSUME NEW i \in 1 .. n + 2, i # 1, i # n + 2
      PROVE  log[i].type \notin {"run/start", "run/finish"}
  <2>1. i - 1 \in 1 .. n /\ i - 1 + 1 = i
    BY <1>3, <1>4
  <2>2. log[i - 1 + 1] = es[i - 1]
    BY <1>1, <2>1
  <2>3. log[i] = es[i - 1]
    BY <2>1, <2>2
  <2> QED
    BY <1>2, <2>1, <2>3
<1>5. 1 \in 1 .. n + 2 /\ n + 2 \in 1 .. n + 2 /\ 1 # n + 2
  BY <1>1
<1>6. {i \in DOMAIN log : log[i].type = "run/start"} = {1}
  BY <1>1, <1>4, <1>5
<1>7. {i \in DOMAIN log : log[i].type = "run/finish"} = {Len(log)}
  BY <1>1, <1>4, <1>5
<1>8. Cardinality({1}) = 1
  BY FS_Singleton
<1>9. log # <<>>
  BY <1>1
<1>10. Cardinality({i \in DOMAIN log : log[i].type = "run/start"}) <= 1
  <2> DEFINE T == {i \in DOMAIN log : log[i].type = "run/start"}
  <2>1. T = {1}
    BY <1>6
  <2> HIDE DEF T
  <2>2. Cardinality(T) <= 1
    BY <1>8, <2>1
  <2> QED
    BY <2>2 DEF T
<1>11. \E i \in DOMAIN log : log[i].type = "run/start"
  BY <1>1, <1>5
<1> QED
  BY <1>7, <1>9, <1>10, <1>11 DEF ValidTrajectory

\* Every event's reference is to the record it was made of.
LEMMA HonestReferences ==
  ASSUME Types, Chained, Intact, log = Marked(Events(records)), NEW e \in ToSet(Normalized)
  PROVE  ValidReference(e)
<1>1. records \in Seq(Record) /\ DOMAIN records = 1 .. Len(records)
  BY DEF Types
<1>2. PICK i \in DOMAIN records : e = EventOf(records[i])
  BY <1>1, HonestNormalized DEF ToSet, Events
<1> DEFINE r == records[i]
           s == r.sensor
<1>3. r \in Record /\ s \in Sensors
  BY <1>1, RecordFields
<1>4. e.sensor = s /\ e.start = r.seq /\ e.end = r.seq /\ e.sha = r.sha
  BY <1>2 DEF EventOf
<1>5. PICK k \in DOMAIN Of(s, records) : Of(s, records)[k] = r
  <2>1. records[i].sensor = s
    OBVIOUS
  <2> QED
    BY <1>1, <2>1, OfHas
<1>6. Of(s, records) = wrote[s] /\ wrote[s] \in Seq(Record) /\ Len(wrote[s]) \in Nat
  BY <1>3 DEF Intact, Types
<1>7. k \in 1 .. Len(wrote[s]) /\ r.seq = k /\ r.sha = [sensor |-> s, seq |-> k]
  <2>1. k \in 1 .. Len(wrote[s]) /\ wrote[s][k] = r
    BY <1>5, <1>6
  <2> QED
    BY <1>3, <2>1 DEF Chained
<1>8. s \in Sources
  BY <1>3, <1>6, <1>7 DEF Sources
<1>9. k .. k \subseteq ToSet(Seqs(s)) /\ k # 0 /\ k >= k
  <2>1. ToSet(Seqs(s)) = 1 .. Len(wrote[s])
    BY <1>3, HonestSeqs DEF ToSet
  <2> QED
    BY <1>6, <1>7, <2>1
<1>10. ASSUME NEW x \in ToSet(records), x.sensor = s, x.seq = k
       PROVE  x.sha = [sensor |-> s, seq |-> k]
  <2>1. PICK j \in DOMAIN records : x = records[j]
    BY DEF ToSet
  <2>2. PICK l \in DOMAIN Of(s, records) : Of(s, records)[l] = x
    BY <1>1, <1>10, <2>1, OfHas
  <2>3. l \in 1 .. Len(wrote[s]) /\ wrote[s][l] = x
    BY <1>6, <2>2
  <2> QED
    BY <1>3, <1>10, <2>3 DEF Chained
<1> HIDE DEF r, s
<1> QED
  BY <1>4, <1>7, <1>8, <1>9, <1>10 DEF ValidReference

LEMMA HonestIsValid ==
  ASSUME Types, Chained, Finalized, Accounted, Intact, Bundled, at = "appended"
  PROVE  Valid <=> backend = "gvisor-container" \/ unended = {}
<1> DEFINE es == IF backend = "gvisor-container" THEN <<>> ELSE Events(records)
<1>1. /\ records \in Seq(Record) /\ records # <<>> /\ observed = heads /\ log = Marked(es)
      /\ \A s \in Sensors : Of(s, records) = wrote[s] /\ heads[s] = Len(wrote[s])
      /\ \A s \in Sensors : wrote[s] \in Seq(Record)
  BY DEF Types, Finalized, Intact, Bundled
<1>2. es \in Seq(Event) /\ \A i \in 1 .. Len(es) : es[i] \in Reference
  <2>1. <<>> \in Seq(Event) /\ Len(<<>>) = 0
    OBVIOUS
  <2>2. Events(records) \in Seq(Event) /\ \A i \in 1 .. Len(Events(records)) : Events(records)[i] \in Reference
    <3>1. \A i \in 1 .. Len(records) : EventOf(records[i]) \in Reference
      BY <1>1, RecordFields
    <3> QED
      BY <1>1, <3>1, EventsAre
  <2>3. CASE backend = "gvisor-container"
    BY <2>1, <2>3
  <2>4. CASE backend # "gvisor-container"
    BY <2>2, <2>4
  <2> QED
    BY <2>3, <2>4
<1>3. ValidTrajectory /\ \E i \in DOMAIN log : log[i].type = "run/start"
  BY <1>1, <1>2, HonestTrajectory
<1>4. Normalized = es
  BY <1>1, <1>2, NormalizedIs
<1>5. ValidRecords
  <2> SUFFICES ASSUME NEW s \in Sensors
               PROVE  Cardinality(ToSet(Seqs(s))) = Len(Seqs(s))
    BY DEF ValidRecords
  <2> DEFINE n == Len(wrote[s])
  <2>1. n \in Nat
    BY <1>1
  <2>2. Seqs(s) = [i \in 1 .. n |-> i]
    BY HonestSeqs
  <2> HIDE DEF n
  <2>3. ToSet(Seqs(s)) = 1 .. n
    BY <2>2 DEF ToSet
  <2>4. [i \in 1 .. n |-> i] \in [1 .. n -> Nat]
    BY <2>1
  <2>5. Len(Seqs(s)) = n
    BY <2>1, <2>2, <2>4, LenIs
  <2>6. Cardinality(1 .. n) = n
    <3>1. n \in Int /\ 1 \in Int
      BY <2>1
    <3>2. Cardinality(1 .. n) = IF 1 > n THEN 0 ELSE n - 1 + 1
      BY <3>1, FS_Interval
    <3> QED
      BY <2>1, <3>2
  <2> QED
    BY <2>3, <2>5, <2>6
<1>6. \A s \in Sensors : /\ s \in Sources <=> heads[s] # 0
                         /\ Of(s, records) = <<>> <=> heads[s] = 0
  <2>1. \A s \in Sensors : wrote[s] = <<>> <=> Len(wrote[s]) = 0
    BY <1>1
  <2> QED
    BY <1>1, <2>1 DEF Sources
<1>7. Sources \subseteq Named
  BY <1>6 DEF Named, Sources
<1>8. \A s \in Sources : ValidChain(Of(s, records), heads[s])
  BY <1>1, WroteInLineage DEF ValidChain, Sources
<1>9. CASE backend = "gvisor-container"
  <2>1. Normalized = <<>>
    BY <1>4, <1>9
  <2>2. \A s \in Sensors \ Sources : heads[s] = 0
    BY <1>6
  <2>3. \A s \in Sensors : observed[s] = Len(Of(s, records))
    BY <1>1
  <2>4. ValidGvisor
    BY <1>1, <1>3, <1>8, <2>1, <2>2, <2>3 DEF ValidGvisor
  <2> QED
    BY <1>3, <1>5, <1>7, <1>9, <2>4 DEF Valid
<1>10. CASE backend # "gvisor-container"
  <2>1. log = Marked(Events(records))
    BY <1>1, <1>10
  <2>2. Sources = Named
    BY <1>6, <1>10 DEF Named, Sources
  <2>3. \A e \in ToSet(Normalized) : ValidReference(e)
    BY <2>1, HonestReferences
  <2>4. Assembled.ok /\ (ReconcileFlows(Assembled.streams) <=> unended = {})
    BY <2>1, HonestStreams
  <2>5. \A s \in Sensors : ValidCoverage(Seqs(s), Ranges(s))
    BY <2>1, HonestCoverage
  <2>6. Verify <=> unended = {}
    BY <1>8, <2>4, <2>5 DEF Verify
  <2> QED
    BY <1>3, <1>5, <1>7, <1>10, <2>2, <2>3, <2>6 DEF Valid
<1> QED
  BY <1>9, <1>10

\* What holds of a run in which nothing goes wrong.
Judged ==
  /\ at # "failed"
  /\ at \in {"accepted", "refused"} =>
       (at = "accepted" <=> backend = "gvisor-container" \/ unended = {})
Honest == faults = 0 => Intact /\ Bundled /\ Judged

LEMMA InitIntact == Init => Intact
<1> SUFFICES ASSUME Init PROVE Intact
  OBVIOUS
<1>1. /\ records = <<>> /\ records \in Seq(Record) /\ wrote = [s \in Sensors |-> <<>>]
      /\ Len(wrote["boundary"]) = 0 /\ DOMAIN records = {}
      /\ \A s \in Streams : connection[s] = "new" /\ sent[s] = 0 /\ captured[s] = 0
      /\ unended = {}
  BY DEF Init, Sensors
<1>2. ASSUME NEW s \in Sensors PROVE Of(s, records) = wrote[s]
  <2>1. {i \in DOMAIN records : records[i].sensor = s} = {}
    BY <1>1
  <2>2. Cardinality({}) = 0
    BY FS_EmptySet
  <2>3. Of(s, records) = Pick(records, {})
    BY <2>1 DEF Of
  <2>4. \A k : k \notin 1 .. 0
    OBVIOUS
  <2>5. Of(s, records) = <<>>
    BY <2>2, <2>3, <2>4 DEF Pick
  <2> QED
    BY <1>1, <2>5
<1>3. Replayed = NoAssembly
  <2>1. Events(records) \in Seq(Event) /\ Len(records) = 0
    BY <1>1, EventsAre
  <2> QED
    BY <2>1, AssemblyFacts DEF Replayed
<1>4. \A s \in Streams : Carries(s) = NoStream
  <2>1. \A k : k \notin 1 .. 0
    OBVIOUS
  <2>2. \A s \in Streams : [k \in 1 .. sent[s] |-> k - 1] = <<>>
    BY <1>1, <2>1
  <2> SUFFICES ASSUME NEW s \in Streams PROVE Carries(s) = NoStream
    OBVIOUS
  <2>3. captured[s] = 0 /\ sent[s] = 0 /\ (captured[s] > 0) = FALSE
    BY <1>1
  <2>4. (captured[s] > 0 /\ connection[s] \in {"closed", "reported"} /\ s \notin unended) = FALSE
    BY <2>3
  <2>5. captured[s] + 1 = 1 /\ (IF s \in Datagram THEN 0 ELSE sent[s]) = 0
    BY <2>3
  <2> QED
    BY <2>2, <2>3, <2>4, <2>5, Zenon DEF Carries, NoStream
<1>5. Carried = NoAssembly
  BY <1>4 DEF Carried, NoAssembly
<1>6. Recorded
  BY <1>1 DEF Recorded
<1> QED
  BY <1>2, <1>3, <1>5, <1>6 DEF Intact

LEMMA NextHonest ==
  Types /\ Chained /\ Finalized /\ Accounted /\ Honest /\ [Next]_vars => Honest'
<1> SUFFICES ASSUME Types, Chained, Finalized, Accounted, Honest, [Next]_vars, faults' = 0
             PROVE  Intact' /\ Bundled' /\ Judged'
  BY DEF Honest
<1>1. faults = 0
  BY CalmSteps
<1>2. Intact /\ Bundled /\ Judged
  BY <1>1 DEF Honest
<1>3. Intact'
  BY <1>2, NextIntact
<1>4. Bundled' /\ at' # "failed"
  BY <1>2, NextBundled DEF Judged
<1>5. Judged'
  <2>1. CASE Validates
    <3>1. /\ Valid <=> backend = "gvisor-container" \/ unended = {}
          /\ at' = (IF Valid THEN "accepted" ELSE "refused")
          /\ UNCHANGED <<backend, unended>>
      BY <1>2, <2>1, HonestIsValid DEF Validates, wire
    <3> QED
      BY <3>1 DEF Judged
  <2>2. CASE UNCHANGED vars
    BY <1>2, <2>2 DEF Judged, vars, wire
  <2>3. CASE ~Validates /\ ~UNCHANGED vars
    <3>1. at' \notin {"accepted", "refused"}
      BY <2>3, CalmSteps DEF Outputs, Ends, Normalizes, Transfers, Vanishes, Denies, ReportsFlow,
                             Capturing
    <3> QED
      BY <1>4, <3>1 DEF Judged
  <2> QED
    BY <2>1, <2>2, <2>3
<1> QED
  BY <1>3, <1>4, <1>5

\* When nothing was lost on the way, a run whose plaintext is checked is accepted exactly
\* when the end of every connection was recorded, with its last byte or by a chunk with
\* none; a run of gVisor, which has no plaintext, always (assembler.go:129, bundle.go:506).
THEOREM HonestRunsPass == Spec => []HonestIsAccepted
<1>1. Init => Chained /\ Finalized /\ Accounted /\ Honest
  <2> SUFFICES ASSUME Init PROVE Chained /\ Finalized /\ Accounted /\ Honest
    OBVIOUS
  <2>1. \A s \in Sensors : Len(wrote[s]) = 0
    BY DEF Init
  <2>2. at = "capturing"
    BY DEF Init
  <2>3. /\ \A s \in Streams : connection[s] = "new" /\ sent[s] = 0
        /\ Len(wrote["boundary"]) = 0
    BY <2>1 DEF Init, Sensors
  <2>4. Intact /\ Bundled
    BY <2>2, InitIntact DEF Bundled
  <2> QED
    BY <2>1, <2>2, <2>3, <2>4 DEF Chained, Finalized, Accounted, Honest, Judged
<1>2. Types /\ Chained /\ [Next]_vars => Chained'
  BY NextChained
<1>3. Types /\ Finalized /\ [Next]_vars => Finalized'
  BY NextFinalized
<1>4. Types /\ Chained /\ Accounted /\ [Next]_vars => Accounted'
  BY NextAccounted
<1>5. Types /\ Chained /\ Finalized /\ Accounted /\ Honest /\ [Next]_vars => Honest'
  BY NextHonest
<1>6. Honest => HonestIsAccepted
  BY DEF Honest, Judged, HonestIsAccepted
<1> QED
  BY <1>1, <1>2, <1>3, <1>4, <1>5, <1>6, PipelineTypes, PTL DEF Spec
=============================================================================
