------------------------------ MODULE Lists_proofs ------------------------------
(***************************************************************************)
(* What sorting, filtering and looping do to lists of any length.           *)
(***************************************************************************)
EXTENDS Lists, FiniteSetTheorems, FunctionTheorems, SequenceTheorems, WellFoundedInduction, TLAPS

(* A set of numbers that holds first, and with a number the next one up to  *)
(* last, holds them all: induction over a range, for sets.                  *)
LEMMA RangeInduction ==
  ASSUME NEW first \in Int, NEW last \in Int, NEW P,
         first \in P,
         \A i \in first .. last - 1 : i \in P => i + 1 \in P
  PROVE  first .. last \subseteq P
<1> DEFINE Bad == {n \in Nat : first + n <= last /\ first + n \notin P}
<1>1. SUFFICES ASSUME Bad # {} PROVE FALSE
  <2>1. ASSUME NEW i \in first .. last PROVE i \in P
    <3>1. i - first \in Nat /\ first + (i - first) = i
      OBVIOUS
    <3>2. i - first \notin Bad
      BY <1>1
    <3>3. QED
      BY <3>1, <3>2
  <2>2. QED
    BY <2>1
<1>2. PICK R : IsWellFoundedOn(R, Nat) /\ \A x, y \in Nat : y < x => <<y, x>> \in R
  BY NatLessThanWellFounded DEF OpToRel
<1>3. PICK n \in Bad : \A m \in Bad : <<m, n>> \notin R
  BY <1>1, <1>2, WFMin
<1>4. n # 0
  OBVIOUS
<1>5. n - 1 \in Nat /\ first + (n - 1) <= last /\ first + (n - 1) + 1 = first + n
  BY <1>4
<1>6. n - 1 \in Bad
  BY <1>5
<1>7. <<n - 1, n>> \in R
  <2>1. n \in Nat /\ n - 1 \in Nat /\ n - 1 < n
    BY <1>5
  <2>2. QED
    BY <1>2, <2>1
<1>8. QED
  BY <1>3, <1>6, <1>7

--------------------------------------------------------------------------------
(* Loops.                                                                   *)

(* f is a solution of the recursion of Trace.                               *)
Solves(f, step, x, first, last) ==
  f = [i \in first - 1 .. last |-> IF i = first - 1 THEN x ELSE step[i][f[i - 1]]]

(* There is one.                                                            *)
LEMMA TraceExists ==
  ASSUME NEW step, NEW x, NEW first \in Int, NEW last \in Int, first - 1 <= last
  PROVE  \E f : Solves(f, step, x, first, last)
<1> DEFINE P == {n \in Int : \E f : Solves(f, step, x, first, n)}
<1>1. first - 1 \in P
  <2> DEFINE f == [i \in first - 1 .. first - 1 |-> x]
  <2>1. Solves(f, step, x, first, first - 1)
    BY DEF Solves
  <2>2. QED
    BY <2>1
<1>2. ASSUME NEW n \in first - 1 .. last - 1, n \in P
      PROVE  n + 1 \in P
  <2>1. PICK f : Solves(f, step, x, first, n)
    BY <1>2
  <2> DEFINE g == [i \in first - 1 .. n + 1 |-> IF i = n + 1 THEN step[i][f[n]] ELSE f[i]]
  <2>2. ASSUME NEW i \in first - 1 .. n + 1
        PROVE  g[i] = IF i = first - 1 THEN x ELSE step[i][g[i - 1]]
    <3>1. CASE i = n + 1
      BY <3>1
    <3>2. CASE i # n + 1
      <4>1. i \in first - 1 .. n /\ g[i] = f[i]
        BY <3>2
      <4>2. f[i] = IF i = first - 1 THEN x ELSE step[i][f[i - 1]]
        BY <2>1, <4>1 DEF Solves
      <4>3. i # first - 1 => i - 1 \in first - 1 .. n /\ g[i - 1] = f[i - 1]
        BY <4>1
      <4>4. QED
        BY <4>1, <4>2, <4>3
    <3>3. QED
      BY <3>1, <3>2
  <2>3. Solves(g, step, x, first, n + 1)
    <3> HIDE DEF g
    <3>1. g = [i \in first - 1 .. n + 1 |-> g[i]]
      BY DEF g
    <3>2. QED
      BY <2>2, <3>1 DEF Solves
  <2>4. QED
    BY <2>3
<1>3. last \in P
  <2> HIDE DEF P
  <2>1. first - 1 .. last \subseteq P
    BY <1>1, <1>2, RangeInduction
  <2>2. QED
    BY <2>1
<1>4. QED
  BY <1>3

(* Trace satisfies its recursion.                                           *)
LEMMA TraceIs ==
  ASSUME NEW step, NEW x, NEW first \in Int, NEW last \in Int, first - 1 <= last
  PROVE  /\ DOMAIN Trace(step, x, first, last) = first - 1 .. last
         /\ Trace(step, x, first, last)[first - 1] = x
         /\ \A i \in first .. last : Trace(step, x, first, last)[i]
                                       = step[i][Trace(step, x, first, last)[i - 1]]
<1> DEFINE f == Trace(step, x, first, last)
<1>1. Solves(f, step, x, first, last)
  <2>1. f = CHOOSE g : Solves(g, step, x, first, last)
    BY DEF Trace, Solves
  <2> HIDE DEF f
  <2>2. QED
    BY TraceExists, <2>1
<1> HIDE DEF f
<1>2. DOMAIN f = first - 1 .. last /\ f[first - 1] = x
  BY <1>1 DEF Solves
<1>3. ASSUME NEW i \in first .. last PROVE f[i] = step[i][f[i - 1]]
  <2>1. i \in first - 1 .. last /\ i # first - 1
    OBVIOUS
  <2>2. QED
    BY <1>1, <2>1 DEF Solves
<1>4. QED
  BY <1>2, <1>3 DEF f

(* A loop keeps what each of its turns keeps: I[i] is what holds after the  *)
(* turn for i.                                                              *)
LEMMA TraceInvariant ==
  ASSUME NEW step, NEW x, NEW first \in Int, NEW last \in Int, first - 1 <= last,
         NEW I, x \in I[first - 1],
         \A i \in first .. last : \A y \in I[i - 1] : step[i][y] \in I[i]
  PROVE  \A i \in first - 1 .. last : Trace(step, x, first, last)[i] \in I[i]
<1> DEFINE f == Trace(step, x, first, last)
           P == {i \in first - 1 .. last : f[i] \in I[i]}
<1>1. f[first - 1] = x /\ \A i \in first .. last : f[i] = step[i][f[i - 1]]
  BY TraceIs
<1> HIDE DEF f
<1>2. first - 1 \in P
  BY <1>1
<1>3. ASSUME NEW i \in first - 1 .. last - 1, i \in P PROVE i + 1 \in P
  <2>1. i + 1 \in first .. last /\ (i + 1) - 1 = i /\ i + 1 \in first - 1 .. last
    OBVIOUS
  <2>2. f[i + 1] = step[i + 1][f[i]]
    BY <1>1, <2>1
  <2>3. f[i] \in I[i]
    BY <1>3
  <2>4. step[i + 1][f[i]] \in I[i + 1]
    BY <2>1, <2>3
  <2>5. QED
    BY <2>1, <2>2, <2>4
<1>4. first - 1 .. last \subseteq P
  <2> HIDE DEF P
  <2>1. QED
    BY <1>2, <1>3, RangeInduction
<1>5. QED
  BY <1>4 DEF f

LEMMA LoopInvariant ==
  ASSUME NEW step, NEW x, NEW first \in Int, NEW last \in Int, first - 1 <= last,
         NEW I, x \in I[first - 1],
         \A i \in first .. last : \A y \in I[i - 1] : step[i][y] \in I[i]
  PROVE  Loop(step, x, first, last) \in I[last]
  BY TraceInvariant DEF Loop

--------------------------------------------------------------------------------
(* Lists and their positions.                                               *)

(* Functions on 1 .. n are lists, and a list is one of what it holds.       *)
LEMMA FunctionIsList ==
  ASSUME NEW S, NEW n \in Nat, NEW f \in [1 .. n -> S]
  PROVE  f \in Seq(S) /\ Len(f) = n /\ DOMAIN f = 1 .. n
  OBVIOUS

LEMMA ListOf ==
  ASSUME NEW S, NEW T, NEW s \in Seq(S), \A i \in DOMAIN s : s[i] \in T
  PROVE  s \in Seq(T)
<1>1. Len(s) \in Nat /\ s \in [1 .. Len(s) -> S] /\ DOMAIN s = 1 .. Len(s)
  BY LenProperties
<1> DEFINE n == Len(s)
<1> HIDE DEF n
<1>2. s \in [1 .. n -> T] /\ n \in Nat
  BY <1>1 DEF n
<1>3. QED
  BY <1>2, FunctionIsList

(* The positions of a list, and any of them, are finitely many numbers.     *)
LEMMA Positions ==
  ASSUME NEW S, NEW s \in Seq(S)
  PROVE  /\ DOMAIN s = 1 .. Len(s) /\ Len(s) \in Nat
         /\ DOMAIN s \in SUBSET Int
         /\ IsFiniteSet(DOMAIN s) /\ Cardinality(DOMAIN s) = Len(s)
         /\ \A i \in DOMAIN s : s[i] \in S
         /\ \A at \in SUBSET DOMAIN s :
              at \in SUBSET Int /\ IsFiniteSet(at) /\ Cardinality(at) \in Nat
<1> DEFINE n == Len(s)
           D == DOMAIN s
<1>1. D = 1 .. n /\ n \in Nat /\ \A i \in D : s[i] \in S
  BY LenProperties
<1> HIDE DEF n, D
<1>2. IsFiniteSet(D) /\ Cardinality(D) = n
  <2>1. IsFiniteSet(1 .. n) /\ Cardinality(1 .. n) = n
    BY <1>1, FS_Interval
  <2>2. QED
    BY <1>1, <2>1
<1>3. D \in SUBSET Int
  BY <1>1
<1>4. \A at \in SUBSET D : at \in SUBSET Int /\ IsFiniteSet(at) /\ Cardinality(at) \in Nat
  BY <1>2, <1>3, FS_Subset, FS_CardinalityType
<1>5. QED
  BY <1>1, <1>2, <1>3, <1>4 DEF n, D

--------------------------------------------------------------------------------
(* Sorting.                                                                 *)

(* The order that sorted makes of the positions.                            *)
Before(key, i, k) == key[i] < key[k] \/ (key[i] = key[k] /\ i < k)

(* Each position has its rank, and each rank its position.                  *)
LEMMA Ranks ==
  ASSUME NEW at \in SUBSET Int, IsFiniteSet(at), NEW key \in [at -> Int]
  PROVE  /\ Cardinality(at) \in Nat
         /\ \A i \in at : Rank(at, key, i) \in 1 .. Cardinality(at)
         /\ \A i, k \in at : Before(key, i, k) => Rank(at, key, i) < Rank(at, key, k)
         /\ \A n \in 1 .. Cardinality(at) : \E i \in at : Rank(at, key, i) = n
<1> DEFINE N == Cardinality(at)
           U(i) == {k \in at : key[k] < key[i] \/ (key[k] = key[i] /\ k <= i)}
           r(i) == Rank(at, key, i)
<1>1. N \in Nat
  BY FS_CardinalityType
<1>2. \A i \in at : i \in Int /\ key[i] \in Int
  OBVIOUS
<1>3. ASSUME NEW i \in at
      PROVE  IsFiniteSet(U(i)) /\ r(i) = Cardinality(U(i)) /\ r(i) \in 1 .. N /\ i \in U(i)
  <2>1. U(i) \in SUBSET at /\ i \in U(i)
    BY <1>2
  <2>2. IsFiniteSet(U(i)) /\ Cardinality(U(i)) <= N /\ Cardinality(U(i)) \in Nat
    BY <2>1, FS_Subset, FS_CardinalityType
  <2>3. Cardinality(U(i)) # 0
    BY <2>1, <2>2, FS_EmptySet
  <2>4. r(i) = Cardinality(U(i))
    BY DEF Rank
  <2>5. QED
    BY <1>1, <2>1, <2>2, <2>3, <2>4
<1>4. ASSUME NEW i \in at, NEW k \in at, Before(key, i, k)
      PROVE  r(i) < r(k)
  <2>1. U(i) \in SUBSET U(k)
    <3>1. ASSUME NEW j \in U(i) PROVE j \in U(k)
      <4>1. j \in at /\ key[j] \in Int /\ key[i] \in Int /\ key[k] \in Int
            /\ j \in Int /\ i \in Int /\ k \in Int
        BY <1>2
      <4>2. key[j] < key[i] \/ (key[j] = key[i] /\ j <= i)
        OBVIOUS
      <4>3. key[i] < key[k] \/ (key[i] = key[k] /\ i < k)
        BY <1>4 DEF Before
      <4>4. key[j] < key[k] \/ (key[j] = key[k] /\ j <= k)
        BY <4>1, <4>2, <4>3
      <4>5. QED
        BY <4>1, <4>4
    <3>2. QED
      BY <3>1
  <2>2. k \in U(k) /\ k \notin U(i)
    <3>1. key[i] \in Int /\ key[k] \in Int /\ i \in Int /\ k \in Int
      BY <1>2
    <3>2. QED
      BY <1>4, <3>1 DEF Before
  <2>3. /\ Cardinality(U(i)) <= Cardinality(U(k))
        /\ Cardinality(U(i)) # Cardinality(U(k))
    <3>1. IsFiniteSet(U(k)) /\ U(i) # U(k)
      BY <1>3, <2>2
    <3> HIDE DEF U
    <3>2. QED
      BY <2>1, <3>1, FS_Subset
  <2>4. r(i) \in Int /\ r(k) \in Int /\ r(i) = Cardinality(U(i)) /\ r(k) = Cardinality(U(k))
    BY <1>1, <1>3
  <2>5. QED
    BY <2>3, <2>4
<1> HIDE DEF r, U
<1>5. ASSUME NEW n \in 1 .. N PROVE \E i \in at : r(i) = n
  <2> DEFINE f == [i \in at |-> r(i)]
             T == 1 .. N
  <2>1. \A i \in at : f[i] \in T
    BY <1>3
  <2>2. \A i, k \in at : i # k => f[i] # f[k]
    <3>1. ASSUME NEW i \in at, NEW k \in at, i # k PROVE r(i) # r(k)
      <4>1. i \in Int /\ k \in Int /\ key[i] \in Int /\ key[k] \in Int
        BY <1>2
      <4>2. Before(key, i, k) \/ Before(key, k, i)
        BY <3>1, <4>1 DEF Before
      <4>3. r(i) \in Int /\ r(k) \in Int
        BY <1>1, <1>3
      <4>4. QED
        BY <1>4, <4>2, <4>3
    <3>2. QED
      BY <3>1
  <2>3. f \in Injection(at, T)
    BY <2>1, <2>2 DEF Injection, IsInjective
  <2>4. IsFiniteSet(T) /\ Cardinality(T) = N
    BY <1>1, FS_Interval
  <2>5. f \in Surjection(at, T)
    BY <2>3, <2>4, FS_Injection
  <2>6. \E i \in at : f[i] = n
    BY <2>5 DEF Surjection
  <2>7. QED
    BY <2>6
<1>6. QED
  BY <1>1, <1>3, <1>4, <1>5 DEF r

(* sorted lists each position once, in the order of the keys, and equal     *)
(* keys in the order of the positions.                                      *)
LEMMA SortedIs ==
  ASSUME NEW at \in SUBSET Int, IsFiniteSet(at), NEW key \in [at -> Int]
  PROVE  /\ Cardinality(at) \in Nat
         /\ Sorted(at, key) \in [1 .. Cardinality(at) -> at]
         /\ \A i \in at : \E n \in 1 .. Cardinality(at) : Sorted(at, key)[n] = i
         /\ \A m, n \in 1 .. Cardinality(at) :
              m < n => Before(key, Sorted(at, key)[m], Sorted(at, key)[n])
         /\ \A m, n \in 1 .. Cardinality(at) :
              m # n => Sorted(at, key)[m] # Sorted(at, key)[n]
<1> DEFINE N == Cardinality(at)
           r(i) == Rank(at, key, i)
           q == Sorted(at, key)
<1>1. /\ N \in Nat
      /\ \A i \in at : r(i) \in 1 .. N
      /\ \A i, k \in at : Before(key, i, k) => r(i) < r(k)
      /\ \A n \in 1 .. N : \E i \in at : r(i) = n
  BY Ranks
<1>2. q = [n \in 1 .. N |-> CHOOSE i \in at : r(i) = n]
  BY DEF Sorted
<1> HIDE DEF q, r, N
<1>3. \A n \in 1 .. N : q[n] \in at /\ r(q[n]) = n
  BY <1>1, <1>2
<1>4. q \in [1 .. N -> at]
  BY <1>2, <1>3
<1>5. ASSUME NEW i \in at, NEW k \in at, ~Before(key, i, k), i # k
      PROVE  Before(key, k, i)
  <2>1. i \in Int /\ k \in Int /\ key[i] \in Int /\ key[k] \in Int
    OBVIOUS
  <2>2. QED
    BY <1>5, <2>1 DEF Before
<1>6. ASSUME NEW i \in at PROVE \E n \in 1 .. N : q[n] = i
  <2>1. r(i) \in 1 .. N /\ q[r(i)] \in at /\ r(q[r(i)]) = r(i)
    BY <1>1, <1>3
  <2>2. r(i) \in Int
    BY <1>1, <2>1
  <2> DEFINE k == q[r(i)]
  <2> HIDE DEF k
  <2>3. k = i
    <3>1. k \in at /\ r(k) = r(i)
      BY <2>1 DEF k
    <3>2. ~Before(key, i, k) /\ ~Before(key, k, i)
      BY <1>1, <2>2, <3>1
    <3>3. QED
      BY <1>5, <3>1, <3>2
  <2>4. QED
    BY <2>1, <2>3 DEF k
<1>7. ASSUME NEW m \in 1 .. N, NEW n \in 1 .. N, m < n PROVE Before(key, q[m], q[n])
  <2>1. m \in Int /\ n \in Int /\ r(q[m]) = m /\ r(q[n]) = n /\ q[m] \in at /\ q[n] \in at
    BY <1>1, <1>3
  <2>2. q[m] # q[n]
    BY <1>7, <2>1
  <2>3. ASSUME Before(key, q[n], q[m]) PROVE FALSE
    <3>1. r(q[n]) < r(q[m])
      BY <1>1, <2>1, <2>3
    <3>2. QED
      BY <1>7, <2>1, <3>1
  <2>4. QED
    BY <1>5, <2>1, <2>2, <2>3
<1>8. \A m, n \in 1 .. N : m # n => q[m] # q[n]
  BY <1>3
<1>9. QED
  BY <1>1, <1>4, <1>6, <1>7, <1>8 DEF q, N

(* No other list of the positions is in that order.                         *)
LEMMA SortedUnique ==
  ASSUME NEW at \in SUBSET Int, IsFiniteSet(at), NEW key \in [at -> Int],
         NEW N \in Nat, NEW q \in [1 .. N -> at],
         \A i \in at : \E n \in 1 .. N : q[n] = i,
         \A m, n \in 1 .. N : m < n => Before(key, q[m], q[n])
  PROVE  N = Cardinality(at) /\ q = Sorted(at, key)
<1> DEFINE r(i) == Rank(at, key, i)
           U(n) == {k \in at : key[k] < key[q[n]] \/ (key[k] = key[q[n]] /\ k <= q[n])}
<1>1. \A n \in 1 .. N : q[n] \in at /\ q[n] \in Int /\ key[q[n]] \in Int
  OBVIOUS
<1>2. ASSUME NEW m \in 1 .. N, NEW n \in 1 .. N, q[m] = q[n] PROVE m = n
  <2>1. ~Before(key, q[m], q[n]) /\ ~Before(key, q[n], q[m])
    BY <1>1, <1>2 DEF Before
  <2>2. m \in Int /\ n \in Int
    OBVIOUS
  <2>3. QED
    BY <2>1, <2>2
<1>3. ASSUME NEW n \in 1 .. N PROVE r(q[n]) = n
  <2>1. r(q[n]) = Cardinality(U(n))
    BY DEF Rank
  <2>2. ASSUME NEW m \in 1 .. N PROVE q[m] \in U(n) <=> m <= n
    <3>0. m \in Int /\ n \in Int
      OBVIOUS
    <3>1. CASE m < n
      <4>1. Before(key, q[m], q[n])
        BY <3>1
      <4>2. QED
        BY <1>1, <3>0, <3>1, <4>1 DEF Before
    <3>2. CASE m = n
      BY <1>1, <3>0, <3>2
    <3>3. CASE n < m
      <4>1. Before(key, q[n], q[m])
        BY <3>3
      <4>2. QED
        BY <1>1, <3>0, <3>3, <4>1 DEF Before
    <3>4. QED
      BY <3>0, <3>1, <3>2, <3>3
  <2> HIDE DEF U
  <2> DEFINE f == [m \in 1 .. n |-> q[m]]
  <2>3. \A m \in 1 .. n : m \in 1 .. N /\ m <= n
    OBVIOUS
  <2>4. f \in [1 .. n -> U(n)]
    BY <2>2, <2>3
  <2>5. \A a, b \in 1 .. n : f[a] = f[b] => a = b
    BY <1>2, <2>3
  <2>6. \A i \in U(n) : \E m \in 1 .. n : f[m] = i
    <3>1. ASSUME NEW i \in U(n) PROVE \E m \in 1 .. n : f[m] = i
      <4>1. i \in at
        BY DEF U
      <4>2. PICK m \in 1 .. N : q[m] = i
        BY <4>1
      <4>3. m \in 1 .. n
        BY <2>2, <4>2
      <4>4. QED
        BY <4>2, <4>3
    <3>2. QED
      BY <3>1
  <2>7. f \in Bijection(1 .. n, U(n))
    BY <2>4, <2>5, <2>6, Fun_IsBij
  <2>8. ExistsBijection(1 .. n, U(n)) /\ IsFiniteSet(1 .. n) /\ Cardinality(1 .. n) = n
    BY <2>7, Fun_ExistsBij, FS_Interval
  <2>9. QED
    BY <2>1, <2>8, FS_Bijection
<1>4. N = Cardinality(at)
  <2>1. q \in Bijection(1 .. N, at)
    BY <1>2, Fun_IsBij
  <2>2. ExistsBijection(1 .. N, at) /\ IsFiniteSet(1 .. N) /\ Cardinality(1 .. N) = N
    BY <2>1, Fun_ExistsBij, FS_Interval
  <2>3. QED
    BY <2>2, FS_Bijection
<1>5. ASSUME NEW n \in 1 .. N PROVE q[n] = CHOOSE i \in at : r(i) = n
  <2>1. \A i \in at : r(i) = n => i = q[n]
    BY <1>3
  <2>2. q[n] \in at /\ r(q[n]) = n
    BY <1>3
  <2> HIDE DEF r
  <2>3. QED
    BY <2>1, <2>2
<1>6. Sorted(at, key) = [n \in 1 .. N |-> CHOOSE i \in at : r(i) = n]
  BY <1>4 DEF Sorted
<1> HIDE DEF r
<1>7. QED
  BY <1>4, <1>5, <1>6

(* The positions of a list in their own order.                              *)
LEMMA InOrderIs ==
  ASSUME NEW at \in SUBSET Int, IsFiniteSet(at)
  PROVE  /\ Cardinality(at) \in Nat
         /\ InOrder(at) \in [1 .. Cardinality(at) -> at]
         /\ \A i \in at : \E n \in 1 .. Cardinality(at) : InOrder(at)[n] = i
         /\ \A m, n \in 1 .. Cardinality(at) : m < n => InOrder(at)[m] < InOrder(at)[n]
         /\ \A i \in at : Rank(at, [k \in at |-> k], i) = Cardinality({k \in at : k <= i})
<1> DEFINE key == [i \in at |-> i]
<1>1. key \in [at -> Int] /\ \A i \in at : key[i] = i
  OBVIOUS
<1>2. InOrder(at) = Sorted(at, key)
  BY DEF InOrder
<1>3. \A i, k \in at : Before(key, i, k) => i < k
  BY <1>1 DEF Before
<1>4. ASSUME NEW i \in at
      PROVE  Rank(at, key, i) = Cardinality({k \in at : k <= i})
  <2>1. ASSUME NEW k \in at
        PROVE  (key[k] < key[i] \/ (key[k] = key[i] /\ k <= i)) <=> k <= i
    <3>1. k \in Int /\ i \in Int /\ key[k] = k /\ key[i] = i
      BY <1>1
    <3> HIDE DEF key
    <3>2. QED
      BY <3>1
  <2> HIDE DEF key
  <2>2. QED
    BY <2>1 DEF Rank
<1> HIDE DEF key
<1>5. /\ Cardinality(at) \in Nat
      /\ InOrder(at) \in [1 .. Cardinality(at) -> at]
      /\ \A i \in at : \E n \in 1 .. Cardinality(at) : InOrder(at)[n] = i
      /\ \A m, n \in 1 .. Cardinality(at) :
           m < n => Before(key, InOrder(at)[m], InOrder(at)[n])
  BY <1>1, <1>2, SortedIs
<1>6. \A m, n \in 1 .. Cardinality(at) : m < n => InOrder(at)[m] < InOrder(at)[n]
  BY <1>3, <1>5
<1>7. QED
  BY <1>4, <1>5, <1>6 DEF key

LEMMA InOrderUnique ==
  ASSUME NEW at \in SUBSET Int, IsFiniteSet(at),
         NEW N \in Nat, NEW q \in [1 .. N -> at],
         \A i \in at : \E n \in 1 .. N : q[n] = i,
         \A m, n \in 1 .. N : m < n => q[m] < q[n]
  PROVE  N = Cardinality(at) /\ q = InOrder(at)
<1> DEFINE key == [i \in at |-> i]
<1>1. key \in [at -> Int] /\ \A i \in at : key[i] = i
  OBVIOUS
<1>2. \A i, k \in at : i < k => Before(key, i, k)
  BY <1>1 DEF Before
<1> HIDE DEF key
<1>3. \A m, n \in 1 .. N : m < n => Before(key, q[m], q[n])
  BY <1>2
<1>4. N = Cardinality(at) /\ q = Sorted(at, key)
  BY <1>1, <1>3, SortedUnique
<1>5. QED
  BY <1>4 DEF InOrder, key

--------------------------------------------------------------------------------
(* Filtering.                                                               *)

LEMMA SublistIs ==
  ASSUME NEW S, NEW s \in Seq(S), NEW keep \in SUBSET DOMAIN s
  PROVE  /\ IsFiniteSet(keep) /\ Cardinality(keep) \in Nat /\ keep \in SUBSET Int
         /\ Sublist(s, keep) \in Seq(S)
         /\ Len(Sublist(s, keep)) = Cardinality(keep)
         /\ DOMAIN Sublist(s, keep) = 1 .. Cardinality(keep)
         /\ InOrder(keep) \in [1 .. Cardinality(keep) -> keep]
         /\ \A i \in keep : \E n \in 1 .. Cardinality(keep) : InOrder(keep)[n] = i
         /\ \A m, n \in 1 .. Cardinality(keep) : m < n => InOrder(keep)[m] < InOrder(keep)[n]
         /\ \A n \in 1 .. Cardinality(keep) : Sublist(s, keep)[n] = s[InOrder(keep)[n]]
<1>1. DOMAIN s = 1 .. Len(s) /\ Len(s) \in Nat /\ \A i \in DOMAIN s : s[i] \in S
  BY LenProperties
<1>2. IsFiniteSet(keep) /\ keep \in SUBSET Int
  <2>1. keep \in SUBSET (1 .. Len(s)) /\ IsFiniteSet(1 .. Len(s))
    BY <1>1, FS_Interval
  <2>2. QED
    BY <2>1, FS_Subset
<1> DEFINE N == Cardinality(keep)
           at == InOrder(keep)
<1>3. /\ N \in Nat /\ at \in [1 .. N -> keep]
      /\ \A i \in keep : \E n \in 1 .. N : at[n] = i
      /\ \A m, n \in 1 .. N : m < n => at[m] < at[n]
  BY <1>2, InOrderIs
<1>4. Sublist(s, keep) = [n \in DOMAIN at |-> s[at[n]]]
  BY DEF Sublist
<1> HIDE DEF N, at
<1>5. DOMAIN at = 1 .. N /\ \A n \in 1 .. N : at[n] \in DOMAIN s
  BY <1>3
<1>6. Sublist(s, keep) \in [1 .. N -> S]
  BY <1>1, <1>4, <1>5
<1>7. Sublist(s, keep) \in Seq(S)
  BY <1>3, <1>6
<1>8. \A n \in 1 .. N : Sublist(s, keep)[n] = s[at[n]]
  BY <1>4, <1>5
<1>9. DOMAIN Sublist(s, keep) = 1 .. N
  BY <1>6
<1>10. Len(Sublist(s, keep)) = N
  BY <1>3, <1>6
<1>11. QED
  BY <1>2, <1>3, <1>7, <1>8, <1>9, <1>10 DEF N, at

(* What is in a sublist.                                                    *)
LEMMA SublistMembers ==
  ASSUME NEW S, NEW s \in Seq(S), NEW keep \in SUBSET DOMAIN s
  PROVE  /\ \A n \in DOMAIN Sublist(s, keep) : \E i \in keep : Sublist(s, keep)[n] = s[i]
         /\ \A i \in keep : \E n \in DOMAIN Sublist(s, keep) : Sublist(s, keep)[n] = s[i]
<1> DEFINE N == Cardinality(keep)
           at == InOrder(keep)
           t == Sublist(s, keep)
<1>1. /\ at \in [1 .. N -> keep]
      /\ \A i \in keep : \E n \in 1 .. N : at[n] = i
      /\ \A n \in 1 .. N : t[n] = s[at[n]]
      /\ DOMAIN t = 1 .. N
  BY SublistIs
<1> HIDE DEF N, at, t
<1>2. \A n \in DOMAIN t : at[n] \in keep /\ t[n] = s[at[n]]
  BY <1>1
<1>3. \A i \in keep : \E n \in DOMAIN t : t[n] = s[i]
  BY <1>1
<1>4. QED
  BY <1>2, <1>3 DEF t

(* The sublist of a sublist.                                                *)
LEMMA SublistOfSublist ==
  ASSUME NEW S, NEW s \in Seq(S), NEW keep \in SUBSET DOMAIN s,
         NEW also \in SUBSET DOMAIN Sublist(s, keep)
  PROVE  /\ {InOrder(keep)[n] : n \in also} \in SUBSET keep
         /\ Sublist(Sublist(s, keep), also) = Sublist(s, {InOrder(keep)[n] : n \in also})
<1> DEFINE N == Cardinality(keep)
           at == InOrder(keep)
           t == Sublist(s, keep)
           M == Cardinality(also)
           on == InOrder(also)
           T == {at[n] : n \in also}
           q == [m \in 1 .. M |-> at[on[m]]]
<1>1. /\ N \in Nat /\ at \in [1 .. N -> keep] /\ keep \in SUBSET Int
      /\ IsFiniteSet(keep)
      /\ \A m, n \in 1 .. N : m < n => at[m] < at[n]
      /\ \A n \in 1 .. N : t[n] = s[at[n]]
      /\ DOMAIN t = 1 .. N /\ t \in Seq(S)
  BY SublistIs
<1>2. /\ M \in Nat /\ on \in [1 .. M -> also]
      /\ \A n \in also : \E m \in 1 .. M : on[m] = n
      /\ \A m, n \in 1 .. M : m < n => on[m] < on[n]
      /\ \A m \in 1 .. M : Sublist(t, also)[m] = t[on[m]]
      /\ DOMAIN Sublist(t, also) = 1 .. M /\ Sublist(t, also) \in Seq(S)
  <2>1. t \in Seq(S) /\ also \in SUBSET DOMAIN t
    BY <1>1
  <2> HIDE DEF t
  <2>2. QED
    BY <2>1, SublistIs
<1> HIDE DEF N, at, t, M, on
<1>3. also \in SUBSET (1 .. N)
  BY <1>1 DEF t
<1>4. T \in SUBSET keep /\ T \in SUBSET Int /\ IsFiniteSet(T) /\ T \in SUBSET DOMAIN s
  <2>1. T \in SUBSET keep
    BY <1>1, <1>3
  <2> HIDE DEF T
  <2>2. QED
    BY <1>1, <2>1, FS_Subset
<1>5. /\ q \in [1 .. M -> T]
      /\ \A i \in T : \E m \in 1 .. M : q[m] = i
      /\ \A m, n \in 1 .. M : m < n => q[m] < q[n]
  <2>1. \A m \in 1 .. M : on[m] \in also /\ on[m] \in 1 .. N
    BY <1>2, <1>3
  <2>2. q \in [1 .. M -> T]
    BY <2>1
  <2>3. \A i \in T : \E m \in 1 .. M : q[m] = i
    BY <1>2
  <2>4. \A m, n \in 1 .. M : m < n => q[m] < q[n]
    BY <1>1, <1>2, <2>1
  <2>5. QED
    BY <2>2, <2>3, <2>4
<1> HIDE DEF q, T
<1>6. M = Cardinality(T) /\ q = InOrder(T)
  BY <1>2, <1>4, <1>5, InOrderUnique
<1>7. /\ DOMAIN Sublist(s, T) = 1 .. M /\ Sublist(s, T) \in Seq(S)
      /\ \A m \in 1 .. M : Sublist(s, T)[m] = s[q[m]]
  <2>1. T \in SUBSET DOMAIN s
    BY <1>4
  <2>2. /\ DOMAIN Sublist(s, T) = 1 .. Cardinality(T) /\ Sublist(s, T) \in Seq(S)
        /\ \A m \in 1 .. Cardinality(T) : Sublist(s, T)[m] = s[InOrder(T)[m]]
    BY <2>1, SublistIs
  <2>3. QED
    BY <1>6, <2>2
<1>8. \A m \in 1 .. M : Sublist(s, T)[m] = Sublist(t, also)[m]
  <2>1. \A m \in 1 .. M : on[m] \in 1 .. N /\ q[m] = at[on[m]]
    BY <1>2, <1>3 DEF q
  <2>2. ASSUME NEW m \in 1 .. M PROVE Sublist(s, T)[m] = Sublist(t, also)[m]
    <3>1. Sublist(s, T)[m] = s[at[on[m]]]
      BY <1>7, <2>1
    <3>2. Sublist(t, also)[m] = t[on[m]] /\ t[on[m]] = s[at[on[m]]]
      BY <1>1, <1>2, <2>1
    <3>3. QED
      BY <3>1, <3>2
  <2>3. QED
    BY <2>2
<1>9. Sublist(s, T) = Sublist(t, also)
  <2>1. Len(Sublist(s, T)) = M /\ Len(Sublist(t, also)) = M
    BY <1>2, <1>7
  <2>2. QED
    BY <1>2, <1>7, <1>8, <2>1, SeqEqual
<1>10. QED
  BY <1>4, <1>9 DEF T, at, t

(* The first ones of the positions.                                         *)
LEMMA FirstOfIs ==
  ASSUME NEW at \in SUBSET Int, IsFiniteSet(at), NEW n \in Nat
  PROVE  /\ FirstOf(at, n) \in SUBSET at
         /\ IsFiniteSet(FirstOf(at, n)) /\ Cardinality(FirstOf(at, n)) \in Nat
         /\ Cardinality(FirstOf(at, n))
              = IF n <= Cardinality(at) THEN n ELSE Cardinality(at)
         /\ \A m \in 1 .. Cardinality(FirstOf(at, n)) :
              InOrder(FirstOf(at, n))[m] = InOrder(at)[m]
<1> DEFINE N == Cardinality(at)
           q == InOrder(at)
           F == FirstOf(at, n)
           M == IF n <= N THEN n ELSE N
           p == [m \in 1 .. M |-> q[m]]
           c(i) == Cardinality({k \in at : k <= i})
<1>1. /\ N \in Nat /\ q \in [1 .. N -> at]
      /\ \A i \in at : \E m \in 1 .. N : q[m] = i
      /\ \A m, k \in 1 .. N : m < k => q[m] < q[k]
  BY InOrderIs
<1>2. \A m \in 1 .. N : c(q[m]) = m
  <2> DEFINE key == [i \in at |-> i]
  <2>1. key \in [at -> Int]
    OBVIOUS
  <2>2. q = [m \in 1 .. N |-> CHOOSE i \in at : Rank(at, key, i) = m]
    BY DEF InOrder, Sorted
  <2>3. \A i \in at : Rank(at, key, i) = c(i)
    BY InOrderIs
  <2>4. \A m \in 1 .. N : \E i \in at : Rank(at, key, i) = m
    <3> HIDE DEF key
    <3>1. QED
      BY <2>1, Ranks
  <2> HIDE DEF c, key, N, q
  <2>5. QED
    BY <1>1, <2>2, <2>3, <2>4
<1>3. F = {i \in at : c(i) <= n}
  BY DEF FirstOf
<1> HIDE DEF c, N, q, F
<1>4. F \in SUBSET at
  BY <1>3
<1>5. IsFiniteSet(F) /\ F \in SUBSET Int
  BY <1>4, FS_Subset
<1>6. M \in Nat /\ M <= n /\ M <= N /\ \A m \in 1 .. N : m <= n <=> m \in 1 .. M
  BY <1>1
<1> HIDE DEF M
<1>7. /\ p \in [1 .. M -> F]
      /\ \A i \in F : \E m \in 1 .. M : p[m] = i
      /\ \A m, k \in 1 .. M : m < k => p[m] < p[k]
  <2>1. \A m \in 1 .. M : m \in 1 .. N /\ m <= n
    BY <1>1, <1>6
  <2>2. \A m \in 1 .. M : q[m] \in F
    BY <1>1, <1>2, <1>3, <2>1
  <2>3. ASSUME NEW i \in F PROVE \E m \in 1 .. M : q[m] = i
    <3>1. PICK m \in 1 .. N : q[m] = i
      BY <1>1, <1>4
    <3>2. m <= n
      BY <1>2, <1>3, <3>1
    <3>3. QED
      BY <1>6, <3>1, <3>2
  <2>4. QED
    BY <1>1, <2>1, <2>2, <2>3
<1> HIDE DEF p
<1>8. M = Cardinality(F) /\ p = InOrder(F)
  BY <1>5, <1>6, <1>7, InOrderUnique
<1>9. \A m \in 1 .. M : p[m] = q[m]
  BY DEF p
<1>10. QED
  BY <1>4, <1>5, <1>6, <1>8, <1>9 DEF M, N, q, F

(* Taking the first of the positions is cutting the list short.             *)
LEMMA SublistPrefix ==
  ASSUME NEW S, NEW s \in Seq(S), NEW at \in SUBSET DOMAIN s, NEW n \in Nat
  PROVE  /\ FirstOf(at, n) \in SUBSET at
         /\ Cardinality(FirstOf(at, n)) \in Nat /\ Cardinality(at) \in Nat
         /\ Cardinality(FirstOf(at, n))
              = IF n <= Cardinality(at) THEN n ELSE Cardinality(at)
         /\ Sublist(s, FirstOf(at, n))
              = SubSeq(Sublist(s, at), 1, Cardinality(FirstOf(at, n)))
<1> DEFINE F == FirstOf(at, n)
           t == Sublist(s, at)
           u == Sublist(s, F)
           M == Cardinality(F)
           N == Cardinality(at)
<1>1. /\ IsFiniteSet(at) /\ at \in SUBSET Int /\ N \in Nat
      /\ t \in Seq(S) /\ Len(t) = N
      /\ \A m \in 1 .. N : t[m] = s[InOrder(at)[m]]
  BY SublistIs
<1>2. /\ F \in SUBSET at /\ M \in Nat
      /\ M = IF n <= N THEN n ELSE N
      /\ \A m \in 1 .. M : InOrder(F)[m] = InOrder(at)[m]
  BY <1>1, FirstOfIs
<1>3. F \in SUBSET DOMAIN s
  BY <1>2
<1>4. /\ u \in Seq(S) /\ Len(u) = M
      /\ \A m \in 1 .. M : u[m] = s[InOrder(F)[m]]
  <2> HIDE DEF F
  <2>1. QED
    BY <1>3, SublistIs
<1> HIDE DEF F, t, u, M, N
<1>5. M <= N /\ \A m \in 1 .. M : m \in 1 .. N
  BY <1>1, <1>2
<1>6. \A m \in 1 .. M : u[m] = t[m]
  BY <1>1, <1>2, <1>4, <1>5
<1> DEFINE v == SubSeq(t, 1, M)
<1>7. v \in Seq(S) /\ Len(v) = M /\ \A m \in 1 .. M : v[m] = t[m]
  <2>1. \A m \in 1 .. M : t[m] \in S
    BY <1>1, <1>5, ElementOfSeq
  <2>2. /\ v \in Seq(S) /\ Len(v) = IF 1 <= M THEN M - 1 + 1 ELSE 0
        /\ \A m \in 1 .. M - 1 + 1 : v[m] = t[1 + m - 1]
    BY <1>2, <2>1, SubSeqProperties
  <2> HIDE DEF v
  <2>3. M - 1 + 1 = M /\ \A m \in 1 .. M : 1 + m - 1 = m
    BY <1>2
  <2>4. QED
    BY <1>2, <2>2, <2>3
<1> HIDE DEF v
<1>8. u = v
  BY <1>4, <1>6, <1>7, SeqEqual
<1>9. QED
  BY <1>1, <1>2, <1>8 DEF F, t, u, v, M, N

(* A list sorted by a key.                                                  *)
LEMMA SortedListIs ==
  ASSUME NEW S, NEW s \in Seq(S), NEW key \in [DOMAIN s -> Int]
  PROVE  /\ SortedList(s, key) \in Seq(S)
         /\ Len(SortedList(s, key)) = Len(s) /\ DOMAIN SortedList(s, key) = DOMAIN s
         /\ Sorted(DOMAIN s, key) \in [DOMAIN s -> DOMAIN s]
         /\ \A i \in DOMAIN s : \E n \in DOMAIN s : Sorted(DOMAIN s, key)[n] = i
         /\ \A m, n \in DOMAIN s :
              m < n => Before(key, Sorted(DOMAIN s, key)[m], Sorted(DOMAIN s, key)[n])
         /\ \A m, n \in DOMAIN s :
              m # n => Sorted(DOMAIN s, key)[m] # Sorted(DOMAIN s, key)[n]
         /\ \A n \in DOMAIN s : SortedList(s, key)[n] = s[Sorted(DOMAIN s, key)[n]]
<1> DEFINE D == DOMAIN s
           at == Sorted(D, key)
<1>1. D = 1 .. Len(s) /\ Len(s) \in Nat /\ s \in [D -> S]
  BY LenProperties
<1>2. D \in SUBSET Int /\ IsFiniteSet(D) /\ Cardinality(D) = Len(s)
  <2> DEFINE L == Len(s)
  <2>1. D = 1 .. L /\ L \in Nat
    BY <1>1
  <2> HIDE DEF L, D
  <2>2. IsFiniteSet(1 .. L) /\ Cardinality(1 .. L) = L
    BY <2>1, FS_Interval
  <2>3. QED
    BY <2>1, <2>2 DEF L
<1>3. SortedList(s, key) = [n \in DOMAIN at |-> s[at[n]]]
  BY DEF SortedList
<1>4. key \in [D -> Int]
  OBVIOUS
<1> HIDE DEF D
<1>5. /\ at \in [D -> D]
      /\ \A i \in D : \E n \in D : at[n] = i
      /\ \A m, n \in D : m < n => Before(key, at[m], at[n])
      /\ \A m, n \in D : m # n => at[m] # at[n]
  <2>1. 1 .. Cardinality(D) = D
    BY <1>1, <1>2
  <2>2. /\ at \in [1 .. Cardinality(D) -> D]
        /\ \A i \in D : \E n \in 1 .. Cardinality(D) : at[n] = i
        /\ \A m, n \in 1 .. Cardinality(D) : m < n => Before(key, at[m], at[n])
        /\ \A m, n \in 1 .. Cardinality(D) : m # n => at[m] # at[n]
    BY <1>2, <1>4, SortedIs
  <2>3. QED
    BY <2>1, <2>2
<1> HIDE DEF at
<1>6. SortedList(s, key) \in [D -> S]
  BY <1>1, <1>3, <1>5
<1>7. SortedList(s, key) \in Seq(S) /\ Len(SortedList(s, key)) = Len(s)
      /\ DOMAIN SortedList(s, key) = D
  BY <1>1, <1>6
<1>8. \A n \in D : SortedList(s, key)[n] = s[at[n]]
  BY <1>3, <1>5
<1>9. QED
  BY <1>5, <1>7, <1>8 DEF at, D
================================================================================
