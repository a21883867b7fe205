--------------------------- MODULE Itinerary_proofs ---------------------------
(***************************************************************************)
(* The orders of _tour and the timed itinerary, for any places, days,       *)
(* stays and activity window.                                               *)
(***************************************************************************)
EXTENDS MCItinerary, Lists_proofs

(* min() of a list that is not empty is one of its elements.                *)
LEMMA LeastOfIs ==
  ASSUME NEW at \in SUBSET Int, IsFiniteSet(at), at # {}, NEW key \in [at -> Int]
  PROVE  LeastOf(at, key) \in at
<1>1. Cardinality(at) \in Nat /\ Cardinality(at) # 0
  BY FS_EmptySet, FS_CardinalityType
<1>2. 1 \in 1 .. Cardinality(at)
  BY <1>1
<1>3. \E i \in at : Rank(at, key, i) = 1
  BY <1>2, Ranks
<1>4. QED
  BY <1>3 DEF LeastOf

--------------------------------------------------------------------------------
(* The tour of one day.                                                     *)

(* The paths through m of n places that begin at the first.                 *)
Paths(n, m) ==
  {p \in [1 .. m -> 1 .. n] : p[1] = 1 /\ \A i, k \in 1 .. m : p[i] = p[k] => i = k}

(* Distances between n places.                                              *)
Distances(n) == [1 .. n -> [1 .. n -> Int]]

LEMMA PathMembers ==
  ASSUME NEW n \in Nat, NEW m \in Nat, NEW p \in Paths(n, m)
  PROVE  /\ p \in Seq(1 .. n) /\ Len(p) = m /\ DOMAIN p = 1 .. m
         /\ \A i \in 1 .. m : p[i] \in 1 .. n
         /\ IsFiniteSet(Range(p)) /\ Range(p) \subseteq 1 .. n
         /\ Cardinality(Range(p)) = m
<1>1. p \in [1 .. m -> 1 .. n] /\ \A i, k \in 1 .. m : p[i] = p[k] => i = k
  BY DEF Paths
<1>2. p \in Seq(1 .. n) /\ Len(p) = m /\ DOMAIN p = 1 .. m
  BY <1>1, FunctionIsList
<1>3. Range(p) \subseteq 1 .. n
  BY <1>1 DEF Range
<1>4. p \in Surjection(1 .. m, Range(p))
  BY <1>1, <1>2 DEF Surjection, Range
<1>5. p \in Injection(1 .. m, Range(p))
  BY <1>1, <1>4 DEF Injection, Surjection, IsInjective
<1>6. IsFiniteSet(1 .. m) /\ Cardinality(1 .. m) = m
  BY FS_Interval
<1>7. IsFiniteSet(Range(p)) /\ Cardinality(Range(p)) = Cardinality(1 .. m)
  BY <1>4, <1>5, <1>6, FS_Surjection
<1>8. QED
  BY <1>1, <1>2, <1>3, <1>6, <1>7

(* A path through all the places visits every one of them.                  *)
LEMMA PathsVisitAll ==
  ASSUME NEW n \in Nat, NEW p \in Paths(n, n)
  PROVE  \A q \in 1 .. n : \E i \in 1 .. n : p[i] = q
<1>1. IsFiniteSet(1 .. n) /\ Cardinality(1 .. n) = n
  BY FS_Interval
<1>2. Range(p) = 1 .. n
  BY <1>1, PathMembers, FS_Subset
<1>3. DOMAIN p = 1 .. n
  BY PathMembers
<1>4. QED
  BY <1>2, <1>3 DEF Range

(* The nearest-neighbour path visits every place once.                      *)
LEMMA NearestNeighbourIs ==
  ASSUME NEW n \in Nat \ {0}, NEW km \in Distances(n)
  PROVE  NearestNeighbour(km, n) \in Paths(n, n)
<1> DEFINE Rest(path) == (1 .. n) \ Range(path)
           Nearest(path) == LeastOf(Rest(path), [q \in Rest(path) |-> km[path[Len(path)]][q]])
           step == [m \in 2 .. n |-> [path \in Seq(1 .. n) |-> Append(path, Nearest(path))]]
           I == [m \in 1 .. n |-> Paths(n, m)]
<1>1. <<1>> \in I[1]
  <2>1. <<1>> \in Paths(n, 1)
    <3>1. <<1>> \in [1 .. 1 -> 1 .. n] /\ <<1>>[1] = 1
      OBVIOUS
    <3>2. QED
      BY <3>1 DEF Paths
  <2>2. QED
    BY <2>1
<1>2. ASSUME NEW m \in 2 .. n, NEW p \in I[m - 1] PROVE step[m][p] \in I[m]
  <2>1. p \in Paths(n, m - 1) /\ m - 1 \in Nat \ {0} /\ I[m] = Paths(n, m)
    BY <1>2
  <2>2. /\ p \in Seq(1 .. n) /\ Len(p) = m - 1 /\ DOMAIN p = 1 .. m - 1
        /\ \A i \in 1 .. m - 1 : p[i] \in 1 .. n
        /\ IsFiniteSet(Range(p)) /\ Cardinality(Range(p)) = m - 1
    BY <2>1, PathMembers
  <2>3. IsFiniteSet(1 .. n) /\ Cardinality(1 .. n) = n
    BY FS_Interval
  <2>4. Rest(p) # {} /\ Rest(p) \in SUBSET Int /\ IsFiniteSet(Rest(p))
    <3>1. Rest(p) \in SUBSET (1 .. n)
      OBVIOUS
    <3>2. Rest(p) # {}
      <4>1. SUFFICES ASSUME Rest(p) = {} PROVE FALSE
        OBVIOUS
      <4>2. 1 .. n \subseteq Range(p)
        BY <4>1
      <4>3. n <= m - 1
        BY <2>2, <2>3, <4>2, FS_Subset
      <4>4. QED
        BY <4>3
    <3>3. QED
      BY <2>3, <3>1, <3>2, FS_Subset
  <2>5. Nearest(p) \in Rest(p)
    <3>1. p[Len(p)] \in 1 .. n
      BY <2>1, <2>2
    <3>2. km[p[Len(p)]] \in [1 .. n -> Int]
      BY <3>1 DEF Distances
    <3>3. [q \in Rest(p) |-> km[p[Len(p)]][q]] \in [Rest(p) -> Int]
      BY <3>2
    <3>4. QED
      BY <2>4, <3>3, LeastOfIs
  <2>6. step[m][p] = Append(p, Nearest(p))
    BY <2>2
  <2> HIDE DEF Nearest, step, I
  <2>7. Append(p, Nearest(p)) \in Paths(n, m)
    <3>1. Nearest(p) \in 1 .. n /\ \A i \in 1 .. m - 1 : p[i] # Nearest(p)
      BY <2>2, <2>5 DEF Range
    <3> DEFINE x == Nearest(p)
    <3> HIDE DEF x
    <3>2. /\ Len(Append(p, x)) = m /\ Append(p, x) \in Seq(1 .. n)
          /\ \A i \in 1 .. m - 1 : Append(p, x)[i] = p[i]
          /\ Append(p, x)[m] = x
      BY <2>2, <3>1, AppendProperties DEF x
    <3>3. Append(p, x) \in [1 .. m -> 1 .. n]
      BY <3>2, LenProperties
    <3>4. p[1] = 1 /\ \A i, k \in 1 .. m - 1 : p[i] = p[k] => i = k
      BY <2>1 DEF Paths
    <3>5. Append(p, x)[1] = 1
      BY <2>1, <3>2, <3>4
    <3>6. ASSUME NEW i \in 1 .. m, NEW k \in 1 .. m, Append(p, x)[i] = Append(p, x)[k]
          PROVE  i = k
      <4>1. (i = m \/ i \in 1 .. m - 1) /\ (k = m \/ k \in 1 .. m - 1)
        OBVIOUS
      <4>2. QED
        BY <3>1, <3>2, <3>4, <3>6, <4>1 DEF x
    <3>7. QED
      BY <3>3, <3>5, <3>6 DEF Paths, x
  <2>8. QED
    BY <2>1, <2>6, <2>7
<1>3. Loop(step, <<1>>, 2, n) \in I[n]
  <2> HIDE DEF step, I
  <2>1. 2 - 1 = 1 /\ 2 - 1 <= n
    OBVIOUS
  <2>2. QED
    BY <1>1, <1>2, <2>1, LoopInvariant
<1>4. QED
  BY <1>3 DEF NearestNeighbour

(* A reversal keeps every place of the path, and its first.                 *)
LEMMA ReverseBetweenIs ==
  ASSUME NEW n \in Nat, NEW t \in Paths(n, n),
         NEW i \in 1 .. n - 2, NEW k \in i + 2 .. n
  PROVE  ReverseBetween(t, i, k) \in Paths(n, n)
<1> DEFINE f == [m \in 1 .. n |-> IF m \in i + 1 .. k THEN i + 1 + k - m ELSE m]
           u == ReverseBetween(t, i, k)
<1>1. t \in [1 .. n -> 1 .. n] /\ t[1] = 1 /\ \A a, b \in 1 .. n : t[a] = t[b] => a = b
  BY DEF Paths
<1>2. /\ f \in [1 .. n -> 1 .. n] /\ f[1] = 1
      /\ \A a, b \in 1 .. n : f[a] = f[b] => a = b
  OBVIOUS
<1>3. u = [m \in 1 .. n |-> t[f[m]]]
  <2>1. DOMAIN t = 1 .. n
    BY <1>1
  <2>2. ASSUME NEW m \in 1 .. n
        PROVE  (IF m \in i + 1 .. k THEN t[i + 1 + k - m] ELSE t[m]) = t[f[m]]
    OBVIOUS
  <2>3. QED
    BY <2>1, <2>2 DEF ReverseBetween
<1> HIDE DEF f, u
<1>4. u \in [1 .. n -> 1 .. n] /\ u[1] = 1
  <2>1. 1 \in 1 .. n
    OBVIOUS
  <2>2. u[1] = t[f[1]] /\ \A m \in 1 .. n : u[m] \in 1 .. n
    BY <1>1, <1>2, <1>3, <2>1
  <2>3. QED
    BY <1>1, <1>2, <1>3, <2>2
<1>5. \A a, b \in 1 .. n : u[a] = u[b] => a = b
  BY <1>1, <1>2, <1>3
<1>6. QED
  BY <1>4, <1>5 DEF Paths, u

(* And so do the loops over all the pairs of edges.                         *)
LEMMA SweepFromIs ==
  ASSUME NEW km, NEW n \in Nat, NEW t \in Paths(n, n), NEW i \in 1 .. n - 2
  PROVE  SweepFrom(km, i, t) \in Paths(n, n)
<1> DEFINE step == [k \in i + 2 .. n |-> [u \in Seq(1 .. n) |->
                      IF Improves(km, u, i, k) THEN ReverseBetween(u, i, k) ELSE u]]
           I == [k \in i + 1 .. n |-> Paths(n, n)]
<1>1. Len(t) = n /\ DOMAIN t = 1 .. n
  BY PathMembers
<1>2. ASSUME NEW k \in i + 2 .. n, NEW u \in I[k - 1] PROVE step[k][u] \in I[k]
  <2>1. u \in Paths(n, n) /\ I[k] = Paths(n, n)
    OBVIOUS
  <2>2. u \in Seq(1 .. n)
    BY <2>1, PathMembers
  <2>3. ReverseBetween(u, i, k) \in Paths(n, n)
    BY <2>1, ReverseBetweenIs
  <2>4. QED
    BY <2>1, <2>2, <2>3
<1>3. Loop(step, t, i + 2, n) \in I[n]
  <2>1. t \in I[i + 1] /\ (i + 2) - 1 = i + 1 /\ (i + 2) - 1 <= n /\ i + 2 \in Int /\ n \in Int
    OBVIOUS
  <2> HIDE DEF step, I
  <2>2. QED
    BY <1>2, <2>1, LoopInvariant
<1>4. SweepFrom(km, i, t) = Loop(step, t, i + 2, n)
  BY <1>1 DEF SweepFrom
<1>5. QED
  BY <1>3, <1>4

LEMMA SweepIs ==
  ASSUME NEW km, NEW n \in Nat, n > 2, NEW t \in Paths(n, n)
  PROVE  Sweep(km, t) \in Paths(n, n)
<1> DEFINE step == [i \in 1 .. n - 2 |-> [u \in Seq(1 .. n) |-> SweepFrom(km, i, u)]]
           I == [i \in 0 .. n - 2 |-> Paths(n, n)]
<1>1. Len(t) = n /\ DOMAIN t = 1 .. n
  BY PathMembers
<1>2. ASSUME NEW i \in 1 .. n - 2, NEW u \in I[i - 1] PROVE step[i][u] \in I[i]
  <2>1. u \in Paths(n, n) /\ I[i] = Paths(n, n)
    OBVIOUS
  <2>2. u \in Seq(1 .. n) /\ SweepFrom(km, i, u) \in Paths(n, n)
    BY <2>1, PathMembers, SweepFromIs
  <2>3. QED
    BY <2>1, <2>2
<1>3. Loop(step, t, 1, n - 2) \in I[n - 2]
  <2>1. t \in I[0] /\ 1 - 1 = 0 /\ 1 - 1 <= n - 2 /\ n - 2 \in Int
    OBVIOUS
  <2> HIDE DEF step, I
  <2>2. QED
    BY <1>2, <2>1, LoopInvariant
<1>4. Sweep(km, t) = Loop(step, t, 1, n - 2)
  BY <1>1 DEF Sweep
<1>5. QED
  BY <1>3, <1>4

LEMMA TwoOptIs ==
  ASSUME NEW km, NEW n \in Nat, n > 2, NEW t \in Paths(n, n)
  PROVE  TwoOpt(km, t) \in Paths(n, n)
<1> DEFINE step == [round \in 1 .. MaxRounds |-> [u \in Seq(1 .. n) |-> Sweep(km, u)]]
           I == [round \in 0 .. MaxRounds |-> Paths(n, n)]
<1>1. Len(t) = n /\ DOMAIN t = 1 .. n
  BY PathMembers
<1>2. ASSUME NEW i \in 1 .. MaxRounds, NEW u \in I[i - 1] PROVE step[i][u] \in I[i]
  <2>1. u \in Paths(n, n) /\ I[i] = Paths(n, n)
    BY DEF MaxRounds
  <2>2. u \in Seq(1 .. n) /\ Sweep(km, u) \in Paths(n, n)
    BY <2>1, PathMembers, SweepIs
  <2>3. QED
    BY <2>1, <2>2
<1>3. Loop(step, t, 1, MaxRounds) \in I[MaxRounds]
  <2>1. t \in I[0] /\ 1 - 1 = 0 /\ 1 - 1 <= MaxRounds /\ MaxRounds \in Int
    BY DEF MaxRounds
  <2> HIDE DEF step, I
  <2>2. QED
    BY <1>2, <2>1, LoopInvariant
<1>4. TwoOpt(km, t) = Loop(step, t, 1, MaxRounds)
  BY <1>1 DEF TwoOpt
<1>5. I[MaxRounds] = Paths(n, n)
  BY DEF MaxRounds
<1>6. QED
  BY <1>3, <1>4, <1>5

LEMMA TourOfIs ==
  ASSUME NEW n \in Nat \ {0}, NEW km \in Distances(n)
  PROVE  TourOf(km, n) \in Paths(n, n)
<1>1. CASE n <= 2
  <2>1. [p \in 1 .. n |-> p] \in Paths(n, n)
    BY DEF Paths
  <2>2. QED
    BY <1>1, <2>1 DEF TourOf
<1>2. CASE n > 2
  BY <1>2, NearestNeighbourIs, TwoOptIs DEF TourOf
<1>3. QED
  BY <1>1, <1>2

(* A placement is a choice of Size places of the grid.                      *)
LEMMA BlocksAre == placement \in Placements => Blocks \in Distances(Size)
<1>1. Size \in Nat /\ Width \in Nat
  BY GridAssumption
<1> DEFINE G == Grid
<1>2. ASSUME NEW p \in G, NEW q \in G PROVE CityBlocks(p, q) \in Int
  <2>1. p[1] \in Int /\ p[2] \in Int /\ q[1] \in Int /\ q[2] \in Int
    BY <1>1 DEF Grid
  <2>2. QED
    BY <2>1 DEF CityBlocks, Distance
<1>3. ASSUME placement \in Placements PROVE Blocks \in Distances(Size)
  <2>1. placement \in [1 .. Size -> G]
    BY <1>3 DEF Placements
  <2> HIDE DEF G
  <2>2. QED
    BY <1>2, <2>1 DEF Blocks, Distances
<1>4. QED
  BY <1>3

(* _tour visits every place of the day once and starts at the first one,    *)
(* for any number of places on a grid of any size.                          *)
THEOREM ToursAreComplete == MCSpec => []TourVisitsAll
<1> DEFINE PInv == placement \in {<< >>} \cup Placements
<1>1. MCInit => PInv
  BY DEF MCInit
<1>2. PInv /\ [MCNext]_<<vars, placement>> => PInv'
  BY DEF MCNext, Placements, Grid
<1>3. PInv => TourVisitsAll
  <2>1. SUFFICES ASSUME placement \in Placements PROVE TourVisitsAll
    BY DEF TourVisitsAll
  <2> DEFINE tour == TourOf(Blocks, Size)
  <2>2. Size \in Nat \ {0}
    BY GridAssumption
  <2>3. tour \in Paths(Size, Size)
    BY <2>1, <2>2, BlocksAre, TourOfIs
  <2> HIDE DEF tour
  <2>4. Len(tour) = Size /\ DOMAIN tour = 1 .. Size /\ \A i \in 1 .. Size : tour[i] \in 1 .. Size
    BY <2>2, <2>3, PathMembers
  <2>5. {tour[i] : i \in DOMAIN tour} = 1 .. Size
    <3>1. \A q \in 1 .. Size : \E i \in 1 .. Size : tour[i] = q
      BY <2>2, <2>3, PathsVisitAll
    <3>2. QED
      BY <2>4, <3>1
  <2>6. tour[1] = 1
    BY <2>3 DEF Paths
  <2>7. QED
    BY <2>4, <2>5, <2>6 DEF TourVisitsAll, tour
<1>4. QED
  BY <1>1, <1>2, <1>3, PTL DEF MCSpec

(* Distances that are the same in both directions.                          *)
Symmetric(n) == {km \in Distances(n) : \A p, q \in 1 .. n : km[p][q] = km[q][p]}

(* How far the path t has come at each of its n places, and in the end.     *)
Along(km, t, n) ==
  Trace([m \in 2 .. n |-> [far \in Int |-> far + km[t[m - 1]][t[m]]]], 0, 2, n)

PathLength(km, t, n) == Along(km, t, n)[n]

LEMMA AlongIs ==
  ASSUME NEW n \in Nat \ {0}, NEW km \in Distances(n), NEW t \in [1 .. n -> 1 .. n]
  PROVE  /\ Along(km, t, n)[1] = 0
         /\ \A m \in 1 .. n : Along(km, t, n)[m] \in Int
         /\ \A m \in 2 .. n : Along(km, t, n)[m] = Along(km, t, n)[m - 1] + km[t[m - 1]][t[m]]
<1> DEFINE step == [m \in 2 .. n |-> [far \in Int |-> far + km[t[m - 1]][t[m]]]]
           I == [m \in 1 .. n |-> Int]
           A == Along(km, t, n)
<1>1. \A p, q \in 1 .. n : km[p][q] \in Int
  BY DEF Distances
<1>2. \A m \in 2 .. n : m - 1 \in 1 .. n /\ m \in 1 .. n
  OBVIOUS
<1>3. \A m \in 2 .. n : t[m - 1] \in 1 .. n /\ t[m] \in 1 .. n
  BY <1>2
<1>4. ASSUME NEW m \in 2 .. n, NEW far \in Int
      PROVE  step[m][far] = far + km[t[m - 1]][t[m]] /\ step[m][far] \in Int
  <2> DEFINE turn(j) == [s \in Int |-> s + km[t[j - 1]][t[j]]]
  <2>0. turn(m)[far] = far + km[t[m - 1]][t[m]]
    OBVIOUS
  <2>1. step[m][far] = far + km[t[m - 1]][t[m]]
    <3>1. step = [j \in 2 .. n |-> turn(j)]
      OBVIOUS
    <3>2. step[m] = turn(m)
      <4> HIDE DEF turn, step
      <4>1. QED
        BY <3>1
    <3>3. QED
      BY <2>0, <3>2
  <2>2. far + km[t[m - 1]][t[m]] \in Int
    <3>1. t[m - 1] \in 1 .. n /\ t[m] \in 1 .. n
      BY <1>3
    <3> DEFINE edge == km[t[m - 1]][t[m]]
    <3>2. edge \in Int
      BY <1>1, <3>1
    <3> HIDE DEF edge
    <3>3. far + edge \in Int
      BY <3>2
    <3>4. QED
      BY <3>3 DEF edge
  <2> HIDE DEF step
  <2>3. QED
    BY <2>1, <2>2
<1> HIDE DEF step
<1>5. \A m \in 2 .. n : \A far \in I[m - 1] : step[m][far] \in I[m]
  BY <1>2, <1>4
<1>6. 0 \in I[2 - 1] /\ 2 - 1 <= n /\ 2 - 1 = 1 /\ 2 \in Int /\ n \in Int
  OBVIOUS
<1> HIDE DEF I
<1>7. \A m \in 2 - 1 .. n : Trace(step, 0, 2, n)[m] \in I[m]
  BY <1>5, <1>6, TraceInvariant
<1>8. A = Trace(step, 0, 2, n)
  BY DEF Along, step
<1>9. A[2 - 1] = 0 /\ \A m \in 2 .. n : A[m] = step[m][A[m - 1]]
  <2> DEFINE T == Trace(step, 0, 2, n)
  <2>1. 2 - 1 <= n /\ 2 \in Int /\ n \in Int
    BY <1>6
  <2>2. T[2 - 1] = 0 /\ \A m \in 2 .. n : T[m] = step[m][T[m - 1]]
    BY <2>1, TraceIs
  <2> HIDE DEF A, T
  <2>3. A = T
    BY <1>8 DEF T
  <2>4. QED
    BY <2>2, <2>3
<1> HIDE DEF A
<1>10. \A m \in 1 .. n : A[m] \in Int
  BY <1>6, <1>7, <1>8 DEF I
<1>11. \A m \in 2 .. n : A[m] = A[m - 1] + km[t[m - 1]][t[m]]
  BY <1>2, <1>4, <1>9, <1>10
<1>12. QED
  BY <1>6, <1>9, <1>10, <1>11 DEF A

(* A reversal changes the length of the path by the two edges it replaces:  *)
(* the test of _two_opt is exactly that the path becomes shorter.           *)
LEMMA ImprovesIffShorter ==
  ASSUME NEW n \in Nat, NEW km \in Symmetric(n), NEW t \in Paths(n, n),
         NEW i \in 1 .. n - 2, NEW k \in i + 2 .. n
  PROVE  /\ PathLength(km, t, n) \in Int
         /\ PathLength(km, ReverseBetween(t, i, k), n) \in Int
         /\ Improves(km, t, i, k)
              <=> PathLength(km, ReverseBetween(t, i, k), n) < PathLength(km, t, n)
<1> DEFINE u == ReverseBetween(t, i, k)
           A == Along(km, t, n)
           B == Along(km, u, n)
           cut == km[t[i]][t[i + 1]]
           join == km[t[i]][t[k]]
<1>1. n \in Nat \ {0} /\ km \in Distances(n) /\ \A p, q \in 1 .. n : km[p][q] = km[q][p]
  BY DEF Symmetric
<1>2. t \in [1 .. n -> 1 .. n] /\ Len(t) = n /\ DOMAIN t = 1 .. n
  BY PathMembers DEF Paths
<1>3. u \in [1 .. n -> 1 .. n]
  BY ReverseBetweenIs DEF Paths
<1>4. \A m \in 1 .. n : u[m] = IF m \in i + 1 .. k THEN t[i + 1 + k - m] ELSE t[m]
  BY <1>2 DEF ReverseBetween
<1>5. \A p, q \in 1 .. n : km[p][q] \in Int
  BY <1>1 DEF Distances
<1>6. /\ A[1] = 0 /\ \A m \in 1 .. n : A[m] \in Int
      /\ \A m \in 2 .. n : A[m] = A[m - 1] + km[t[m - 1]][t[m]]
  <2>1. n \in Nat \ {0} /\ km \in Distances(n) /\ t \in [1 .. n -> 1 .. n]
    BY <1>1, <1>2
  <2>2. QED
    BY <2>1, AlongIs
<1>7. /\ B[1] = 0 /\ \A m \in 1 .. n : B[m] \in Int
      /\ \A m \in 2 .. n : B[m] = B[m - 1] + km[u[m - 1]][u[m]]
  <2>1. n \in Nat \ {0} /\ km \in Distances(n) /\ u \in [1 .. n -> 1 .. n]
    BY <1>1, <1>3
  <2> HIDE DEF u
  <2>2. QED
    BY <2>1, AlongIs
<1>8. Improves(km, t, i, k)
        <=> join + (IF k < n THEN km[t[i + 1]][t[k + 1]] ELSE 0)
              < cut + (IF k < n THEN km[t[k]][t[k + 1]] ELSE 0)
  BY <1>2 DEF Improves
<1>9. /\ i \in 1 .. n /\ i + 1 \in 1 .. n /\ k \in 1 .. n /\ i \in Int /\ k \in Int
      /\ i + 1 <= k /\ (k < n => k + 1 \in 1 .. n)
  OBVIOUS
<1>10. cut \in Int /\ join \in Int
  BY <1>2, <1>5, <1>9
<1> HIDE DEF u, A, B, cut, join
<1>11. \A m \in 1 .. i : B[m] = A[m]
  <2> DEFINE P == {m \in 1 .. i : B[m] = A[m]}
  <2>1. 1 \in P
    BY <1>6, <1>7
  <2>2. ASSUME NEW m \in 1 .. i - 1, m \in P PROVE m + 1 \in P
    <3>1. /\ m + 1 \in 2 .. n /\ (m + 1) - 1 = m /\ m \in 1 .. n /\ m + 1 \in 1 .. n
          /\ m \notin i + 1 .. k /\ m + 1 \notin i + 1 .. k /\ m + 1 \in 1 .. i
      BY <1>9
    <3>2. u[m] = t[m] /\ u[m + 1] = t[m + 1]
      BY <1>4, <3>1
    <3>3. A[m + 1] = A[m] + km[t[m]][t[m + 1]] /\ B[m + 1] = B[m] + km[u[m]][u[m + 1]]
      BY <1>6, <1>7, <3>1
    <3>4. QED
      BY <2>2, <3>1, <3>2, <3>3
  <2> HIDE DEF P
  <2>3. 1 .. i \subseteq P
    BY <1>9, <2>1, <2>2, RangeInduction
  <2>4. QED
    BY <2>3 DEF P
<1>12. A[i + 1] = A[i] + cut
  <2>1. i + 1 \in 2 .. n /\ (i + 1) - 1 = i
    BY <1>9
  <2>2. QED
    BY <1>6, <2>1 DEF cut
<1>13. \A m \in i + 1 .. k : B[m] = A[i] + join + (A[k] - A[i + 1 + k - m])
  <2> DEFINE P == {m \in i + 1 .. k : B[m] = A[i] + join + (A[k] - A[i + 1 + k - m])}
  <2>1. i + 1 \in P
    <3>1. /\ i + 1 \in 2 .. n /\ (i + 1) - 1 = i /\ i + 1 \in i + 1 .. k
          /\ i + 1 + k - (i + 1) = k /\ i \notin i + 1 .. k
      BY <1>9
    <3>2. u[i] = t[i] /\ u[i + 1] = t[k]
      BY <1>4, <1>9, <3>1
    <3>3. B[i + 1] = B[i] + km[u[i]][u[i + 1]] /\ B[i] = A[i]
      BY <1>7, <1>9, <1>11, <3>1
    <3>4. B[i + 1] = A[i] + join
      BY <3>2, <3>3 DEF join
    <3>5. A[k] \in Int /\ A[i] \in Int
      BY <1>6, <1>9
    <3>6. A[i] + join + (A[k] - A[k]) = A[i] + join
      BY <1>10, <3>5
    <3>7. QED
      BY <3>1, <3>4, <3>6
  <2>2. ASSUME NEW m \in i + 1 .. k - 1, m \in P PROVE m + 1 \in P
    <3> DEFINE a == i + k - m
    <3>1. /\ m + 1 \in 2 .. n /\ (m + 1) - 1 = m /\ m \in 1 .. n /\ m + 1 \in 1 .. n
          /\ m \in i + 1 .. k /\ m + 1 \in i + 1 .. k
          /\ i + 1 + k - m = a + 1 /\ i + 1 + k - (m + 1) = a
          /\ a \in 1 .. n /\ a + 1 \in 2 .. n /\ a + 1 \in 1 .. n /\ (a + 1) - 1 = a
      BY <1>9
    <3> HIDE DEF a
    <3>2. u[m] = t[a + 1] /\ u[m + 1] = t[a]
      BY <1>4, <3>1
    <3>3. A[a + 1] = A[a] + km[t[a]][t[a + 1]]
      BY <1>6, <3>1
    <3>4. B[m + 1] = B[m] + km[t[a + 1]][t[a]]
      BY <1>7, <3>1, <3>2
    <3>5. km[t[a + 1]][t[a]] = km[t[a]][t[a + 1]] /\ km[t[a]][t[a + 1]] \in Int
      BY <1>1, <1>2, <1>5, <3>1
    <3>6. B[m] = A[i] + join + (A[k] - A[a + 1])
      BY <2>2, <3>1
    <3>7. A[i] \in Int /\ A[k] \in Int /\ A[a] \in Int /\ A[a + 1] \in Int
      BY <1>6, <1>9, <3>1
    <3>8. B[m + 1] = A[i] + join + (A[k] - A[a])
      BY <1>10, <3>3, <3>4, <3>5, <3>6, <3>7
    <3>9. QED
      BY <3>1, <3>8
  <2> HIDE DEF P
  <2>3. i + 1 .. k \subseteq P
    BY <1>9, <2>1, <2>2, RangeInduction
  <2>4. QED
    BY <2>3 DEF P
<1>14. B[k] = A[k] + join - cut
  <2>1. k \in i + 1 .. k /\ i + 1 + k - k = i + 1
    BY <1>9
  <2>2. B[k] = A[i] + join + (A[k] - A[i + 1])
    BY <1>13, <2>1
  <2>3. QED
    BY <1>6, <1>9, <1>10, <1>12, <2>2
<1>15. CASE k = n
  <2>1. PathLength(km, u, n) = A[n] + join - cut /\ PathLength(km, t, n) = A[n]
    BY <1>14, <1>15 DEF PathLength, A, B
  <2>2. A[n] \in Int
    BY <1>6, <1>9, <1>15
  <2>3. Improves(km, t, i, k) <=> join + 0 < cut + 0
    BY <1>8, <1>15
  <2>4. QED
    BY <1>10, <2>1, <2>2, <2>3 DEF u
<1>16. CASE k # n
  <2> DEFINE old == km[t[k]][t[k + 1]]
             new == km[t[i + 1]][t[k + 1]]
  <2>1. k < n /\ k + 1 \in 2 .. n /\ k + 1 \in 1 .. n /\ (k + 1) - 1 = k
        /\ k + 1 \notin i + 1 .. k /\ k \in i + 1 .. k /\ i + 1 + k - k = i + 1
    BY <1>9, <1>16
  <2>2. old \in Int /\ new \in Int
    BY <1>2, <1>5, <1>9, <2>1
  <2>3. u[k] = t[i + 1] /\ u[k + 1] = t[k + 1]
    BY <1>4, <1>9, <2>1
  <2>4. A[k + 1] = A[k] + old /\ B[k + 1] = B[k] + new
    BY <1>6, <1>7, <2>1, <2>3
  <2> HIDE DEF old, new
  <2> DEFINE gain == join + new - cut - old
  <2>5. gain \in Int /\ A[k] \in Int
    BY <1>6, <1>9, <1>10, <2>2
  <2> DEFINE P == {m \in k + 1 .. n : B[m] = A[m] + gain}
  <2>6. k + 1 \in P
    <3>1. B[k + 1] = A[k + 1] + gain
      BY <1>10, <1>14, <2>2, <2>4, <2>5
    <3>2. QED
      BY <2>1, <3>1
  <2>7. ASSUME NEW m \in k + 1 .. n - 1, m \in P PROVE m + 1 \in P
    <3>1. /\ m + 1 \in 2 .. n /\ (m + 1) - 1 = m /\ m \in 1 .. n /\ m + 1 \in 1 .. n
          /\ m \notin i + 1 .. k /\ m + 1 \notin i + 1 .. k /\ m + 1 \in k + 1 .. n
      BY <1>9
    <3>2. u[m] = t[m] /\ u[m + 1] = t[m + 1]
      BY <1>4, <3>1
    <3>3. A[m + 1] = A[m] + km[t[m]][t[m + 1]] /\ B[m + 1] = B[m] + km[u[m]][u[m + 1]]
      BY <1>6, <1>7, <3>1
    <3>4. km[t[m]][t[m + 1]] \in Int /\ A[m] \in Int
      BY <1>2, <1>5, <1>6, <3>1
    <3> HIDE DEF gain
    <3>5. B[m] = A[m] + gain
      BY <2>7
    <3>6. B[m + 1] = A[m + 1] + gain
      BY <2>5, <3>2, <3>3, <3>4, <3>5
    <3>7. QED
      BY <3>1, <3>6
  <2>8. n \in P
    <3> HIDE DEF P
    <3>1. k + 1 .. n \subseteq P
      BY <1>9, <2>6, <2>7, RangeInduction
    <3>2. QED
      BY <2>1, <3>1
  <2>9. A[n] \in Int /\ B[n] = A[n] + gain
    <3>1. n \in 1 .. n
      BY <2>1
    <3>2. QED
      BY <1>6, <2>8, <3>1
  <2>10. Improves(km, t, i, k) <=> join + new < cut + old
    BY <1>8, <2>1 DEF old, new
  <2>11. PathLength(km, u, n) = A[n] + gain /\ PathLength(km, t, n) = A[n]
    BY <2>9 DEF PathLength, A, B
  <2>12. QED
    BY <1>10, <2>2, <2>5, <2>9, <2>10, <2>11 DEF u
<1>17. QED
  BY <1>15, <1>16

(* No reversal at edge i shortens the path any more; none at all does.      *)
SettledAt(km, t, i, n) == \A k \in i + 2 .. n : ~Improves(km, t, i, k)

Settled(km, t, n) == \A i \in 1 .. n - 2 : SettledAt(km, t, i, n)

(* The inner loop, a round and all of them either find nothing to improve   *)
(* and leave the path alone, or shorten it.                                 *)
LEMMA SweepFromShortens ==
  ASSUME NEW n \in Nat, NEW km \in Symmetric(n), NEW t \in Paths(n, n), NEW i \in 1 .. n - 2
  PROVE  LET u == SweepFrom(km, i, t)
         IN /\ u \in Paths(n, n)
            /\ \/ SettledAt(km, t, i, n) /\ u = t
               \/ ~SettledAt(km, t, i, n) /\ PathLength(km, u, n) < PathLength(km, t, n)
<1> DEFINE step == [k \in i + 2 .. n |-> [u \in Seq(1 .. n) |->
                      IF Improves(km, u, i, k) THEN ReverseBetween(u, i, k) ELSE u]]
           Same(u, k) == u = t /\ \A j \in i + 2 .. k : ~Improves(km, t, i, j)
           Less(u) == PathLength(km, u, n) < PathLength(km, t, n) /\ ~SettledAt(km, t, i, n)
           I == [k \in i + 1 .. n |-> {u \in Paths(n, n) : Same(u, k) \/ Less(u)}]
           v == Loop(step, t, i + 2, n)
<1>1. Len(t) = n /\ DOMAIN t = 1 .. n
  BY PathMembers
<1>2. ASSUME NEW u \in Paths(n, n) PROVE PathLength(km, u, n) \in Int
  <2>1. i \in 1 .. n - 2 /\ i + 2 \in i + 2 .. n
    OBVIOUS
  <2>2. QED
    BY <2>1, ImprovesIffShorter
<1>3. ASSUME NEW k \in i + 2 .. n, NEW u \in I[k - 1] PROVE step[k][u] \in I[k]
  <2>1. /\ u \in Paths(n, n) /\ (Same(u, k - 1) \/ Less(u))
        /\ I[k] = {w \in Paths(n, n) : Same(w, k) \/ Less(w)}
        /\ i + 2 .. k = (i + 2 .. k - 1) \cup {k}
    OBVIOUS
  <2>2. u \in Seq(1 .. n)
    BY <2>1, PathMembers
  <2> HIDE DEF I
  <2>3. step[k][u] = IF Improves(km, u, i, k) THEN ReverseBetween(u, i, k) ELSE u
    BY <2>2
  <2> HIDE DEF step
  <2>4. CASE Improves(km, u, i, k)
    <3> DEFINE w == ReverseBetween(u, i, k)
    <3>1. /\ w \in Paths(n, n)
          /\ PathLength(km, w, n) < PathLength(km, u, n)
          /\ PathLength(km, u, n) \in Int /\ PathLength(km, w, n) \in Int
      BY <2>1, <2>4, ReverseBetweenIs, ImprovesIffShorter
    <3> HIDE DEF w
    <3>2. Less(w)
      <4>1. CASE Same(u, k - 1)
        <5>1. ~SettledAt(km, t, i, n)
          BY <2>4, <4>1 DEF SettledAt
        <5>2. QED
          BY <3>1, <4>1, <5>1
      <4>2. CASE Less(u)
        BY <1>2, <3>1, <4>2
      <4>3. QED
        BY <2>1, <4>1, <4>2
    <3>3. QED
      BY <2>1, <2>3, <2>4, <3>1, <3>2 DEF w
  <2>5. CASE ~Improves(km, u, i, k)
    <3>1. Same(u, k) \/ Less(u)
      BY <2>1, <2>5
    <3>2. QED
      BY <2>1, <2>3, <2>5, <3>1
  <2>6. QED
    BY <2>4, <2>5
<1>4. v \in I[n]
  <2>1. t \in I[i + 1] /\ (i + 2) - 1 = i + 1 /\ (i + 2) - 1 <= n /\ i + 2 \in Int /\ n \in Int
    OBVIOUS
  <2> HIDE DEF step, I
  <2>2. QED
    BY <1>3, <2>1, LoopInvariant
<1>5. SweepFrom(km, i, t) = v
  BY <1>1 DEF SweepFrom
<1> HIDE DEF v
<1>6. v \in Paths(n, n) /\ (Same(v, n) \/ Less(v))
  BY <1>4
<1>7. QED
  BY <1>5, <1>6 DEF SettledAt

LEMMA SweepShortens ==
  ASSUME NEW n \in Nat, n > 2, NEW km \in Symmetric(n), NEW t \in Paths(n, n)
  PROVE  LET u == Sweep(km, t)
         IN /\ u \in Paths(n, n)
            /\ \/ Settled(km, t, n) /\ u = t
               \/ ~Settled(km, t, n) /\ PathLength(km, u, n) < PathLength(km, t, n)
<1> DEFINE step == [i \in 1 .. n - 2 |-> [u \in Seq(1 .. n) |-> SweepFrom(km, i, u)]]
           Same(u, i) == u = t /\ \A j \in 1 .. i : SettledAt(km, t, j, n)
           Less(u) == PathLength(km, u, n) < PathLength(km, t, n) /\ ~Settled(km, t, n)
           I == [i \in 0 .. n - 2 |-> {u \in Paths(n, n) : Same(u, i) \/ Less(u)}]
           v == Loop(step, t, 1, n - 2)
<1>1. Len(t) = n /\ DOMAIN t = 1 .. n
  BY PathMembers
<1>2. ASSUME NEW u \in Paths(n, n) PROVE PathLength(km, u, n) \in Int
  <2>1. 1 \in 1 .. n - 2 /\ 1 + 2 \in 1 + 2 .. n
    OBVIOUS
  <2>2. QED
    BY <2>1, ImprovesIffShorter
<1>3. ASSUME NEW i \in 1 .. n - 2, NEW u \in I[i - 1] PROVE step[i][u] \in I[i]
  <2>1. /\ u \in Paths(n, n) /\ (Same(u, i - 1) \/ Less(u))
        /\ I[i] = {w \in Paths(n, n) : Same(w, i) \/ Less(w)}
        /\ 1 .. i = (1 .. i - 1) \cup {i}
    OBVIOUS
  <2>2. u \in Seq(1 .. n)
    BY <2>1, PathMembers
  <2> HIDE DEF I
  <2> DEFINE w == SweepFrom(km, i, u)
  <2>3. step[i][u] = w
    BY <2>2
  <2>4. /\ w \in Paths(n, n)
        /\ \/ SettledAt(km, u, i, n) /\ w = u
           \/ ~SettledAt(km, u, i, n) /\ PathLength(km, w, n) < PathLength(km, u, n)
    BY <2>1, SweepFromShortens
  <2>5. PathLength(km, t, n) \in Int /\ PathLength(km, u, n) \in Int /\ PathLength(km, w, n) \in Int
    BY <1>2, <2>1, <2>4
  <2> HIDE DEF step, w
  <2>6. CASE SettledAt(km, u, i, n) /\ w = u
    <3>1. Same(w, i) \/ Less(w)
      BY <2>1, <2>6
    <3>2. QED
      BY <2>1, <2>3, <2>4, <3>1
  <2>7. CASE ~SettledAt(km, u, i, n) /\ PathLength(km, w, n) < PathLength(km, u, n)
    <3>1. Less(w)
      <4>1. CASE Same(u, i - 1)
        <5>1. ~Settled(km, t, n)
          BY <2>7, <4>1 DEF Settled
        <5>2. QED
          BY <2>7, <4>1, <5>1
      <4>2. CASE Less(u)
        BY <2>5, <2>7, <4>2
      <4>3. QED
        BY <2>1, <4>1, <4>2
    <3>2. QED
      BY <2>1, <2>3, <2>4, <3>1
  <2>8. QED
    BY <2>4, <2>6, <2>7
<1>4. v \in I[n - 2]
  <2>1. t \in I[0] /\ 1 - 1 = 0 /\ 1 - 1 <= n - 2 /\ n - 2 \in Int
    OBVIOUS
  <2> HIDE DEF step, I
  <2>2. QED
    BY <1>3, <2>1, LoopInvariant
<1>5. Sweep(km, t) = v
  BY <1>1 DEF Sweep
<1> HIDE DEF v
<1>6. v \in Paths(n, n) /\ (Same(v, n - 2) \/ Less(v))
  <2>1. n - 2 \in 0 .. n - 2
    OBVIOUS
  <2>2. QED
    BY <1>4, <2>1
<1>7. QED
  BY <1>5, <1>6 DEF Settled

(* _two_opt never makes the path longer, for any distances that are the     *)
(* same in both directions; and it ends at a path no reversal shortens, or  *)
(* every one of its rounds has shortened the path by one at least.          *)
THEOREM TwoOptShortens ==
  ASSUME NEW n \in Nat, n > 2, NEW km \in Symmetric(n), NEW t \in Paths(n, n)
  PROVE  LET u == TwoOpt(km, t)
         IN /\ PathLength(km, t, n) \in Int /\ PathLength(km, u, n) \in Int
            /\ PathLength(km, u, n) <= PathLength(km, t, n)
            /\ \/ Settled(km, u, n)
               \/ PathLength(km, u, n) + MaxRounds <= PathLength(km, t, n)
<1> DEFINE L(u) == PathLength(km, u, n)
           step == [round \in 1 .. MaxRounds |-> [u \in Seq(1 .. n) |-> Sweep(km, u)]]
           Good(u, round) == L(u) <= L(t) /\ (Settled(km, u, n) \/ L(u) + round <= L(t))
           I == [round \in 0 .. MaxRounds |-> {u \in Paths(n, n) : Good(u, round)}]
           v == Loop(step, t, 1, MaxRounds)
<1>1. Len(t) = n /\ DOMAIN t = 1 .. n
  BY PathMembers
<1>2. ASSUME NEW u \in Paths(n, n) PROVE L(u) \in Int
  <2>1. 1 \in 1 .. n - 2 /\ 1 + 2 \in 1 + 2 .. n
    OBVIOUS
  <2>2. QED
    BY <2>1, ImprovesIffShorter
<1> HIDE DEF L
<1>3. ASSUME NEW round \in 1 .. MaxRounds, NEW u \in I[round - 1]
      PROVE  step[round][u] \in I[round]
  <2>1. /\ u \in Paths(n, n) /\ Good(u, round - 1)
        /\ I[round] = {w \in Paths(n, n) : Good(w, round)}
    BY DEF MaxRounds
  <2>2. u \in Seq(1 .. n)
    BY <2>1, PathMembers
  <2> HIDE DEF I
  <2> DEFINE w == Sweep(km, u)
  <2>3. step[round][u] = w
    BY <2>2
  <2>4. /\ w \in Paths(n, n)
        /\ \/ Settled(km, u, n) /\ w = u
           \/ ~Settled(km, u, n) /\ L(w) < L(u)
    BY <2>1, SweepShortens DEF L
  <2>5. L(t) \in Int /\ L(u) \in Int /\ L(w) \in Int /\ round \in Int
    BY <1>2, <2>1, <2>4
  <2> HIDE DEF step, w
  <2>6. Good(w, round)
    BY <2>1, <2>4, <2>5
  <2>7. QED
    BY <2>1, <2>3, <2>4, <2>6
<1>4. v \in I[MaxRounds]
  <2>1. t \in I[0] /\ 1 - 1 = 0 /\ 1 - 1 <= MaxRounds /\ MaxRounds \in Int
    BY <1>2 DEF MaxRounds
  <2> HIDE DEF step, I
  <2>2. QED
    BY <1>3, <2>1, LoopInvariant
<1>5. TwoOpt(km, t) = v
  BY <1>1 DEF TwoOpt
<1> HIDE DEF v
<1>6. v \in Paths(n, n) /\ Good(v, MaxRounds)
  <2>1. MaxRounds \in 0 .. MaxRounds
    BY DEF MaxRounds
  <2>2. QED
    BY <1>4, <2>1
<1>7. QED
  BY <1>2, <1>5, <1>6 DEF L

(* A path of n places over edges of at most most is at most n - 1 of them.  *)
LEMMA LengthBounds ==
  ASSUME NEW n \in Nat \ {0}, NEW most \in Nat, NEW km \in Distances(n),
         \A p, q \in 1 .. n : km[p][q] \in 0 .. most, NEW t \in Paths(n, n)
  PROVE  PathLength(km, t, n) \in 0 .. most * (n - 1)
<1> DEFINE A == Along(km, t, n)
           P == {m \in 1 .. n : A[m] \in 0 .. most * (m - 1)}
<1>1. t \in [1 .. n -> 1 .. n]
  BY DEF Paths
<1>2. /\ A[1] = 0 /\ \A m \in 1 .. n : A[m] \in Int
      /\ \A m \in 2 .. n : A[m] = A[m - 1] + km[t[m - 1]][t[m]]
  BY <1>1, AlongIs
<1> HIDE DEF A
<1>3. 1 \in P
  <2>1. most * (1 - 1) = 0 /\ 1 \in 1 .. n
    OBVIOUS
  <2>2. QED
    BY <1>2, <2>1
<1>4. ASSUME NEW m \in 1 .. n - 1, m \in P PROVE m + 1 \in P
  <2> DEFINE edge == km[t[m]][t[m + 1]]
             far == most * (m - 1)
  <2>1. /\ m + 1 \in 2 .. n /\ (m + 1) - 1 = m /\ m \in 1 .. n /\ m + 1 \in 1 .. n
        /\ t[m] \in 1 .. n /\ t[m + 1] \in 1 .. n
    BY <1>1
  <2>2. edge \in 0 .. most /\ A[m + 1] = A[m] + edge /\ A[m] \in 0 .. far
    BY <1>2, <1>4, <2>1
  <2>3. far \in Int /\ most * m = far + most
    OBVIOUS
  <2> HIDE DEF edge, far
  <2>4. A[m + 1] \in 0 .. most * m
    BY <2>2, <2>3
  <2>5. QED
    BY <2>1, <2>4
<1>5. n \in P
  <2> HIDE DEF P
  <2>1. 1 .. n \subseteq P
    BY <1>3, <1>4, RangeInduction
  <2>2. QED
    BY <2>1
<1>6. QED
  BY <1>5 DEF PathLength, A

LEMMA BlocksBound ==
  ASSUME placement \in Placements
  PROVE  /\ Blocks \in Symmetric(Size)
         /\ Width - 1 \in Nat
         /\ \A p, q \in 1 .. Size : Blocks[p][q] \in 0 .. 2 * (Width - 1)
<1> DEFINE G == Grid
<1>1. Size \in Nat \ {0} /\ Width \in Nat /\ placement \in [1 .. Size -> G]
  BY GridAssumption DEF Placements
<1>2. \A p \in G : p[1] \in 0 .. Width - 1 /\ p[2] \in 0 .. Width - 1
  BY DEF Grid
<1>3. Width - 1 \in Nat
  <2> HIDE DEF G
  <2>1. 1 \in 1 .. Size
    BY <1>1
  <2>2. placement[1] \in G
    BY <1>1, <2>1
  <2>3. placement[1][1] \in 0 .. Width - 1
    BY <1>2, <2>2
  <2>4. QED
    BY <1>1, <2>3
<1>4. ASSUME NEW p \in G, NEW q \in G
      PROVE  CityBlocks(p, q) \in 0 .. 2 * (Width - 1) /\ CityBlocks(p, q) = CityBlocks(q, p)
  <2>1. p[1] \in 0 .. Width - 1 /\ p[2] \in 0 .. Width - 1
        /\ q[1] \in 0 .. Width - 1 /\ q[2] \in 0 .. Width - 1
    BY <1>2
  <2>2. ASSUME NEW a \in 0 .. Width - 1, NEW b \in 0 .. Width - 1
        PROVE  Distance(a, b) \in 0 .. Width - 1 /\ Distance(a, b) = Distance(b, a)
    BY <1>3 DEF Distance
  <2>3. /\ Distance(p[1], q[1]) \in 0 .. Width - 1 /\ Distance(p[2], q[2]) \in 0 .. Width - 1
        /\ Distance(p[1], q[1]) = Distance(q[1], p[1])
        /\ Distance(p[2], q[2]) = Distance(q[2], p[2])
    BY <2>1, <2>2
  <2>4. QED
    BY <1>3, <2>3 DEF CityBlocks
<1> HIDE DEF G
<1>5. \A p \in 1 .. Size : placement[p] \in G
  BY <1>1
<1>6. \A p, q \in 1 .. Size : Blocks[p][q] = CityBlocks(placement[p], placement[q])
  BY DEF Blocks
<1>7. \A p, q \in 1 .. Size : Blocks[p][q] = Blocks[q][p] /\ Blocks[p][q] \in 0 .. 2 * (Width - 1)
  BY <1>4, <1>5, <1>6
<1>8. Blocks \in Distances(Size)
  BY BlocksAre
<1>9. QED
  BY <1>3, <1>7, <1>8 DEF Symmetric

(* When a day's path cannot be as long as there are rounds, _two_opt ends   *)
(* at a tour that no reversal shortens: the bound is not what ends it.      *)
THEOREM ToursSettle ==
  ASSUME 2 * (Width - 1) * (Size - 1) < MaxRounds
  PROVE  MCSpec => []NoImprovingReversal
<1> DEFINE PInv == placement \in {<< >>} \cup Placements
<1>1. MCInit => PInv
  BY DEF MCInit
<1>2. PInv /\ [MCNext]_<<vars, placement>> => PInv'
  BY DEF MCNext, Placements, Grid
<1>3. PInv => NoImprovingReversal
  <2>1. SUFFICES ASSUME placement \in Placements PROVE NoImprovingReversal
    BY DEF NoImprovingReversal
  <2> DEFINE tour == TourOf(Blocks, Size)
             path == NearestNeighbour(Blocks, Size)
             most == 2 * (Width - 1)
             L(t) == PathLength(Blocks, t, Size)
  <2>2. Size \in Nat \ {0} /\ Width \in Nat
    BY GridAssumption
  <2>3. /\ Blocks \in Symmetric(Size) /\ Blocks \in Distances(Size) /\ most \in Nat
        /\ \A p, q \in 1 .. Size : Blocks[p][q] \in 0 .. most
    BY <2>1, BlocksAre, BlocksBound
  <2>4. tour \in Paths(Size, Size) /\ path \in Paths(Size, Size)
    BY <2>2, <2>3, TourOfIs, NearestNeighbourIs
  <2>5. DOMAIN tour = 1 .. Size
    BY <2>2, <2>4, PathMembers
  <2>6. Size > 2 => Settled(Blocks, tour, Size)
    <3>1. SUFFICES ASSUME Size > 2 PROVE Settled(Blocks, tour, Size)
      OBVIOUS
    <3>2. tour = TwoOpt(Blocks, path)
      BY <2>2, <3>1 DEF TourOf
    <3> HIDE DEF tour, path, most
    <3>3. \A t \in Paths(Size, Size) : L(t) \in 0 .. most * (Size - 1)
      BY <2>2, <2>3, LengthBounds
    <3> HIDE DEF L
    <3>4. L(path) < MaxRounds /\ L(tour) >= 0 /\ L(tour) \in Int /\ L(path) \in Int
      <4>1. most * (Size - 1) < MaxRounds /\ most * (Size - 1) \in Int
        BY <2>2, <2>3 DEF most
      <4>2. MaxRounds \in Int
        BY DEF MaxRounds
      <4> DEFINE bound == most * (Size - 1)
      <4>3. L(path) \in 0 .. bound /\ L(tour) \in 0 .. bound
        BY <2>4, <3>3
      <4> HIDE DEF bound
      <4>4. QED
        BY <4>1, <4>2, <4>3 DEF bound
    <3>5. Settled(Blocks, tour, Size) \/ L(tour) + MaxRounds <= L(path)
      BY <2>2, <2>3, <2>4, <3>1, <3>2, TwoOptShortens DEF L
    <3>6. QED
      BY <3>4, <3>5 DEF MaxRounds
  <2> HIDE DEF tour
  <2>7. ASSUME NEW i \in 1 .. Size, NEW k \in 1 .. Size, i + 2 <= k
        PROVE  ~Improves(Blocks, tour, i, k)
    <3>1. Size > 2 /\ i \in 1 .. Size - 2 /\ k \in i + 2 .. Size
      BY <2>2, <2>7
    <3>2. QED
      BY <2>6, <3>1 DEF Settled, SettledAt
  <2>8. QED
    BY <2>5, <2>7 DEF NoImprovingReversal, tour
<1>4. QED
  BY <1>1, <1>2, <1>3, PTL DEF MCSpec

--------------------------------------------------------------------------------
(* Places and orders of them.                                               *)

LEMMA Places ==
  ASSUME given \in Given
  PROVE  /\ Len(given) \in Nat /\ DOMAIN given = 1 .. Len(given)
         /\ IsFiniteSet(DOMAIN given) /\ DOMAIN given \in SUBSET Int
         /\ \A id \in DOMAIN given :
              Day(id) \in Nat \ {0} /\ Day(id) \in Days /\ given[id].at \in Map
         /\ Days \subseteq Nat /\ IsFiniteSet(Days)
         /\ \A a, b \in DOMAIN given :
              Km(given[a], given[b]) \in Nat /\ Minutes(a, b) \in Nat \ {0}
<1> DEFINE R == [day : Nat \ {0}, at : Map, pinned : BOOLEAN]
<1>1. given \in Seq(R)
  BY ItineraryAssumption
<1>2. \A r \in R : r.day \in Nat \ {0} /\ r.at \in Map
  OBVIOUS
<1> HIDE DEF R
<1>3. /\ Len(given) \in Nat /\ DOMAIN given = 1 .. Len(given)
      /\ IsFiniteSet(DOMAIN given) /\ DOMAIN given \in SUBSET Int
      /\ \A id \in DOMAIN given : given[id] \in R
  BY <1>1, Positions
<1>4. \A id \in DOMAIN given : Day(id) \in Nat \ {0} /\ Day(id) \in Days /\ given[id].at \in Map
  BY <1>2, <1>3 DEF Day, Days
<1>5. Days \subseteq Nat
  BY <1>4 DEF Days
<1>6. IsFiniteSet(Days)
  <2> DEFINE f == [id \in DOMAIN given |-> Day(id)]
  <2>1. f \in Surjection(DOMAIN given, Days)
    BY DEF Surjection, Days
  <2>2. QED
    BY <1>3, <2>1, FS_Surjection
<1>7. ASSUME NEW a \in DOMAIN given, NEW b \in DOMAIN given
      PROVE  Km(given[a], given[b]) \in Nat /\ Minutes(a, b) \in Nat \ {0}
  <2>1. given[a].at \in Map /\ given[b].at \in Map
    BY <1>4
  <2>2. Straight \in [Map -> [Map -> Nat]] /\ Ride \in [Map -> [Map -> Nat]]
    BY ItineraryAssumption
  <2>3. Straight[given[a].at][given[b].at] \in Nat /\ Ride[given[a].at][given[b].at] \in Nat
    BY <2>1, <2>2
  <2>4. QED
    BY <2>3 DEF Km, Minutes
<1>8. QED
  BY <1>3, <1>4, <1>5, <1>6, <1>7

(* Orders of places without repetition, the days ascending.                 *)
Orders ==
  {o \in Seq(DOMAIN given) :
     /\ \A i, k \in DOMAIN o : o[i] = o[k] => i = k
     /\ \A i, k \in DOMAIN o : i < k => Day(o[i]) <= Day(o[k])}

Complete(o) == \A id \in DOMAIN given : \E i \in DOMAIN o : o[i] = id

(* A list without repetition is as long as it has members.                  *)
LEMMA Lengths ==
  ASSUME NEW S, NEW o \in Seq(S), \A i, k \in DOMAIN o : o[i] = o[k] => i = k
  PROVE  IsFiniteSet(Range(o)) /\ Cardinality(Range(o)) = Len(o)
<1>1. /\ DOMAIN o = 1 .. Len(o) /\ Len(o) \in Nat
      /\ IsFiniteSet(DOMAIN o) /\ Cardinality(DOMAIN o) = Len(o)
  BY Positions
<1>2. o \in [DOMAIN o -> Range(o)]
  <2>1. o = [i \in 1 .. Len(o) |-> o[i]]
    BY LenProperties
  <2>2. QED
    BY <1>1, <2>1 DEF Range
<1>3. o \in Surjection(DOMAIN o, Range(o))
  BY <1>2 DEF Surjection, Range
<1>4. o \in Injection(DOMAIN o, Range(o))
  BY <1>2 DEF Injection, IsInjective
<1>5. QED
  BY <1>1, <1>3, <1>4, FS_Surjection

LEMMA OrdersAre ==
  ASSUME given \in Given, NEW o \in Orders
  PROVE  /\ o \in Seq(DOMAIN given) /\ DOMAIN o = 1 .. Len(o) /\ Len(o) \in Nat
         /\ DOMAIN o \in SUBSET Int
         /\ \A i \in DOMAIN o : o[i] \in DOMAIN given /\ Day(o[i]) \in Nat
         /\ \A i, k \in DOMAIN o : o[i] = o[k] => i = k
         /\ \A i, k \in DOMAIN o : i < k => Day(o[i]) <= Day(o[k])
<1>1. o \in Seq(DOMAIN given)
  BY DEF Orders
<1>2. /\ DOMAIN o = 1 .. Len(o) /\ Len(o) \in Nat /\ DOMAIN o \in SUBSET Int
      /\ \A i \in DOMAIN o : o[i] \in DOMAIN given
  BY <1>1, Positions
<1>3. \A i \in DOMAIN o : Day(o[i]) \in Nat
  BY <1>2, Places
<1>4. QED
  BY <1>1, <1>2, <1>3 DEF Orders

(* The places of one day, each once.                                        *)
LEMMA DayOrderIs ==
  ASSUME given \in Given, NEW d \in Days
  PROVE  /\ DayOrder(d) \in Seq(DOMAIN given)
         /\ \A i, k \in DOMAIN DayOrder(d) : DayOrder(d)[i] = DayOrder(d)[k] => i = k
         /\ \A i \in DOMAIN DayOrder(d) : Day(DayOrder(d)[i]) = d
         /\ \A id \in PlacesOn(d) : \E i \in DOMAIN DayOrder(d) : DayOrder(d)[i] = id
<1> DEFINE P == PlacesOn(d)
           at == InOrder(P)
           n == Cardinality(P)
           km == [p \in DOMAIN at |-> [q \in DOMAIN at |-> Km(given[at[p]], given[at[q]])]]
           tour == TourOf(km, n)
           o == [i \in DOMAIN tour |-> at[tour[i]]]
<1>1. P \in SUBSET DOMAIN given /\ P \in SUBSET Int /\ IsFiniteSet(P) /\ P # {}
  <2>1. P \in SUBSET DOMAIN given
    BY DEF PlacesOn
  <2>2. P # {}
    BY DEF PlacesOn, Days
  <2>3. QED
    BY <2>1, <2>2, Places, FS_Subset
<1>2. n \in Nat \ {0}
  BY <1>1, FS_CardinalityType, FS_EmptySet
<1>3. /\ at \in [1 .. n -> P]
      /\ \A i \in P : \E k \in 1 .. n : at[k] = i
      /\ \A i, k \in 1 .. n : i < k => at[i] < at[k]
  BY <1>1, InOrderIs
<1>4. at \in Seq(P) /\ Len(at) = n /\ DOMAIN at = 1 .. n
  BY <1>2, <1>3, FunctionIsList
<1>5. \A i, k \in 1 .. n : at[i] = at[k] => i = k
  <2>1. \A i \in 1 .. n : at[i] \in Int
    BY <1>1, <1>3
  <2>2. QED
    BY <1>2, <1>3, <2>1
<1>6. km \in Distances(n)
  <2>1. \A p, q \in 1 .. n : Km(given[at[p]], given[at[q]]) \in Int
    <3>1. \A p \in 1 .. n : at[p] \in DOMAIN given
      BY <1>1, <1>3
    <3>2. \A a, b \in DOMAIN given : Km(given[a], given[b]) \in Int
      BY Places
    <3>3. QED
      BY <3>1, <3>2
  <2>2. QED
    BY <1>4, <2>1 DEF Distances
<1>7. DayOrder(d) = o
  BY <1>4 DEF DayOrder
<1>8. tour \in Paths(n, n)
  <2> HIDE DEF km, n
  <2>1. QED
    BY <1>2, <1>6, TourOfIs
<1> HIDE DEF tour
<1>9. /\ DOMAIN tour = 1 .. n /\ \A i \in 1 .. n : tour[i] \in 1 .. n
      /\ \A i, k \in 1 .. n : tour[i] = tour[k] => i = k
      /\ \A q \in 1 .. n : \E i \in 1 .. n : tour[i] = q
  <2>1. \A i, k \in 1 .. n : tour[i] = tour[k] => i = k
    BY <1>8 DEF Paths
  <2>2. QED
    BY <1>2, <1>8, <2>1, PathMembers, PathsVisitAll
<1>10. o \in [1 .. n -> DOMAIN given] /\ \A i \in 1 .. n : o[i] = at[tour[i]] /\ o[i] \in P
  BY <1>1, <1>3, <1>9
<1>11. o \in Seq(DOMAIN given) /\ DOMAIN o = 1 .. n
  BY <1>2, <1>10, FunctionIsList
<1>12. \A i, k \in 1 .. n : o[i] = o[k] => i = k
  BY <1>5, <1>9, <1>10
<1>13. \A i \in 1 .. n : Day(o[i]) = d
  BY <1>10 DEF PlacesOn
<1>14. \A id \in P : \E i \in 1 .. n : o[i] = id
  <2>1. ASSUME NEW id \in P PROVE \E i \in 1 .. n : o[i] = id
    <3>1. PICK k \in 1 .. n : at[k] = id
      BY <1>3
    <3>2. PICK i \in 1 .. n : tour[i] = k
      BY <1>9
    <3>3. QED
      BY <1>10, <3>1, <3>2
  <2>2. QED
    BY <2>1
<1> HIDE DEF o
<1>15. QED
  BY <1>7, <1>11, <1>12, <1>13, <1>14

(* _order_places: every place once, the days ascending.                     *)
LEMMA OrderedByDayIs ==
  ASSUME given \in Given
  PROVE  OrderedByDay \in Orders /\ Complete(OrderedByDay)
<1> DEFINE days == InOrder(Days)
           N == Cardinality(Days)
           step == [m \in DOMAIN days |-> [o \in Seq(DOMAIN given) |-> o \o DayOrder(days[m])]]
           I == [m \in 0 .. N |->
                   {o \in Orders :
                      /\ \A i \in DOMAIN o : \E x \in 1 .. m : Day(o[i]) = days[x]
                      /\ \A x \in 1 .. m : \A id \in PlacesOn(days[x]) :
                           \E i \in DOMAIN o : o[i] = id}]
<1>1. /\ N \in Nat /\ days \in [1 .. N -> Days]
      /\ \A d \in Days : \E x \in 1 .. N : days[x] = d
      /\ \A x, y \in 1 .. N : x < y => days[x] < days[y]
      /\ \A x \in 1 .. N : days[x] \in Nat
  <2>1. Days \in SUBSET Int /\ IsFiniteSet(Days) /\ Days \subseteq Nat
    BY Places
  <2>2. QED
    BY <2>1, InOrderIs
<1>2. days \in Seq(Days) /\ Len(days) = N /\ DOMAIN days = 1 .. N
  BY <1>1, FunctionIsList
<1> HIDE DEF days, N
<1>3. << >> \in I[0]
  <2>1. << >> \in Orders
    BY DEF Orders
  <2>2. 0 \in 0 .. N
    BY <1>1
  <2>3. DOMAIN << >> = {} /\ 1 .. 0 = {}
    OBVIOUS
  <2>4. QED
    BY <2>1, <2>2, <2>3
<1>4. ASSUME NEW m \in 1 .. N, NEW o \in I[m - 1] PROVE step[m][o] \in I[m]
  <2> DEFINE u == DayOrder(days[m])
             w == o \o u
  <2>1. m \in Nat \ {0} /\ m <= N /\ m - 1 \in 0 .. N /\ m \in 0 .. N
    BY <1>1
  <2>2. /\ o \in Orders
        /\ \A i \in DOMAIN o : \E x \in 1 .. m - 1 : Day(o[i]) = days[x]
        /\ \A x \in 1 .. m - 1 : \A id \in PlacesOn(days[x]) : \E i \in DOMAIN o : o[i] = id
    BY <1>4, <2>1
  <2>3. /\ u \in Seq(DOMAIN given)
        /\ \A i, k \in DOMAIN u : u[i] = u[k] => i = k
        /\ \A i \in DOMAIN u : Day(u[i]) = days[m]
        /\ \A id \in PlacesOn(days[m]) : \E i \in DOMAIN u : u[i] = id
    <3>1. days[m] \in Days
      BY <1>1
    <3>2. QED
      BY <3>1, DayOrderIs
  <2>4. /\ o \in Seq(DOMAIN given) /\ DOMAIN o = 1 .. Len(o) /\ Len(o) \in Nat
        /\ \A i \in DOMAIN o : o[i] \in DOMAIN given /\ Day(o[i]) \in Nat
        /\ \A i, k \in DOMAIN o : o[i] = o[k] => i = k
        /\ \A i, k \in DOMAIN o : i < k => Day(o[i]) <= Day(o[k])
    BY <2>2, OrdersAre
  <2> HIDE DEF u
  <2>5. DOMAIN u = 1 .. Len(u) /\ Len(u) \in Nat
    BY <2>3, Positions
  <2>6. /\ w \in Seq(DOMAIN given) /\ Len(w) = Len(o) + Len(u) /\ DOMAIN w = 1 .. Len(o) + Len(u)
        /\ \A i \in DOMAIN o : w[i] = o[i]
        /\ \A i \in DOMAIN u : w[Len(o) + i] = u[i]
    BY <2>3, <2>4, <2>5, ConcatProperties
  <2>7. \A i \in DOMAIN w : i \in DOMAIN o \/ (i > Len(o) /\ i - Len(o) \in DOMAIN u
                                                /\ w[i] = u[i - Len(o)])
    <3>1. ASSUME NEW i \in DOMAIN w, i \notin DOMAIN o
          PROVE  i > Len(o) /\ i - Len(o) \in DOMAIN u /\ w[i] = u[i - Len(o)]
      <4>1. i > Len(o) /\ i - Len(o) \in DOMAIN u /\ Len(o) + (i - Len(o)) = i
        BY <2>4, <2>5, <2>6, <3>1
      <4>2. QED
        BY <2>6, <4>1
    <3>2. QED
      BY <3>1
  <2>8. \A i \in DOMAIN o : Day(o[i]) < days[m]
    <3>1. ASSUME NEW i \in DOMAIN o PROVE Day(o[i]) < days[m]
      <4>1. PICK x \in 1 .. m - 1 : Day(o[i]) = days[x]
        BY <2>2
      <4>2. x \in 1 .. N /\ x < m
        BY <1>1, <4>1
      <4>3. QED
        BY <1>1, <4>1, <4>2
    <3>2. QED
      BY <3>1
  <2>9. days[m] \in Nat
    BY <1>1
  <2> HIDE DEF w, step, I
  <2>10. \A i, k \in DOMAIN w : w[i] = w[k] => i = k
    <3>1. ASSUME NEW i \in DOMAIN w, NEW k \in DOMAIN w, w[i] = w[k] PROVE i = k
      <4>1. CASE i \in DOMAIN o /\ k \in DOMAIN o
        BY <2>4, <2>6, <3>1, <4>1
      <4>2. CASE i \notin DOMAIN o /\ k \notin DOMAIN o
        <5>1. i - Len(o) = k - Len(o)
          BY <2>3, <2>7, <3>1, <4>2
        <5>2. QED
          BY <2>4, <2>6, <5>1
      <4>3. CASE i \in DOMAIN o /\ k \notin DOMAIN o
        <5>1. Day(w[i]) < days[m] /\ Day(w[k]) = days[m]
          BY <2>3, <2>6, <2>7, <2>8, <4>3
        <5>2. QED
          BY <2>9, <3>1, <5>1
      <4>4. CASE i \notin DOMAIN o /\ k \in DOMAIN o
        <5>1. Day(w[k]) < days[m] /\ Day(w[i]) = days[m]
          BY <2>3, <2>6, <2>7, <2>8, <4>4
        <5>2. QED
          BY <2>9, <3>1, <5>1
      <4>5. QED
        BY <4>1, <4>2, <4>3, <4>4
    <3>2. QED
      BY <3>1
  <2>11. \A i, k \in DOMAIN w : i < k => Day(w[i]) <= Day(w[k])
    <3>1. ASSUME NEW i \in DOMAIN w, NEW k \in DOMAIN w, i < k PROVE Day(w[i]) <= Day(w[k])
      <4>1. CASE k \in DOMAIN o
        <5>1. i \in DOMAIN o
          BY <2>4, <2>6, <3>1, <4>1
        <5>2. QED
          BY <2>4, <2>6, <3>1, <4>1, <5>1
      <4>2. CASE k \notin DOMAIN o
        <5>1. Day(w[k]) = days[m]
          BY <2>3, <2>7, <4>2
        <5>2. CASE i \in DOMAIN o
          BY <2>4, <2>6, <2>8, <2>9, <5>1, <5>2
        <5>3. CASE i \notin DOMAIN o
          BY <2>3, <2>7, <2>9, <5>1, <5>3
        <5>4. QED
          BY <5>2, <5>3
      <4>3. QED
        BY <4>1, <4>2
    <3>2. QED
      BY <3>1
  <2>12. \A i \in DOMAIN w : \E x \in 1 .. m : Day(w[i]) = days[x]
    <3>1. ASSUME NEW i \in DOMAIN w PROVE \E x \in 1 .. m : Day(w[i]) = days[x]
      <4>1. CASE i \in DOMAIN o
        <5>1. PICK x \in 1 .. m - 1 : Day(o[i]) = days[x]
          BY <2>2, <4>1
        <5>2. x \in 1 .. m
          BY <2>1, <5>1
        <5>3. QED
          BY <2>6, <4>1, <5>1, <5>2
      <4>2. CASE i \notin DOMAIN o
        <5>1. Day(w[i]) = days[m] /\ m \in 1 .. m
          BY <2>1, <2>3, <2>7, <4>2
        <5>2. QED
          BY <5>1
      <4>3. QED
        BY <4>1, <4>2
    <3>2. QED
      BY <3>1
  <2>13. \A x \in 1 .. m : \A id \in PlacesOn(days[x]) : \E i \in DOMAIN w : w[i] = id
    <3>1. ASSUME NEW x \in 1 .. m, NEW id \in PlacesOn(days[x])
          PROVE  \E i \in DOMAIN w : w[i] = id
      <4>1. CASE x = m
        <5>1. PICK i \in DOMAIN u : u[i] = id
          BY <2>3, <3>1, <4>1
        <5>2. Len(o) + i \in DOMAIN w
          BY <2>4, <2>5, <2>6, <5>1
        <5>3. QED
          BY <2>6, <5>1, <5>2
      <4>2. CASE x # m
        <5>1. x \in 1 .. m - 1
          BY <2>1, <4>2
        <5>2. PICK i \in DOMAIN o : o[i] = id
          BY <2>2, <3>1, <5>1
        <5>3. i \in DOMAIN w
          BY <2>4, <2>5, <2>6, <5>2
        <5>4. QED
          BY <2>6, <5>2, <5>3
      <4>3. QED
        BY <4>1, <4>2
    <3>2. QED
      BY <3>1
  <2>14. w \in Orders
    BY <2>6, <2>10, <2>11 DEF Orders
  <2>15. w \in I[m]
    BY <2>1, <2>12, <2>13, <2>14 DEF I
  <2>16. step[m][o] = w
    BY <1>2, <2>4 DEF step, w, u
  <2>17. QED
    BY <2>15, <2>16
<1>5. Loop(step, << >>, 1, N) \in I[N]
  <2>1. 1 - 1 = 0 /\ 1 - 1 <= N /\ N \in Int
    BY <1>1
  <2> HIDE DEF step, I
  <2>2. QED
    BY <1>3, <1>4, <2>1, LoopInvariant
<1>6. OrderedByDay = Loop(step, << >>, 1, N)
  BY <1>2 DEF OrderedByDay, days
<1>7. N \in 0 .. N
  BY <1>1
<1>8. Complete(OrderedByDay)
  <2>1. ASSUME NEW id \in DOMAIN given PROVE \E i \in DOMAIN OrderedByDay : OrderedByDay[i] = id
    <3>1. Day(id) \in Days
      BY Places
    <3>2. PICK x \in 1 .. N : days[x] = Day(id)
      BY <1>1, <3>1
    <3>3. id \in PlacesOn(days[x])
      BY <3>2 DEF PlacesOn
    <3> HIDE DEF step
    <3>4. QED
      BY <1>5, <1>6, <1>7, <3>3
  <2>2. QED
    BY <2>1 DEF Complete
<1>9. OrderedByDay \in Orders
  <2> HIDE DEF step
  <2>1. QED
    BY <1>5, <1>6, <1>7
<1>10. QED
  BY <1>8, <1>9

(* recommend_route visits every place once, the days ascending.             *)
LEMMA VisitOrderIs ==
  ASSUME given \in Given, HandedOver(stage, given)
  PROVE  VisitOrder \in Orders /\ Complete(VisitOrder)
<1>1. CASE stage = "route" /\ ~optimize
  <2> DEFINE o == [i \in DOMAIN given |-> i]
  <2>1. Ascending(given)
    BY <1>1 DEF HandedOver
  <2>2. Len(given) \in Nat /\ DOMAIN given = 1 .. Len(given)
    BY Places
  <2>3. o \in Seq(DOMAIN given) /\ DOMAIN o = DOMAIN given
    <3>1. o \in [1 .. Len(given) -> DOMAIN given]
      BY <2>2
    <3>2. QED
      BY <2>2, <3>1, FunctionIsList
  <2>4. \A i, k \in DOMAIN given : i < k => Day(i) <= Day(k)
    BY <2>1 DEF Ascending, Day
  <2>5. o \in Orders /\ Complete(o)
    BY <2>3, <2>4 DEF Orders, Complete
  <2>6. QED
    BY <1>1, <2>5 DEF VisitOrder
<1>2. CASE ~(stage = "route" /\ ~optimize)
  <2>1. VisitOrder = OrderedByDay
    BY <1>2 DEF VisitOrder
  <2>2. QED
    BY <2>1, OrderedByDayIs
<1>3. QED
  BY <1>1, <1>2

(* Dropping places leaves the others in their order.                        *)
LEMMA WithoutIs ==
  ASSUME given \in Given, NEW o \in Orders, NEW gone \in SUBSET DOMAIN given
  PROVE  /\ Without(o, gone) \in Orders
         /\ \A n \in DOMAIN Without(o, gone) :
              /\ Without(o, gone)[n] \notin gone
              /\ \E i \in DOMAIN o : Without(o, gone)[n] = o[i]
         /\ \A i \in DOMAIN o : o[i] \notin gone =>
              \E n \in DOMAIN Without(o, gone) : Without(o, gone)[n] = o[i]
         /\ \A m, n \in DOMAIN Without(o, gone) : \A i, k \in DOMAIN o :
              m < n /\ o[i] = Without(o, gone)[m] /\ o[k] = Without(o, gone)[n] => i < k
<1> DEFINE keep == {i \in DOMAIN o : o[i] \notin gone}
           w == Sublist(o, keep)
           N == Cardinality(keep)
           at == InOrder(keep)
<1>1. /\ o \in Seq(DOMAIN given) /\ DOMAIN o = 1 .. Len(o) /\ Len(o) \in Nat
      /\ \A i \in DOMAIN o : o[i] \in DOMAIN given
      /\ \A i, k \in DOMAIN o : o[i] = o[k] => i = k
      /\ \A i, k \in DOMAIN o : i < k => Day(o[i]) <= Day(o[k])
  BY OrdersAre
<1>2. /\ N \in Nat /\ w \in Seq(DOMAIN given) /\ DOMAIN w = 1 .. N
      /\ at \in [1 .. N -> keep]
      /\ \A i \in keep : \E n \in 1 .. N : at[n] = i
      /\ \A m, n \in 1 .. N : m < n => at[m] < at[n]
      /\ \A n \in 1 .. N : w[n] = o[at[n]]
  <2>1. keep \in SUBSET DOMAIN o
    OBVIOUS
  <2> HIDE DEF keep
  <2>2. QED
    BY <1>1, <2>1, SublistIs
<1>3. \A n \in 1 .. N : at[n] \in DOMAIN o /\ at[n] \in Int /\ o[at[n]] \notin gone
  BY <1>1, <1>2
<1>4. ASSUME NEW i \in DOMAIN o, o[i] \notin gone PROVE \E n \in 1 .. N : w[n] = o[i]
  <2>1. i \in keep
    BY <1>4
  <2> HIDE DEF w, N, at, keep
  <2>2. QED
    BY <1>2, <2>1
<1> HIDE DEF w, N, at, keep
<1>5. \A m, n \in 1 .. N : w[m] = w[n] => m = n
  <2>1. ASSUME NEW m \in 1 .. N, NEW n \in 1 .. N, w[m] = w[n] PROVE m = n
    <3>1. at[m] = at[n] /\ at[m] \in Int
      BY <1>1, <1>2, <1>3, <2>1
    <3>2. QED
      BY <1>2, <3>1
  <2>2. QED
    BY <2>1
<1>6. \A m, n \in 1 .. N : m < n => Day(w[m]) <= Day(w[n])
  BY <1>1, <1>2, <1>3
<1>7. w \in Orders
  BY <1>2, <1>5, <1>6 DEF Orders
<1>8. \A m, n \in 1 .. N : \A i, k \in DOMAIN o : m < n /\ o[i] = w[m] /\ o[k] = w[n] => i < k
  <2>1. ASSUME NEW m \in 1 .. N, NEW n \in 1 .. N, NEW i \in DOMAIN o, NEW k \in DOMAIN o,
               m < n, o[i] = w[m], o[k] = w[n]
        PROVE  i < k
    <3>1. i = at[m] /\ k = at[n]
      BY <1>1, <1>2, <1>3, <2>1
    <3>2. QED
      BY <1>2, <2>1, <3>1
  <2>2. QED
    BY <2>1
<1>9. Without(o, gone) = w
  BY DEF Without, w, keep
<1>10. QED
  BY <1>2, <1>3, <1>4, <1>7, <1>8, <1>9

(* _rebuild_legs: one leg fewer than places, each from a place to the next. *)
LEMMA RebuildLegsIs ==
  ASSUME given \in Given, NEW o \in Orders, o # << >>
  PROVE  /\ Len(o) \in Nat \ {0} /\ 1 \in DOMAIN o
         /\ Len(RebuildLegs(o)) = Len(o) - 1
         /\ DOMAIN RebuildLegs(o) = 1 .. Len(o) - 1
         /\ \A i \in 1 .. Len(o) - 1 :
              /\ i \in DOMAIN o /\ i + 1 \in DOMAIN o
              /\ RebuildLegs(o)[i].from = o[i] /\ RebuildLegs(o)[i].to = o[i + 1]
              /\ RebuildLegs(o)[i].minutes = Minutes(o[i], o[i + 1])
<1>1. o \in Seq(DOMAIN given) /\ DOMAIN o = 1 .. Len(o) /\ Len(o) \in Nat
  BY OrdersAre
<1>2. Len(o) # 0
  BY <1>1, EmptySeq
<1>3. Len(o) \in Nat \ {0} /\ 1 \in DOMAIN o /\ Len(o) - 1 \in Nat
  BY <1>1, <1>2
<1>4. DOMAIN RebuildLegs(o) = 1 .. Len(o) - 1
  BY DEF RebuildLegs
<1> DEFINE Leg(i) == [from |-> o[i], to |-> o[i + 1], minutes |-> Minutes(o[i], o[i + 1])]
           L == {Leg(i) : i \in 1 .. Len(o) - 1}
<1>5. RebuildLegs(o) \in [1 .. Len(o) - 1 -> L]
  BY DEF RebuildLegs
<1>6. Len(RebuildLegs(o)) = Len(o) - 1
  <2> HIDE DEF L
  <2>1. QED
    BY <1>3, <1>5, FunctionIsList
<1>7. \A i \in 1 .. Len(o) - 1 : i \in DOMAIN o /\ i + 1 \in DOMAIN o
  BY <1>1
<1>8. QED
  BY <1>3, <1>4, <1>6, <1>7 DEF RebuildLegs

(* The clock of _plan_timeline.                                             *)
LEMMA VisitStartsAre ==
  ASSUME given \in Given, NEW o \in Orders, o # << >>, NEW s \in [DOMAIN given -> Nat]
  PROVE  /\ DOMAIN VisitStarts(o, RebuildLegs(o), s) = DOMAIN o
         /\ VisitStarts(o, RebuildLegs(o), s)[1] = Start
         /\ \A i \in DOMAIN o : VisitStarts(o, RebuildLegs(o), s)[i] \in Int
         /\ \A i \in DOMAIN o : VisitStarts(o, RebuildLegs(o), s)[i] >= Start
         /\ \A i \in 2 .. Len(o) :
              VisitStarts(o, RebuildLegs(o), s)[i] =
                IF Day(o[i]) # Day(o[i - 1]) THEN Start
                ELSE VisitStarts(o, RebuildLegs(o), s)[i - 1]
                       + s[o[i - 1]] + Minutes(o[i - 1], o[i]) + Buffer
<1> DEFINE l == RebuildLegs(o)
           n == Len(o)
           step == [i \in 2 .. n |-> [clock \in Int |->
                      IF Day(o[i]) # Day(o[i - 1]) THEN Start
                      ELSE clock + s[o[i - 1]] + l[i - 1].minutes + Buffer]]
           at == Trace(step, Start, 2, n)
           I == [i \in 1 .. n |-> {x \in Int : x >= Start}]
<1>1. /\ n \in Nat \ {0} /\ DOMAIN o = 1 .. n
      /\ \A i \in 2 .. n : /\ i - 1 \in 1 .. n /\ o[i - 1] \in DOMAIN given /\ o[i] \in DOMAIN given
                           /\ l[i - 1].minutes = Minutes(o[i - 1], o[i])
  <2>1. DOMAIN o = 1 .. n /\ n \in Nat \ {0} /\ \A i \in 1 .. n : o[i] \in DOMAIN given
    BY OrdersAre, RebuildLegsIs
  <2>2. ASSUME NEW i \in 2 .. n
        PROVE  /\ i - 1 \in 1 .. n /\ o[i - 1] \in DOMAIN given /\ o[i] \in DOMAIN given
               /\ l[i - 1].minutes = Minutes(o[i - 1], o[i])
    <3>1. i - 1 \in 1 .. n - 1 /\ i - 1 \in 1 .. n /\ i \in 1 .. n /\ (i - 1) + 1 = i
      BY <2>1
    <3>2. l[i - 1].minutes = Minutes(o[i - 1], o[(i - 1) + 1])
      BY <3>1, RebuildLegsIs
    <3>3. QED
      BY <2>1, <3>1, <3>2
  <2>3. QED
    BY <2>1, <2>2
<1>2. Start \in Nat /\ Buffer \in Nat
  BY ItineraryAssumption
<1>3. \A i \in 2 .. n : Minutes(o[i - 1], o[i]) \in Nat /\ s[o[i - 1]] \in Nat
  BY <1>1, Places
<1>4. \A i \in 2 .. n : \A clock \in Int :
        step[i][clock] = IF Day(o[i]) # Day(o[i - 1]) THEN Start
                         ELSE clock + s[o[i - 1]] + Minutes(o[i - 1], o[i]) + Buffer
  BY <1>1
<1> HIDE DEF step, n
<1>5. ASSUME NEW i \in 2 .. n, NEW x \in I[i - 1] PROVE step[i][x] \in I[i]
  <2>1. x \in Int /\ x >= Start /\ I[i] = {y \in Int : y >= Start}
    BY <1>1, <1>5
  <2> DEFINE a == s[o[i - 1]]
             b == Minutes(o[i - 1], o[i])
  <2>2. a \in Nat /\ b \in Nat
    BY <1>3
  <2>3. step[i][x] = IF Day(o[i]) # Day(o[i - 1]) THEN Start ELSE x + a + b + Buffer
    BY <1>4, <2>1
  <2> HIDE DEF a, b
  <2>4. step[i][x] \in Int /\ step[i][x] >= Start
    BY <1>2, <2>1, <2>2, <2>3
  <2>5. QED
    BY <2>1, <2>4
<1>6. Start \in I[1]
  BY <1>1, <1>2
<1>7. 2 - 1 = 1 /\ 2 - 1 <= n /\ n \in Int
  BY <1>1
<1>8. \A i \in 1 .. n : at[i] \in I[i]
  <2> HIDE DEF I, at
  <2>1. QED
    BY <1>5, <1>6, <1>7, TraceInvariant DEF at
<1>9. DOMAIN at = 1 .. n /\ at[1] = Start /\ \A i \in 2 .. n : at[i] = step[i][at[i - 1]]
  BY <1>7, TraceIs
<1>10. \A i \in 1 .. n : at[i] \in Int /\ at[i] >= Start
  BY <1>8
<1> HIDE DEF at, I
<1>11. VisitStarts(o, l, s) = at
  BY DEF VisitStarts, at, step, n
<1>12. \A i \in 2 .. n : at[i] = IF Day(o[i]) # Day(o[i - 1]) THEN Start
                                 ELSE at[i - 1] + s[o[i - 1]] + Minutes(o[i - 1], o[i]) + Buffer
  BY <1>1, <1>4, <1>9, <1>10
<1>13. QED
  BY <1>1, <1>9, <1>10, <1>11, <1>12 DEF n

(* _plan_timeline: each visit from its start for its stay; a day overflows  *)
(* when one of its visits ends after the window.                            *)
LEMMA PlanTimelineIs ==
  ASSUME given \in Given, NEW o \in Orders, o # << >>, NEW s \in [DOMAIN given -> Nat],
         NEW at, at = VisitStarts(o, RebuildLegs(o), s),
         NEW t, t = PlanTimeline(o, RebuildLegs(o), s)
  PROVE  /\ DOMAIN t = Range(o)
         /\ \A i \in DOMAIN o : /\ t[o[i]].start = at[i]
                                /\ t[o[i]].end = at[i] + s[o[i]]
         /\ Overflows(o, s) = Overflowing(t)
         /\ \A d : d \in Overflowing(t)
                     <=> \E i \in DOMAIN o : Day(o[i]) = d /\ at[i] + s[o[i]] > End
<1> DEFINE Slot(i) == [start |-> at[i], end |-> at[i] + s[o[i]]]
<1>1. \A i, k \in DOMAIN o : o[i] = o[k] => i = k
  BY OrdersAre
<1>2. t = [id \in Range(o) |-> Slot(CHOOSE i \in DOMAIN o : o[i] = id)]
  BY DEF PlanTimeline
<1>3. ASSUME NEW i \in DOMAIN o PROVE o[i] \in Range(o) /\ t[o[i]] = Slot(i)
  <2>1. o[i] \in Range(o)
    BY DEF Range
  <2>2. i = CHOOSE k \in DOMAIN o : o[k] = o[i]
    BY <1>1
  <2> HIDE DEF Slot
  <2>3. t[o[i]] = Slot(CHOOSE k \in DOMAIN o : o[k] = o[i])
    BY <1>2, <2>1
  <2>4. QED
    BY <2>1, <2>2, <2>3
<1>4. DOMAIN t = Range(o)
  BY <1>2
<1>5. ASSUME NEW i \in DOMAIN o
      PROVE  t[o[i]].start = at[i] /\ t[o[i]].end = at[i] + s[o[i]]
  <2> DEFINE a == at[i]
             b == at[i] + s[o[i]]
  <2>1. t[o[i]] = [start |-> a, end |-> b]
    BY <1>3
  <2> HIDE DEF a, b
  <2>2. t[o[i]].start = a /\ t[o[i]].end = b
    BY <2>1
  <2>3. QED
    BY <2>2 DEF a, b
<1> HIDE DEF Slot
<1>6. ASSUME NEW d
      PROVE  d \in Overflowing(t)
               <=> \E i \in DOMAIN o : Day(o[i]) = d /\ at[i] + s[o[i]] > End
  <2>1. d \in Overflowing(t) <=> \E id \in DOMAIN t : t[id].end > End /\ Day(id) = d
    BY DEF Overflowing
  <2>2. \A id : id \in DOMAIN t <=> \E i \in DOMAIN o : o[i] = id
    BY <1>4 DEF Range
  <2>3. QED
    BY <1>5, <2>1, <2>2
<1>7. Overflows(o, s) = Overflowing(t)
  BY DEF Overflows
<1>8. QED
  BY <1>4, <1>5, <1>6, <1>7

LEMMA Slots ==
  ASSUME given \in Given, NEW o \in Orders, NEW s, NEW i \in DOMAIN o
  PROVE  PlanTimeline(o, RebuildLegs(o), s)[o[i]]
           = [start |-> VisitStarts(o, RebuildLegs(o), s)[i],
              end |-> VisitStarts(o, RebuildLegs(o), s)[i] + s[o[i]]]
<1> DEFINE at == VisitStarts(o, RebuildLegs(o), s)
           Slot(k) == [start |-> at[k], end |-> at[k] + s[o[k]]]
<1>1. i = CHOOSE k \in DOMAIN o : o[k] = o[i]
  BY OrdersAre
<1>2. o[i] \in Range(o)
  BY DEF Range
<1>3. PlanTimeline(o, RebuildLegs(o), s)
        = [id \in Range(o) |-> Slot(CHOOSE k \in DOMAIN o : o[k] = id)]
  BY DEF PlanTimeline
<1> HIDE DEF Slot
<1>4. PlanTimeline(o, RebuildLegs(o), s)[o[i]] = Slot(i)
  BY <1>1, <1>2, <1>3
<1>5. QED
  BY <1>4 DEF Slot

(* From one visit to a later one of the same day there is time for the      *)
(* buffer and at least a minute's walk.                                     *)
LEMMA Gaps ==
  ASSUME given \in Given, NEW o \in Orders, o # << >>, NEW s \in [DOMAIN given -> Nat],
         NEW at, at = VisitStarts(o, RebuildLegs(o), s),
         NEW i \in DOMAIN o, NEW k \in DOMAIN o, i < k, Day(o[i]) = Day(o[k])
  PROVE  at[i] + s[o[i]] + Buffer + 1 <= at[k]
<1> DEFINE n == Len(o)
           gap == at[i] + s[o[i]] + Buffer + 1
           P == {m \in i + 1 .. n : Day(o[m]) = Day(o[i]) => gap <= at[m]}
<1>1. /\ n \in Nat /\ DOMAIN o = 1 .. n
      /\ \A m \in 1 .. n : o[m] \in DOMAIN given /\ Day(o[m]) \in Nat
      /\ \A a, b \in 1 .. n : a < b => Day(o[a]) <= Day(o[b])
  BY OrdersAre
<1>2. /\ \A m \in 1 .. n : at[m] \in Int
      /\ \A m \in 2 .. n : at[m] = IF Day(o[m]) # Day(o[m - 1]) THEN Start
                                   ELSE at[m - 1] + s[o[m - 1]] + Minutes(o[m - 1], o[m]) + Buffer
  BY <1>1, VisitStartsAre
<1>3. Buffer \in Nat /\ \A m \in 1 .. n : s[o[m]] \in Nat
  BY <1>1, ItineraryAssumption
<1>4. \A a, b \in 1 .. n : Minutes(o[a], o[b]) \in Nat \ {0}
  BY <1>1, Places
<1>5. gap \in Int
  BY <1>1, <1>2, <1>3
<1>6. i + 1 \in P
  <2>1. i + 1 \in 2 .. n /\ i + 1 \in i + 1 .. n /\ (i + 1) - 1 = i
    BY <1>1
  <2>2. ASSUME Day(o[i + 1]) = Day(o[i]) PROVE gap <= at[i + 1]
    <3>1. at[i + 1] = at[i] + s[o[i]] + Minutes(o[i], o[i + 1]) + Buffer
      BY <1>2, <2>1, <2>2
    <3> DEFINE x == s[o[i]]
               y == Minutes(o[i], o[i + 1])
    <3>2. x \in Nat /\ y \in Nat \ {0} /\ at[i] \in Int
      <4>1. i \in 1 .. n /\ i + 1 \in 1 .. n
        BY <1>1
      <4>2. QED
        BY <1>2, <1>3, <1>4, <4>1
    <3> HIDE DEF x, y
    <3>3. at[i] + x + Buffer + 1 <= at[i] + x + y + Buffer
      BY <1>3, <3>2
    <3>4. QED
      BY <3>1, <3>3 DEF x, y
  <2>3. QED
    BY <2>1, <2>2
<1>7. ASSUME NEW m \in i + 1 .. n - 1, m \in P PROVE m + 1 \in P
  <2>1. /\ m + 1 \in 2 .. n /\ m + 1 \in i + 1 .. n /\ (m + 1) - 1 = m
        /\ m \in 1 .. n /\ m + 1 \in 1 .. n /\ i < m /\ m < m + 1
    BY <1>1
  <2>2. ASSUME Day(o[m + 1]) = Day(o[i]) PROVE gap <= at[m + 1]
    <3>1. Day(o[i]) <= Day(o[m]) /\ Day(o[m]) <= Day(o[m + 1])
      BY <1>1, <2>1
    <3>2. Day(o[m]) = Day(o[i]) /\ Day(o[m]) = Day(o[m + 1])
      <4>1. Day(o[i]) \in Nat /\ Day(o[m]) \in Nat
        BY <1>1, <2>1
      <4>2. QED
        BY <2>2, <3>1, <4>1
    <3>3. gap <= at[m]
      BY <1>7, <3>2
    <3> DEFINE x == s[o[m]]
               y == Minutes(o[m], o[m + 1])
    <3>4. at[m + 1] = at[m] + x + y + Buffer
      BY <1>2, <2>1, <3>2
    <3>5. x \in Nat /\ y \in Nat /\ at[m] \in Int
      BY <1>2, <1>3, <1>4, <2>1
    <3> HIDE DEF x, y, gap
    <3>6. gap <= at[m] + x + y + Buffer
      BY <1>3, <1>5, <3>3, <3>5
    <3>7. QED
      BY <3>4, <3>6
  <2>3. QED
    BY <2>1, <2>2
<1>8. i + 1 .. n \subseteq P
  <2>1. i + 1 \in Int /\ n \in Int
    BY <1>1
  <2> HIDE DEF P
  <2>2. QED
    BY <1>6, <1>7, <2>1, RangeInduction
<1>9. k \in i + 1 .. n
  BY <1>1
<1>10. QED
  BY <1>8, <1>9

(* Dropping places of other days does not move the visits of a day, and     *)
(* longer stays only move them back.                                        *)
SameDay(o, gone, d, r, s) ==
  LET w == Without(o, gone)
      ato == VisitStarts(o, RebuildLegs(o), r)
      atw == VisitStarts(w, RebuildLegs(w), s)
  IN \A j \in DOMAIN w : Day(w[j]) = d =>
       \A i \in DOMAIN o : o[i] = w[j] =>
         /\ atw[j] <= ato[i]
         /\ (\A id \in DOMAIN given : Day(id) = d => s[id] = r[id]) => atw[j] = ato[i]

LEMMA DayTiming ==
  ASSUME given \in Given, NEW d, NEW o \in Orders, o # << >>, NEW gone \in SUBSET DOMAIN given,
         \A id \in gone : Day(id) # d, Without(o, gone) # << >>,
         NEW r \in [DOMAIN given -> Nat], NEW s \in [DOMAIN given -> Nat],
         \A id \in DOMAIN given : Day(id) = d => s[id] <= r[id]
  PROVE  SameDay(o, gone, d, r, s)
<1> DEFINE w == Without(o, gone)
           ato == VisitStarts(o, RebuildLegs(o), r)
           atw == VisitStarts(w, RebuildLegs(w), s)
<1>0. /\ w = Without(o, gone) /\ w # << >>
      /\ ato = VisitStarts(o, RebuildLegs(o), r)
      /\ atw = VisitStarts(w, RebuildLegs(w), s)
  OBVIOUS
<1> HIDE DEF w, ato, atw
<1> USE <1>0
<1> DEFINE n == Len(w)
           Equal == \A id \in DOMAIN given : Day(id) = d => s[id] = r[id]
           Match(j) == Day(w[j]) = d =>
             \A i \in DOMAIN o : o[i] = w[j] => atw[j] <= ato[i] /\ (Equal => atw[j] = ato[i])
           P == {j \in 1 .. n : Match(j)}
<1>1. /\ DOMAIN o = 1 .. Len(o) /\ Len(o) \in Nat
      /\ \A i \in DOMAIN o : o[i] \in DOMAIN given /\ Day(o[i]) \in Nat
      /\ \A i, k \in DOMAIN o : o[i] = o[k] => i = k
      /\ \A i, k \in DOMAIN o : i < k => Day(o[i]) <= Day(o[k])
  BY OrdersAre
<1>2. /\ w \in Orders
      /\ \A i \in DOMAIN o : o[i] \notin gone => \E j \in DOMAIN w : w[j] = o[i]
      /\ \A j \in DOMAIN w : \E i \in DOMAIN o : w[j] = o[i]
      /\ \A h, j \in DOMAIN w : \A i, k \in DOMAIN o :
           h < j /\ o[i] = w[h] /\ o[k] = w[j] => i < k
  BY WithoutIs
<1>3. /\ DOMAIN w = 1 .. n /\ n \in Nat \ {0}
      /\ \A j \in 1 .. n : w[j] \in DOMAIN given /\ Day(w[j]) \in Nat
      /\ \A h, j \in 1 .. n : w[h] = w[j] => h = j
  <2>1. w \in Orders
    BY <1>2
  <2>2. n \in Nat \ {0}
    BY <2>1, RebuildLegsIs
  <2>3. /\ DOMAIN w = 1 .. Len(w)
        /\ \A j \in DOMAIN w : w[j] \in DOMAIN given /\ Day(w[j]) \in Nat
        /\ \A h, j \in DOMAIN w : w[h] = w[j] => h = j
    <3> HIDE DEF n
    <3>1. QED
      BY <2>1, OrdersAre
  <2>4. QED
    BY <2>2, <2>3
<1>4. /\ ato[1] = Start
      /\ \A i \in DOMAIN o : ato[i] \in Int /\ ato[i] >= Start
      /\ \A i \in 2 .. Len(o) :
           ato[i] = IF Day(o[i]) # Day(o[i - 1]) THEN Start
                    ELSE ato[i - 1] + r[o[i - 1]] + Minutes(o[i - 1], o[i]) + Buffer
  BY VisitStartsAre
<1>5. /\ atw[1] = Start
      /\ \A j \in 1 .. n : atw[j] \in Int /\ atw[j] >= Start
      /\ \A j \in 2 .. n :
           atw[j] = IF Day(w[j]) # Day(w[j - 1]) THEN Start
                    ELSE atw[j - 1] + s[w[j - 1]] + Minutes(w[j - 1], w[j]) + Buffer
  BY <1>2, <1>3, VisitStartsAre
<1>6. Start \in Int /\ Buffer \in Nat
  BY ItineraryAssumption
(* The visit before one of day d, when it is of day d too, has not been dropped. *)
<1>7. ASSUME NEW j \in 1 .. n, NEW i \in 2 .. Len(o), o[i] = w[j], Day(w[j]) = d,
             Day(o[i - 1]) = d
      PROVE  j - 1 \in 1 .. n /\ w[j - 1] = o[i - 1]
  <2>1. i \in DOMAIN o /\ i - 1 \in DOMAIN o /\ i - 1 < i /\ ~(i < i - 1)
    BY <1>1
  <2>2. o[i - 1] \notin gone
    BY <1>7
  <2>3. PICK h \in 1 .. n : w[h] = o[i - 1]
    BY <1>2, <1>3, <2>1, <2>2
  <2>4. h # j
    BY <1>1, <1>7, <2>1, <2>3
  <2>5. ~(j < h)
    BY <1>2, <1>3, <1>7, <2>1, <2>3
  <2>6. h = j - 1
    <3>1. SUFFICES ASSUME h # j - 1 PROVE FALSE
      OBVIOUS
    <3>2. h < j - 1 /\ j - 1 \in 1 .. n /\ j - 1 < j
      BY <1>3, <2>3, <2>4, <2>5, <3>1
    <3>3. PICK k \in DOMAIN o : w[j - 1] = o[k]
      BY <1>2, <1>3, <3>2
    <3> DEFINE g == j - 1
               e == i - 1
    <3> HIDE DEF g, e
    <3>4. e < k
      <4>1. h \in DOMAIN w /\ g \in DOMAIN w /\ h < g /\ e \in DOMAIN o /\ o[e] = w[h] /\ o[k] = w[g]
        BY <1>3, <2>1, <2>3, <3>2, <3>3 DEF g, e
      <4>2. QED
        BY <1>2, <4>1
    <3>5. k < i
      <4>1. j \in DOMAIN w /\ g \in DOMAIN w /\ g < j /\ o[k] = w[g] /\ i \in DOMAIN o
        BY <1>3, <2>1, <3>2, <3>3 DEF g
      <4>2. QED
        BY <1>2, <1>7, <4>1
    <3>6. k \in Int /\ i \in Int
      BY <1>1, <3>3
    <3>7. QED
      BY <3>4, <3>5, <3>6 DEF e
  <2>7. QED
    BY <2>3, <2>6
<1>8. ASSUME NEW j \in 1 .. n, j = 1 \/ Day(w[j - 1]) # Day(w[j]), Day(w[j]) = d,
             NEW i \in DOMAIN o, o[i] = w[j]
      PROVE  atw[j] = Start /\ ato[i] = Start
  <2>1. atw[j] = Start
    <3>1. j = 1 \/ j \in 2 .. n
      BY <1>3
    <3>2. QED
      BY <1>5, <1>8, <3>1
  <2>2. ato[i] = Start
    <3>1. CASE i = 1
      BY <1>4, <3>1
    <3>2. CASE i # 1
      <4>1. i \in 2 .. Len(o)
        BY <1>1, <3>2
      <4>2. Day(o[i - 1]) # d
        <5>1. SUFFICES ASSUME Day(o[i - 1]) = d PROVE FALSE
          OBVIOUS
        <5>2. j - 1 \in 1 .. n /\ w[j - 1] = o[i - 1]
          BY <1>7, <1>8, <4>1, <5>1
        <5>3. QED
          BY <1>3, <1>8, <5>1, <5>2
      <4>3. QED
        BY <1>4, <1>8, <4>1, <4>2
    <3>3. QED
      BY <3>1, <3>2
  <2>3. QED
    BY <2>1, <2>2
<1>9. 1 \in P
  <2>1. 1 \in 1 .. n
    BY <1>3
  <2>2. QED
    BY <1>4, <1>6, <1>8, <2>1
<1>10. ASSUME NEW j \in 1 .. n - 1, j \in P PROVE j + 1 \in P
  <2>1. j + 1 \in 1 .. n /\ j + 1 \in 2 .. n /\ j \in 1 .. n /\ (j + 1) - 1 = j /\ j + 1 # 1
    BY <1>3
  <2>2. ASSUME Day(w[j + 1]) = d, NEW i \in DOMAIN o, o[i] = w[j + 1]
        PROVE  atw[j + 1] <= ato[i] /\ (Equal => atw[j + 1] = ato[i])
    <3>1. CASE Day(w[j]) # d
      <4>1. atw[j + 1] = Start /\ ato[i] = Start
        BY <1>8, <2>1, <2>2, <3>1
      <4>2. QED
        BY <1>6, <4>1
    <3>2. CASE Day(w[j]) = d
      <4>1. PICK k \in DOMAIN o : w[j] = o[k]
        BY <1>2, <1>3, <2>1
      <4>2. k < i
        BY <1>2, <1>3, <2>1, <2>2, <4>1
      <4>3. i \in 2 .. Len(o) /\ i - 1 \in DOMAIN o
        BY <1>1, <4>2
      <4>4. Day(o[i - 1]) = d
        <5>1. Day(o[i - 1]) <= Day(o[i])
          BY <1>1, <4>3
        <5>2. Day(o[k]) <= Day(o[i - 1])
          <6>1. k = i - 1 \/ k < i - 1
            BY <1>1, <4>2
          <6>2. QED
            BY <1>1, <4>1, <4>3, <6>1
        <5>3. Day(o[i]) = d /\ Day(o[k]) = d /\ d \in Nat
          BY <1>1, <2>2, <3>2, <4>1
        <5>4. Day(o[i - 1]) \in Nat
          BY <1>1, <4>3
        <5>5. QED
          BY <5>1, <5>2, <5>3, <5>4
      <4>5. w[j] = o[i - 1]
        BY <1>7, <2>1, <2>2, <4>3, <4>4
      <4>6. atw[j] <= ato[i - 1] /\ (Equal => atw[j] = ato[i - 1])
        BY <1>10, <3>2, <4>3, <4>5
      <4> DEFINE x == s[w[j]]
                 y == r[w[j]]
                 z == Minutes(w[j], w[j + 1])
                 a == atw[j]
                 b == ato[i - 1]
      <4>7. atw[j + 1] = a + x + z + Buffer
        BY <1>5, <2>1, <2>2, <3>2
      <4>8. ato[i] = b + y + z + Buffer
        BY <1>4, <2>2, <4>3, <4>4, <4>5
      <4>9. x \in Nat /\ y \in Nat /\ x <= y /\ (Equal => x = y)
        BY <1>3, <2>1, <3>2
      <4>10. z \in Nat /\ a \in Int /\ b \in Int
        BY <1>3, <1>4, <1>5, <2>1, <4>3, Places
      <4> HIDE DEF x, y, z, a, b, Equal
      <4>11. a <= b /\ (Equal => a = b)
        BY <4>6 DEF a, b
      <4>12. a + x + z + Buffer <= b + y + z + Buffer
        BY <1>6, <4>9, <4>10, <4>11
      <4>13. QED
        BY <4>7, <4>8, <4>9, <4>11, <4>12
    <3>3. QED
      BY <3>1, <3>2
  <2> HIDE DEF Equal
  <2>3. QED
    BY <2>1, <2>2
<1>11. 1 .. n \subseteq P
  <2>1. 1 \in Int /\ n \in Int
    BY <1>3
  <2> HIDE DEF P
  <2>2. QED
    BY <1>9, <1>10, <2>1, RangeInduction
<1>12. QED
  BY <1>3, <1>11 DEF SameDay, w, ato, atw

--------------------------------------------------------------------------------
(* The trimming.                                                            *)

(* What may have been dropped at any time: unprotected places of the given  *)
(* days, which overflow with every stay shortened, and never so many of a   *)
(* day that fewer than KeepMin are left.                                    *)
DropSets(o, days) ==
  {gone \in SUBSET DOMAIN given :
     /\ \A id \in gone : /\ ~Protected(id)
                         /\ Day(id) \in days
                         /\ Day(id) \in Overflows(o, Short)
     /\ \A d \in Days : \/ Cardinality(Left(o, gone, d)) >= KeepMin
                        \/ \A id \in gone : Day(id) # d}

LEMMA ShortIs == Short \in [DOMAIN given -> Nat] /\ \A id \in DOMAIN given : Short[id] = Floor
  BY ItineraryAssumption DEF Short

LEMMA LeftIs ==
  ASSUME given \in Given, NEW o \in Orders, NEW gone, NEW d
  PROVE  /\ Left(o, gone, d) \in SUBSET DOMAIN o /\ Left(o, gone, d) \in SUBSET Int
         /\ IsFiniteSet(Left(o, gone, d)) /\ Cardinality(Left(o, gone, d)) \in Nat
<1>1. Left(o, gone, d) \in SUBSET DOMAIN o
  BY DEF Left
<1>2. o \in Seq(DOMAIN given)
  BY OrdersAre
<1>3. QED
  BY <1>1, <1>2, Positions

(* Trimming leaves something to visit.                                      *)
LEMMA SomethingIsLeft ==
  ASSUME given \in Given, NEW o \in Orders, o # << >>, NEW days, NEW gone \in DropSets(o, days)
  PROVE  Without(o, gone) # << >>
<1>1. gone \in SUBSET DOMAIN given
  BY DEF DropSets
<1>2. 1 \in DOMAIN o /\ o[1] \in DOMAIN given
  BY RebuildLegsIs, OrdersAre
<1> DEFINE d == Day(o[1])
<1>3. \E i \in DOMAIN o : o[i] \notin gone
  <2>1. d \in Days
    BY <1>2, Places
  <2>2. CASE Cardinality(Left(o, gone, d)) >= KeepMin
    <3>1. KeepMin \in Nat \ {0}
      BY ItineraryAssumption
    <3>2. Cardinality(Left(o, gone, d)) # 0
      BY <2>2, <3>1, LeftIs
    <3>3. Left(o, gone, d) # {}
      BY <3>2, LeftIs, FS_EmptySet
    <3>4. QED
      BY <3>3 DEF Left
  <2>3. CASE \A id \in gone : Day(id) # d
    BY <1>2, <2>3
  <2>4. QED
    BY <2>1, <2>2, <2>3 DEF DropSets
<1>4. \E n \in DOMAIN Without(o, gone) : TRUE
  BY <1>1, <1>3, WithoutIs
<1>5. QED
  BY <1>4

(* One pass over a day.                                                     *)
LEMMA TrimPassKeeps ==
  ASSUME given \in Given, NEW o \in Orders, o # << >>,
         NEW days \in SUBSET Days, NEW d \in days,
         NEW s \in [DOMAIN given -> Nat],
         \A id \in DOMAIN given : Day(id) \in days => s[id] <= Floor,
         NEW gone \in DropSets(o, days)
  PROVE  TrimPass(o, d, s, gone) \in DropSets(o, days)
<1> DEFINE left == Left(o, gone, d)
           removable == {i \in left : ~Protected(o[i])}
           x == LastOf(removable)
           more == gone \cup {o[x]}
<1>1. CASE d \notin Overflows(Without(o, gone), s) \/ Cardinality(left) <= KeepMin \/ removable = {}
  BY <1>1 DEF TrimPass
<1>2. CASE ~(d \notin Overflows(Without(o, gone), s) \/ Cardinality(left) <= KeepMin \/ removable = {})
  <2>1. TrimPass(o, d, s, gone) = more
    BY <1>2 DEF TrimPass
  <2>2. d \in Overflows(Without(o, gone), s) /\ Cardinality(left) > KeepMin
    <3>1. Cardinality(left) \in Nat /\ KeepMin \in Nat
      BY LeftIs, ItineraryAssumption
    <3>2. QED
      BY <1>2, <3>1
  <2>3. x \in removable
    <3>1. removable \in SUBSET left /\ removable # {}
      BY <1>2
    <3>2. removable \in SUBSET Int /\ IsFiniteSet(removable)
      BY <3>1, LeftIs, FS_Subset
    <3>3. Cardinality(removable) \in Nat /\ Cardinality(removable) # 0
      BY <3>1, <3>2, FS_EmptySet, FS_CardinalityType
    <3> HIDE DEF removable
    <3>4. InOrder(removable) \in [1 .. Cardinality(removable) -> removable]
      BY <3>2, InOrderIs
    <3>5. Cardinality(removable) \in 1 .. Cardinality(removable)
      BY <3>3
    <3>6. QED
      BY <3>4, <3>5 DEF LastOf
  <2>4. x \in left /\ x \in DOMAIN o /\ Day(o[x]) = d /\ o[x] \notin gone /\ ~Protected(o[x])
    BY <2>3 DEF Left
  <2> HIDE DEF x, left
  <2>5. o[x] \in DOMAIN given /\ gone \in SUBSET DOMAIN given
    BY <2>4, OrdersAre DEF DropSets
  <2>6. d \in Overflows(o, Short)
    <3>1. CASE \E id \in gone : Day(id) = d
      BY <3>1 DEF DropSets
    <3>2. CASE \A id \in gone : Day(id) # d
      <4> DEFINE w == Without(o, gone)
                 ato == VisitStarts(o, RebuildLegs(o), Short)
                 atw == VisitStarts(w, RebuildLegs(w), s)
                 t == PlanTimeline(w, RebuildLegs(w), s)
                 T == PlanTimeline(o, RebuildLegs(o), Short)
      <4>1. w \in Orders /\ \A n \in DOMAIN w : \E i \in DOMAIN o : w[n] = o[i]
        BY <2>5, WithoutIs
      <4>2. w # << >>
        BY SomethingIsLeft
      <4>3. \A id \in DOMAIN given : Day(id) = d => s[id] <= Short[id]
        BY ShortIs
      <4>4. PICK j \in DOMAIN w : Day(w[j]) = d /\ atw[j] + s[w[j]] > End
        <5> HIDE DEF w
        <5>1. Overflows(w, s) = Overflowing(t)
          BY <4>1, <4>2, PlanTimelineIs
        <5>2. d \in Overflowing(t)
          BY <2>2, <5>1 DEF w
        <5> HIDE DEF t, atw
        <5>3. d \in Overflowing(t) <=> \E j \in DOMAIN w : Day(w[j]) = d /\ atw[j] + s[w[j]] > End
          BY <4>1, <4>2, PlanTimelineIs DEF t, atw
        <5>4. QED
          BY <5>2, <5>3
      <4>5. PICK i \in DOMAIN o : w[j] = o[i]
        BY <4>1
      <4>6. atw[j] <= ato[i]
        <5>1. SameDay(o, gone, d, Short, s)
          BY <2>5, <3>2, <4>2, <4>3, ShortIs, DayTiming
        <5>2. QED
          BY <4>4, <4>5, <5>1 DEF SameDay
      <4>7. ato[i] + Short[o[i]] > End
        <5> DEFINE a == atw[j]
                   b == ato[i]
                   y == s[w[j]]
                   z == Short[o[i]]
        <5>1. a \in Int
          BY <4>1, <4>2, <4>4, VisitStartsAre
        <5>2. b \in Int
          BY <4>5, ShortIs, VisitStartsAre
        <5>3. y \in Nat /\ z \in Nat /\ y <= z
          <6>1. o[i] \in DOMAIN given
            BY OrdersAre
          <6>2. QED
            BY <4>3, <4>4, <4>5, <6>1, ShortIs
        <5>4. a <= b /\ a + y > End
          BY <4>4, <4>6
        <5>5. End \in Nat
          BY ItineraryAssumption
        <5> HIDE DEF a, b, y, z
        <5>6. b + z > End
          BY <5>1, <5>2, <5>3, <5>4, <5>5
        <5>7. QED
          BY <5>6 DEF b, z
      <4>8. Day(o[i]) = d
        BY <4>4, <4>5
      <4>9. Overflows(o, Short) = Overflowing(T)
        BY ShortIs, PlanTimelineIs
      <4> HIDE DEF T, ato
      <4>10. d \in Overflowing(T)
                <=> \E k \in DOMAIN o : Day(o[k]) = d /\ ato[k] + Short[o[k]] > End
        BY ShortIs, PlanTimelineIs DEF T, ato
      <4>11. QED
        BY <4>7, <4>8, <4>9, <4>10
    <3>3. QED
      BY <3>1, <3>2
  <2>7. \A id \in more : ~Protected(id) /\ Day(id) \in days /\ Day(id) \in Overflows(o, Short)
    <3>1. \A id \in gone : ~Protected(id) /\ Day(id) \in days /\ Day(id) \in Overflows(o, Short)
      BY DEF DropSets
    <3>2. QED
      BY <2>4, <2>6, <3>1
  <2>8. ASSUME NEW e \in Days
        PROVE  Cardinality(Left(o, more, e)) >= KeepMin \/ \A id \in more : Day(id) # e
    <3>1. CASE e = d
      <4>1. Left(o, more, d) = left \ {x}
        <5>1. \A i \in DOMAIN o : o[i] = o[x] => i = x
          BY <2>4, OrdersAre
        <5>2. QED
          BY <2>4, <5>1 DEF Left, left
      <4>2. IsFiniteSet(left) /\ Cardinality(left) \in Nat
        BY LeftIs DEF left
      <4>3. Cardinality(Left(o, more, d)) = Cardinality(left) - 1
        BY <2>4, <4>1, <4>2, FS_RemoveElement
      <4>4. KeepMin \in Nat
        BY ItineraryAssumption
      <4>5. QED
        BY <2>2, <3>1, <4>2, <4>3, <4>4
    <3>2. CASE e # d
      <4>1. Left(o, more, e) = Left(o, gone, e)
        BY <2>4, <3>2 DEF Left
      <4>2. Cardinality(Left(o, gone, e)) >= KeepMin \/ \A id \in gone : Day(id) # e
        BY <2>8 DEF DropSets
      <4>3. QED
        BY <2>4, <3>2, <4>1, <4>2
    <3>3. QED
      BY <3>1, <3>2
  <2>9. more \in SUBSET DOMAIN given
    BY <2>5
  <2> HIDE DEF more
  <2>10. more \in DropSets(o, days)
    BY <2>7, <2>8, <2>9 DEF DropSets
  <2>11. QED
    BY <2>1, <2>10
<1>3. QED
  BY <1>1, <1>2

(* And so all the passes over all the days.                                 *)
LEMMA TrimDayKeeps ==
  ASSUME given \in Given, NEW o \in Orders, o # << >>,
         NEW days \in SUBSET Days, NEW d \in days,
         NEW s \in [DOMAIN given -> Nat],
         \A id \in DOMAIN given : Day(id) \in days => s[id] <= Floor,
         NEW dropped \in DropSets(o, days)
  PROVE  TrimDay(o, d, s, dropped) \in DropSets(o, days)
<1> DEFINE passes == Cardinality(Left(o, dropped, d))
           step == [pass \in 1 .. passes |-> [gone \in SUBSET DOMAIN given |-> TrimPass(o, d, s, gone)]]
           I == [pass \in 0 .. passes |-> DropSets(o, days)]
<1>1. passes \in Nat
  BY LeftIs
<1> HIDE DEF passes
<1>2. ASSUME NEW i \in 1 .. passes, NEW gone \in I[i - 1] PROVE step[i][gone] \in I[i]
  <2>1. gone \in DropSets(o, days) /\ I[i] = DropSets(o, days)
    BY <1>1
  <2>2. gone \in SUBSET DOMAIN given
    BY <2>1 DEF DropSets
  <2>3. step[i][gone] = TrimPass(o, d, s, gone)
    BY <2>2
  <2>4. QED
    BY <2>1, <2>3, TrimPassKeeps
<1>3. dropped \in I[0] /\ I[passes] = DropSets(o, days)
  BY <1>1
<1>4. Loop(step, dropped, 1, passes) \in I[passes]
  <2>1. 1 - 1 = 0 /\ 1 - 1 <= passes /\ passes \in Int
    BY <1>1
  <2> HIDE DEF step, I
  <2>2. QED
    BY <1>2, <1>3, <2>1, LoopInvariant
<1>5. QED
  BY <1>3, <1>4 DEF TrimDay, passes

LEMMA DroppedIs ==
  ASSUME given \in Given, NEW o \in Orders, o # << >>,
         NEW days \in SUBSET Days,
         NEW s \in [DOMAIN given -> Nat],
         \A id \in DOMAIN given : Day(id) \in days => s[id] <= Floor
  PROVE  Dropped(o, days, s) \in DropSets(o, days)
<1> DEFINE day == InOrder(days)
           N == Cardinality(days)
           step == [m \in DOMAIN day |-> [gone \in SUBSET DOMAIN given |-> TrimDay(o, day[m], s, gone)]]
           I == [m \in 0 .. N |-> DropSets(o, days)]
<1>1. N \in Nat /\ day \in [1 .. N -> days]
  <2>1. days \in SUBSET Int /\ IsFiniteSet(days)
    BY Places, FS_Subset
  <2>2. QED
    BY <2>1, InOrderIs
<1>2. Len(day) = N /\ DOMAIN day = 1 .. N
  BY <1>1, FunctionIsList
<1> HIDE DEF day, N
<1>3. ASSUME NEW i \in 1 .. N, NEW gone \in I[i - 1] PROVE step[i][gone] \in I[i]
  <2>1. gone \in DropSets(o, days) /\ I[i] = DropSets(o, days)
    BY <1>1
  <2>2. gone \in SUBSET DOMAIN given
    BY <2>1 DEF DropSets
  <2>3. step[i][gone] = TrimDay(o, day[i], s, gone) /\ day[i] \in days
    BY <1>1, <1>2, <2>2
  <2> HIDE DEF step, I
  <2>4. TrimDay(o, day[i], s, gone) \in DropSets(o, days)
    BY <2>1, <2>3, TrimDayKeeps
  <2>5. QED
    BY <2>1, <2>3, <2>4
<1>4. {} \in I[0] /\ I[N] = DropSets(o, days)
  <2>1. {} \in DropSets(o, days)
    BY DEF DropSets
  <2>2. QED
    BY <1>1, <2>1
<1>5. Loop(step, {}, 1, N) \in I[N]
  <2>1. 1 - 1 = 0 /\ 1 - 1 <= N /\ N \in Int
    BY <1>1
  <2> HIDE DEF step, I
  <2>2. QED
    BY <1>3, <1>4, <2>1, LoopInvariant
<1>6. QED
  BY <1>2, <1>4, <1>5 DEF Dropped, day

--------------------------------------------------------------------------------
(* The nodes.                                                               *)

(* No timeline, or hub did not answer.                                      *)
Untimed == stay = << >> /\ timeline = << >> /\ overflow = {} /\ status \in {"none", "unverified"}

(* A timeline of the whole order.                                           *)
Timed ==
  /\ stay \in [DOMAIN given -> Stays]
  /\ timeline = PlanTimeline(order, legs, stay)
  /\ overflow = Overflowing(timeline)
  /\ status = "ok"

(* What each node finds.  The result at the end has all the properties.     *)
Inv ==
  /\ node \in {"recommend_route", "build_timeline", "fit_time_budget", "end"}
  /\ given \in Given /\ HandedOver(stage, given)
  /\ node # "end" => places = [i \in DOMAIN given |-> i] /\ failed = FALSE
  /\ node = "recommend_route" => order = << >>
  /\ node \in {"build_timeline", "fit_time_budget"} =>
       order = VisitOrder /\ legs = RebuildLegs(order)
  /\ node \in {"recommend_route", "build_timeline"} => Untimed
  /\ node = "fit_time_budget" => Untimed \/ Timed
  /\ node = "end" => TypeOK /\ Consistent /\ Walkable /\ CallersPlacesKept /\ TrimsOnlyWhatOverflows

LEMMA SameOrder ==
  ASSUME given' = given
  PROVE  OrderedByDay' = OrderedByDay
<1>1. Days' = Days /\ \A d : DayOrder(d)' = DayOrder(d)
  BY DEF DayOrder, PlacesOn, Days, Day, Km
<1>2. QED
  BY <1>1 DEF OrderedByDay

(* A request that does not change has the same order and timings after a    *)
(* step as before it.                                                       *)
LEMMA SameRequest ==
  ASSUME UNCHANGED request
  PROVE  /\ \A id : Day(id)' = Day(id)
         /\ Days' = Days /\ OrderedByDay' = OrderedByDay /\ VisitOrder' = VisitOrder
         /\ HandedOver(stage, given)' = HandedOver(stage, given)
<1>1. given' = given /\ stage' = stage /\ optimize' = optimize
  BY DEF request
<1>2. OrderedByDay' = OrderedByDay
  BY <1>1, SameOrder
<1>3. VisitOrder' = VisitOrder
  BY <1>1, <1>2 DEF VisitOrder
<1>4. (\A id : Day(id)' = Day(id)) /\ Days' = Days
  BY <1>1 DEF Days, Day
<1>5. HandedOver(stage, given)' = HandedOver(stage, given)
  BY <1>1 DEF HandedOver, Ascending, Covered, NonePinned
<1>6. QED
  BY <1>2, <1>3, <1>4, <1>5

LEMMA SameOverflows ==
  ASSUME UNCHANGED request, NEW o, NEW s
  PROVE  Overflows(o, s)' = Overflows(o, s)
<1>1. given' = given
  BY DEF request
<1>2. QED
  BY <1>1 DEF Overflows, Overflowing, PlanTimeline, RebuildLegs, VisitStarts, Day, Minutes

LEMMA SameTimes ==
  ASSUME UNCHANGED <<request, route, times>>
  PROVE  Timed' = Timed /\ Untimed' = Untimed
<1>1. /\ given' = given /\ order' = order /\ legs' = legs /\ stay' = stay
      /\ timeline' = timeline /\ overflow' = overflow /\ status' = status
  BY DEF request, route, times
<1>2. QED
  BY <1>1 DEF Timed, Untimed, PlanTimeline, VisitStarts, Overflowing, Day

(* What fit_time_budget finds.                                              *)
LEMMA Ready ==
  ASSUME Inv, node = "fit_time_budget"
  PROVE  /\ given \in Given /\ HandedOver(stage, given)
         /\ order \in Orders /\ Complete(order) /\ order # << >> /\ Range(order) = DOMAIN given
         /\ order = VisitOrder /\ legs = RebuildLegs(order)
         /\ places = [i \in DOMAIN given |-> i] /\ places \in Seq(DOMAIN given)
         /\ Range(places) = DOMAIN given
         /\ \A i, k \in DOMAIN places : places[i] = places[k] => i = k
         /\ failed = FALSE
         /\ Untimed \/ Timed
         /\ overflow \subseteq Days
<1>1. /\ given \in Given /\ HandedOver(stage, given)
      /\ order = VisitOrder /\ legs = RebuildLegs(order)
      /\ places = [i \in DOMAIN given |-> i] /\ failed = FALSE
      /\ Untimed \/ Timed
  BY DEF Inv
<1>2. order \in Orders /\ Complete(order)
  BY <1>1, VisitOrderIs
<1>3. /\ Len(given) \in Nat /\ Len(given) >= 2 /\ DOMAIN given = 1 .. Len(given)
  BY <1>1, Places DEF HandedOver
<1>4. order # << >>
  <2>1. 1 \in DOMAIN given
    BY <1>3
  <2>2. \E i \in DOMAIN order : TRUE
    BY <1>2, <2>1 DEF Complete
  <2>3. QED
    BY <2>2
<1>5. Range(order) = DOMAIN given
  <2>1. \A i \in DOMAIN order : order[i] \in DOMAIN given
    BY <1>1, <1>2, OrdersAre
  <2>2. QED
    BY <1>2, <2>1 DEF Complete, Range
<1>6. /\ places \in Seq(DOMAIN given) /\ Range(places) = DOMAIN given
      /\ \A i, k \in DOMAIN places : places[i] = places[k] => i = k
  <2>1. places \in [1 .. Len(given) -> DOMAIN given]
    BY <1>1, <1>3
  <2>2. places \in Seq(DOMAIN given)
    BY <1>3, <2>1, FunctionIsList
  <2>3. QED
    BY <1>1, <2>2 DEF Range
<1>7. overflow \subseteq Days
  <2>1. CASE Untimed
    BY <2>1 DEF Untimed
  <2>2. CASE Timed
    <3>1. stay \in [DOMAIN given -> Nat]
      BY <2>2, ItineraryAssumption DEF Timed
    <3>2. DOMAIN timeline = DOMAIN given
      BY <1>5, <2>2 DEF Timed, PlanTimeline
    <3>3. QED
      BY <2>2, <3>2 DEF Timed, Overflowing, Days
  <2>3. QED
    BY <1>1, <2>1, <2>2
<1>8. QED
  BY <1>1, <1>2, <1>4, <1>5, <1>6, <1>7

(* Dropping places from a list without repetition.                          *)
LEMMA WithoutPlaces ==
  ASSUME NEW S, NEW p \in Seq(S), \A i, k \in DOMAIN p : p[i] = p[k] => i = k, NEW gone
  PROVE  /\ Without(p, gone) \in Seq(S)
         /\ \A i, k \in DOMAIN Without(p, gone) : Without(p, gone)[i] = Without(p, gone)[k] => i = k
         /\ Range(Without(p, gone)) = Range(p) \ gone
<1> DEFINE keep == {i \in DOMAIN p : p[i] \notin gone}
           w == Sublist(p, keep)
           N == Cardinality(keep)
           at == InOrder(keep)
<1>1. /\ N \in Nat /\ keep \in SUBSET Int /\ w \in Seq(S) /\ DOMAIN w = 1 .. N
      /\ at \in [1 .. N -> keep]
      /\ \A i \in keep : \E n \in 1 .. N : at[n] = i
      /\ \A m, n \in 1 .. N : m < n => at[m] < at[n]
      /\ \A n \in 1 .. N : w[n] = p[at[n]]
  <2>1. keep \in SUBSET DOMAIN p
    OBVIOUS
  <2> HIDE DEF keep
  <2>2. QED
    BY <2>1, SublistIs
<1>2. \A i : i \in keep <=> i \in DOMAIN p /\ p[i] \notin gone
  OBVIOUS
<1> HIDE DEF keep, w, N, at
<1>3. \A m, n \in 1 .. N : w[m] = w[n] => m = n
  <2>1. ASSUME NEW m \in 1 .. N, NEW n \in 1 .. N, w[m] = w[n] PROVE m = n
    <3>1. at[m] = at[n] /\ at[m] \in Int
      BY <1>1, <1>2, <2>1
    <3>2. QED
      BY <1>1, <3>1
  <2>2. QED
    BY <2>1
<1>4. Range(w) = Range(p) \ gone
  <2>1. ASSUME NEW x \in Range(w) PROVE x \in Range(p) \ gone
    <3>1. PICK n \in 1 .. N : x = p[at[n]]
      BY <1>1, <2>1 DEF Range
    <3>2. at[n] \in keep
      BY <1>1, <3>1
    <3>3. QED
      BY <1>2, <3>1, <3>2 DEF Range
  <2>2. ASSUME NEW x \in Range(p), x \notin gone PROVE x \in Range(w)
    <3>1. PICK i \in DOMAIN p : x = p[i]
      BY DEF Range
    <3>2. i \in keep
      BY <1>2, <2>2, <3>1
    <3>3. PICK n \in 1 .. N : at[n] = i
      BY <1>1, <3>2
    <3>4. QED
      BY <1>1, <3>1, <3>3 DEF Range
  <2>3. QED
    BY <2>1, <2>2
<1>5. Without(p, gone) = w
  BY DEF Without, w, keep
<1>6. QED
  BY <1>1, <1>3, <1>4, <1>5

(* What fit_time_budget trims.                                              *)
LEMMA Trimming ==
  ASSUME Inv, node = "fit_time_budget", overflow # {},
         NEW s, s = Shortened(stay, overflow),
         NEW gone, gone = Dropped(order, overflow, s)
  PROVE  /\ Timed /\ stay \in [DOMAIN given -> Nat]
         /\ s \in [DOMAIN given -> Nat]
         /\ \A id \in DOMAIN given : Day(id) \notin overflow => s[id] = stay[id]
         /\ gone \in DropSets(order, overflow) /\ gone \in SUBSET DOMAIN given
         /\ Without(order, gone) \in Orders /\ Without(order, gone) # << >>
         /\ Range(Without(order, gone)) = DOMAIN given \ gone
         /\ Without(places, gone) \in Seq(DOMAIN given)
         /\ \A i, k \in DOMAIN Without(places, gone) :
              Without(places, gone)[i] = Without(places, gone)[k] => i = k
         /\ Range(Without(places, gone)) = DOMAIN given \ gone
<1>1. Timed
  BY Ready DEF Untimed
<1>2. stay \in [DOMAIN given -> Nat] /\ Floor \in Nat
  BY <1>1, ItineraryAssumption DEF Timed
<1>3. /\ s \in [DOMAIN given -> Nat]
      /\ \A id \in DOMAIN given : Day(id) \in overflow => s[id] <= Floor
      /\ \A id \in DOMAIN given : Day(id) \notin overflow => s[id] = stay[id]
  BY <1>2 DEF Shortened
<1>4. /\ given \in Given /\ order \in Orders /\ order # << >> /\ overflow \in SUBSET Days
      /\ Range(order) = DOMAIN given
  BY Ready
<1>5. gone \in DropSets(order, overflow)
  BY <1>3, <1>4, DroppedIs
<1>6. gone \in SUBSET DOMAIN given
  BY <1>5 DEF DropSets
<1>7. Without(order, gone) \in Orders /\ Without(order, gone) # << >>
  BY <1>4, <1>5, <1>6, WithoutIs, SomethingIsLeft
<1>8. Range(Without(order, gone)) = DOMAIN given \ gone
  BY <1>4, OrdersAre, WithoutPlaces
<1>9. /\ Without(places, gone) \in Seq(DOMAIN given)
      /\ \A i, k \in DOMAIN Without(places, gone) :
           Without(places, gone)[i] = Without(places, gone)[k] => i = k
      /\ Range(Without(places, gone)) = DOMAIN given \ gone
  BY Ready, WithoutPlaces
<1>10. QED
  BY <1>1, <1>2, <1>3, <1>5, <1>6, <1>7, <1>8, <1>9

(* A timeline without overflow can be walked.                               *)
LEMMA TimelineIsWalkable ==
  ASSUME given \in Given, NEW o \in Orders, o # << >>, NEW s \in [DOMAIN given -> Nat],
         NEW t, t = PlanTimeline(o, RebuildLegs(o), s), Overflowing(t) = {}
  PROVE  \A a, b \in DOMAIN t :
           /\ Start <= t[a].start /\ t[a].end <= End
           /\ t[a].end = t[a].start + s[a]
           /\ a # b /\ Day(a) = Day(b) /\ t[a].start <= t[b].start =>
                t[a].end + Buffer + 1 <= t[b].start
           /\ \A i \in DOMAIN RebuildLegs(o) :
                RebuildLegs(o)[i].from = a /\ RebuildLegs(o)[i].to = b /\ Day(a) = Day(b) =>
                  t[b].start - t[a].end = RebuildLegs(o)[i].minutes + Buffer
<1> DEFINE at == VisitStarts(o, RebuildLegs(o), s)
<1>0. at = VisitStarts(o, RebuildLegs(o), s)
  OBVIOUS
<1> HIDE DEF at
<1>1. /\ DOMAIN o = 1 .. Len(o) /\ Len(o) \in Nat
      /\ \A i \in DOMAIN o : o[i] \in DOMAIN given
      /\ \A i, k \in DOMAIN o : o[i] = o[k] => i = k
  BY OrdersAre
<1>2. /\ \A i \in DOMAIN o : at[i] \in Int /\ at[i] >= Start
      /\ \A i \in 2 .. Len(o) :
           at[i] = IF Day(o[i]) # Day(o[i - 1]) THEN Start
                   ELSE at[i - 1] + s[o[i - 1]] + Minutes(o[i - 1], o[i]) + Buffer
  BY <1>0, VisitStartsAre
<1>3. /\ DOMAIN t = Range(o)
      /\ \A i \in DOMAIN o : /\ t[o[i]].start = at[i]
                             /\ t[o[i]].end = at[i] + s[o[i]]
      /\ Overflows(o, s) = Overflowing(t)
      /\ \A d : d \in Overflowing(t)
                  <=> \E i \in DOMAIN o : Day(o[i]) = d /\ at[i] + s[o[i]] > End
  BY <1>0, PlanTimelineIs, SMTT(30)
<1>4. /\ Start \in Nat /\ End \in Nat /\ Buffer \in Nat
      /\ \A i \in DOMAIN o : s[o[i]] \in Nat
  BY <1>1, ItineraryAssumption
<1>5. \A i \in DOMAIN o : ~(at[i] + s[o[i]] > End)
  BY <1>3
<1>6. SUFFICES ASSUME NEW i \in DOMAIN o, NEW k \in DOMAIN o
      PROVE  /\ Start <= t[o[i]].start /\ t[o[i]].end <= End
             /\ t[o[i]].end = t[o[i]].start + s[o[i]]
             /\ o[i] # o[k] /\ Day(o[i]) = Day(o[k]) /\ t[o[i]].start <= t[o[k]].start =>
                  t[o[i]].end + Buffer + 1 <= t[o[k]].start
             /\ \A m \in DOMAIN RebuildLegs(o) :
                  RebuildLegs(o)[m].from = o[i] /\ RebuildLegs(o)[m].to = o[k] /\ Day(o[i]) = Day(o[k]) =>
                    t[o[k]].start - t[o[i]].end = RebuildLegs(o)[m].minutes + Buffer
  BY <1>3 DEF Range
<1> DEFINE a == at[i]
           b == at[k]
           x == s[o[i]]
           y == s[o[k]]
<1>7. a \in Int /\ b \in Int /\ x \in Nat /\ y \in Nat /\ a >= Start
  BY <1>2, <1>4
<1>8. /\ t[o[i]].start = a /\ t[o[k]].start = b
      /\ t[o[i]].end = a + x /\ t[o[k]].end = b + y
  BY <1>3
<1>9. ~(a + x > End)
  BY <1>5
<1> HIDE DEF a, b, x, y
<1>10. Start <= a /\ a + x <= End
  BY <1>4, <1>7, <1>9
<1>11. ASSUME o[i] # o[k], Day(o[i]) = Day(o[k]), a <= b PROVE a + x + Buffer + 1 <= b
  <2>1. i \in Int /\ k \in Int /\ i # k
    BY <1>1, <1>11
  <2>2. CASE i < k
    <3>1. at[i] + s[o[i]] + Buffer + 1 <= at[k]
      BY <1>0, <1>11, <2>2, Gaps
    <3>2. QED
      BY <3>1 DEF a, b, x
  <2>3. CASE k < i
    <3>1. at[k] + s[o[k]] + Buffer + 1 <= at[i]
      BY <1>0, <1>11, <2>3, Gaps
    <3>2. b + y + Buffer + 1 <= a
      BY <3>1 DEF a, b, y
    <3>3. QED
      BY <1>4, <1>7, <1>11, <3>2
  <2>4. QED
    BY <2>1, <2>2, <2>3
<1>12. ASSUME NEW m \in DOMAIN RebuildLegs(o), RebuildLegs(o)[m].from = o[i],
              RebuildLegs(o)[m].to = o[k], Day(o[i]) = Day(o[k])
       PROVE  b - (a + x) = RebuildLegs(o)[m].minutes + Buffer
  <2>1. /\ m \in 1 .. Len(o) - 1 /\ m \in DOMAIN o /\ m + 1 \in DOMAIN o
        /\ o[m] = o[i] /\ o[m + 1] = o[k]
        /\ RebuildLegs(o)[m].minutes = Minutes(o[m], o[m + 1])
    BY <1>12, RebuildLegsIs
  <2>2. m = i /\ k = i + 1
    BY <1>1, <2>1
  <2>3. k \in 2 .. Len(o) /\ k - 1 = i
    BY <1>1, <2>1, <2>2
  <2> DEFINE z == Minutes(o[i], o[k])
  <2>4. b = a + x + z + Buffer
    BY <1>2, <1>12, <2>3 DEF a, b, x
  <2>5. z \in Nat
    BY <1>1, Places
  <2>6. RebuildLegs(o)[m].minutes = z
    BY <2>1, <2>2
  <2> HIDE DEF z
  <2>7. b - (a + x) = z + Buffer
    BY <1>4, <1>7, <2>4, <2>5
  <2>8. QED
    BY <2>6, <2>7
<1>13. QED
  BY <1>8, <1>10, <1>11, <1>12 DEF x

(* recommend_route and build_timeline.                                      *)
LEMMA InitInv == Init => Inv
<1>1. SUFFICES ASSUME Init PROVE Inv
  OBVIOUS
<1>2. Untimed
  BY <1>1 DEF Init, Untimed
<1>3. /\ node = "recommend_route" /\ given \in Given /\ HandedOver(stage, given)
      /\ places = [i \in DOMAIN given |-> i] /\ failed = FALSE /\ order = << >>
  BY <1>1 DEF Init
<1>4. QED
  BY <1>2, <1>3 DEF Inv

LEMMA RecommendRouteKeeps == Inv /\ RecommendRoute => Inv'
<1>1. SUFFICES ASSUME Inv, RecommendRoute PROVE Inv'
  OBVIOUS
<1>2. /\ node = "recommend_route" /\ node' = "build_timeline"
      /\ order' = VisitOrder /\ legs' = RebuildLegs(order')
      /\ UNCHANGED request
      /\ places' = places /\ failed' = failed /\ UNCHANGED times /\ given' = given
  BY <1>1 DEF RecommendRoute, request
<1>3. /\ given \in Given /\ HandedOver(stage, given)
      /\ places = [i \in DOMAIN given |-> i] /\ failed = FALSE /\ Untimed
  BY <1>1, <1>2 DEF Inv
<1>4. Untimed'
  BY <1>2, <1>3 DEF Untimed, times
<1>5. (given \in Given /\ HandedOver(stage, given))'
  BY <1>2, <1>3, SameRequest
<1>6. (places = [i \in DOMAIN given |-> i] /\ failed = FALSE)'
  BY <1>2, <1>3
<1>7. (order = VisitOrder)'
  BY <1>2, SameRequest
<1>8. (legs = RebuildLegs(order))'
  BY <1>2 DEF RebuildLegs, Minutes
<1>9. QED
  BY <1>2, <1>4, <1>5, <1>6, <1>7, <1>8 DEF Inv

LEMMA BuildTimelineKeeps == Inv /\ BuildTimeline => Inv'
<1>1. SUFFICES ASSUME Inv, BuildTimeline PROVE Inv'
  OBVIOUS
<1>2. /\ node = "build_timeline" /\ node' = "fit_time_budget"
      /\ UNCHANGED request /\ given' = given
      /\ order' = order /\ legs' = legs /\ places' = places /\ failed' = failed
  BY <1>1 DEF BuildTimeline, request, route
<1>3. /\ given \in Given /\ HandedOver(stage, given)
      /\ places = [i \in DOMAIN given |-> i] /\ failed = FALSE /\ Untimed
      /\ order = VisitOrder /\ legs = RebuildLegs(order)
  BY <1>1, <1>2 DEF Inv
<1>4. Untimed' \/ Timed'
  <2>1. CASE UNCHANGED times
    BY <1>3, <2>1 DEF Untimed, times
  <2>2. CASE status' = "unverified" /\ UNCHANGED <<stay, timeline, overflow>>
    BY <1>3, <2>2 DEF Untimed
  <2>3. CASE /\ stay' \in [DOMAIN given -> Stays]
             /\ timeline' = PlanTimeline(order, legs, stay')
             /\ overflow' = Overflowing(timeline')
             /\ status' = "ok"
    <3>1. (timeline = PlanTimeline(order, legs, stay))'
      BY <1>2, <2>3 DEF PlanTimeline, VisitStarts, Day
    <3>2. (overflow = Overflowing(timeline))'
      BY <1>2, <2>3 DEF Overflowing, Day
    <3>3. QED
      BY <1>2, <2>3, <3>1, <3>2 DEF Timed
  <2>4. QED
    BY <1>1, <2>1, <2>2, <2>3 DEF BuildTimeline
<1>5. (given \in Given /\ HandedOver(stage, given))'
  BY <1>2, <1>3, SameRequest
<1>6. (places = [i \in DOMAIN given |-> i] /\ failed = FALSE)'
  BY <1>2, <1>3
<1>7. (order = VisitOrder)'
  BY <1>2, <1>3, SameRequest
<1>8. (legs = RebuildLegs(order))'
  BY <1>2, <1>3 DEF RebuildLegs, Minutes
<1>9. QED
  BY <1>2, <1>4, <1>5, <1>6, <1>7, <1>8 DEF Inv

--------------------------------------------------------------------------------
(* fit_time_budget.                                                         *)

(* The three outcomes of the node, one of which trims.                      *)
Trims == overflow # {} /\ stage # "route" /\ FitTrims

Refuses == overflow # {} /\ stage = "route" /\ FitRefuses

Fits == overflow = {} /\ UNCHANGED <<route, times, failed>>

LEMMA Outcomes ==
  ASSUME FitTimeBudget
  PROVE  /\ node = "fit_time_budget" /\ node' = "end" /\ UNCHANGED request
         /\ given' = given /\ stage' = stage /\ optimize' = optimize
         /\ Fits \/ Refuses \/ Trims
  BY DEF FitTimeBudget, Fits, Refuses, Trims, request

(* A result that fits: what the trimming leaves.                            *)
(* The four values fit_time_budget computes.                                *)
trimStay == Shortened(stay, overflow)

trimDropped == Dropped(order, overflow, trimStay)

trimOrder == Without(order, trimDropped)

trimTimeline == PlanTimeline(trimOrder, RebuildLegs(trimOrder), trimStay)

LEMMA Trimmed ==
  ASSUME Inv, FitTimeBudget, Trims
  PROVE  /\ order' = trimOrder /\ places' = Without(places, trimDropped) /\ legs' = RebuildLegs(trimOrder)
         /\ overflow' = Overflowing(trimTimeline)
         /\ \/ /\ overflow' = {} /\ timeline' = trimTimeline
               /\ stay' = [id \in DOMAIN trimTimeline |-> trimStay[id]]
               /\ status' = "trimmed" /\ failed' = FALSE
            \/ /\ overflow' # {} /\ failed' = TRUE /\ status' = "unverified"
               /\ timeline' = timeline /\ stay' = stay
         /\ given \in Given /\ order = OrderedByDay
         /\ trimStay \in [DOMAIN given -> Nat]
         /\ trimOrder \in Orders /\ trimOrder # << >>
         /\ DOMAIN trimTimeline = Range(trimOrder) /\ Range(trimOrder) = DOMAIN given \ trimDropped
         /\ trimDropped \in DropSets(order, overflow) /\ trimDropped \in SUBSET DOMAIN given
         /\ places' \in Seq(DOMAIN given)
         /\ \A i, k \in DOMAIN places' : places'[i] = places'[k] => i = k
         /\ Range(places') = DOMAIN given \ trimDropped
<1>1. /\ order' = trimOrder /\ places' = Without(places, trimDropped) /\ legs' = RebuildLegs(trimOrder)
      /\ overflow' = Overflowing(trimTimeline)
      /\ \/ /\ overflow' = {} /\ timeline' = trimTimeline
               /\ stay' = [id \in DOMAIN trimTimeline |-> trimStay[id]]
            /\ status' = "trimmed" /\ failed' = failed
         \/ /\ overflow' # {} /\ failed' = TRUE /\ status' = "unverified"
            /\ timeline' = timeline /\ stay' = stay
  BY DEF Trims, FitTrims, trimStay, trimDropped, trimOrder, trimTimeline
<1>2. node = "fit_time_budget" /\ overflow # {} /\ stage # "route"
  BY Outcomes DEF Trims
<1>3. failed = FALSE /\ order = VisitOrder /\ given \in Given
  BY <1>2, Ready
<1>4. order = OrderedByDay
  BY <1>2, <1>3 DEF VisitOrder
<1>5. /\ trimStay \in [DOMAIN given -> Nat]
      /\ trimOrder \in Orders /\ trimOrder # << >> /\ Range(trimOrder) = DOMAIN given \ trimDropped
      /\ trimDropped \in DropSets(order, overflow) /\ trimDropped \in SUBSET DOMAIN given
      /\ Without(places, trimDropped) \in Seq(DOMAIN given)
      /\ \A i, k \in DOMAIN Without(places, trimDropped) :
           Without(places, trimDropped)[i] = Without(places, trimDropped)[k] => i = k
      /\ Range(Without(places, trimDropped)) = DOMAIN given \ trimDropped
  BY <1>2, Trimming DEF trimStay, trimDropped, trimOrder
<1>6. DOMAIN trimTimeline = Range(trimOrder)
  BY DEF PlanTimeline, trimTimeline
<1>7. QED
  BY <1>1, <1>3, <1>4, <1>5, <1>6

(* Types.                                                                   *)
LEMMA EarlyTypes == Inv => TypeOK
<1>1. SUFFICES ASSUME Inv PROVE TypeOK
  OBVIOUS
<1>2. CASE node = "end"
  BY <1>1, <1>2 DEF Inv
<1>3. CASE node = "fit_time_budget"
  <2>1. /\ Range(places) = DOMAIN given /\ Range(order) = DOMAIN given
        /\ failed = FALSE /\ overflow \subseteq Days
        /\ Untimed \/ Timed
    BY <1>1, <1>3, Ready
  <2>2. DOMAIN timeline = DOMAIN stay /\ status \in {"none", "ok", "trimmed", "unverified"}
    BY <2>1 DEF Timed, Untimed, PlanTimeline
  <2>3. QED
    BY <1>3, <2>1, <2>2 DEF TypeOK
<1>4. CASE node \in {"recommend_route", "build_timeline"}
  <2>1. /\ given \in Given /\ HandedOver(stage, given) /\ Untimed /\ failed = FALSE
        /\ places = [i \in DOMAIN given |-> i]
        /\ node = "recommend_route" => order = << >>
        /\ node = "build_timeline" => order = VisitOrder
    BY <1>1, <1>4 DEF Inv
  <2>2. Range(places) \subseteq DOMAIN given
    BY <2>1 DEF Range
  <2>3. Range(order) \subseteq DOMAIN given
    <3>1. CASE order = << >>
      BY <3>1 DEF Range
    <3>2. CASE order = VisitOrder
      <4>1. order \in Orders
        BY <2>1, <3>2, VisitOrderIs
      <4>2. \A i \in DOMAIN order : order[i] \in DOMAIN given
        BY <2>1, <4>1, OrdersAre
      <4>3. QED
        BY <4>2 DEF Range
    <3>3. QED
      BY <1>4, <2>1, <3>1, <3>2
  <2>4. DOMAIN timeline = DOMAIN stay /\ overflow \subseteq Days
    BY <2>1 DEF Untimed
  <2>5. status \in {"none", "ok", "trimmed", "unverified"}
    BY <2>1 DEF Untimed
  <2>6. QED
    BY <1>4, <2>1, <2>2, <2>3, <2>4, <2>5 DEF TypeOK
<1>5. QED
  BY <1>1, <1>2, <1>3, <1>4 DEF Inv

LEMMA FitTypes == Inv /\ FitTimeBudget => TypeOK'
<1>1. SUFFICES ASSUME Inv, FitTimeBudget PROVE TypeOK'
  OBVIOUS
<1>2. /\ node = "fit_time_budget" /\ node' = "end" /\ given' = given /\ Days' = Days
      /\ Fits \/ Refuses \/ Trims
  BY <1>1, Outcomes, SameRequest
<1>3. TypeOK
  BY <1>1, EarlyTypes
<1>4. CASE Fits
  BY <1>2, <1>3, <1>4 DEF Fits, TypeOK, Range, route, times
<1>5. CASE Refuses
  BY <1>2, <1>3, <1>5 DEF Refuses, FitRefuses, TypeOK, Range, route
<1>6. CASE Trims
  <2>1. /\ order' = trimOrder /\ overflow' = Overflowing(trimTimeline)
        /\ \/ /\ overflow' = {} /\ timeline' = trimTimeline
              /\ stay' = [id \in DOMAIN trimTimeline |-> trimStay[id]]
              /\ status' = "trimmed" /\ failed' = FALSE
           \/ /\ overflow' # {} /\ failed' = TRUE /\ status' = "unverified"
              /\ timeline' = timeline /\ stay' = stay
        /\ DOMAIN trimTimeline = Range(trimOrder)
        /\ Range(trimOrder) = DOMAIN given \ trimDropped
        /\ Range(places') = DOMAIN given \ trimDropped
    BY <1>1, <1>6, Trimmed
  <2>2. overflow' \subseteq Days
    BY <2>1 DEF Overflowing, Days
  <2>3. DOMAIN timeline' = DOMAIN stay'
    BY <1>3, <2>1 DEF TypeOK
  <2>4. Range(places') \subseteq DOMAIN given /\ Range(order') \subseteq DOMAIN given
    BY <2>1
  <2>5. (Range(places) \subseteq DOMAIN given /\ Range(order) \subseteq DOMAIN given)'
    BY <1>2, <2>4 DEF Range
  <2>6. (failed \in BOOLEAN /\ status \in {"none", "ok", "trimmed", "unverified"})'
    BY <2>1
  <2>7. QED
    BY <1>2, <2>2, <2>3, <2>5, <2>6 DEF TypeOK
<1>7. QED
  BY <1>2, <1>4, <1>5, <1>6

(* places, visit_order and legs of one order.                               *)
LEMMA OrderAndPlaces ==
  ASSUME given \in Given, NEW o \in Orders, o # << >>,
         NEW p \in Seq(DOMAIN given), \A i, k \in DOMAIN p : p[i] = p[k] => i = k,
         Range(o) = Range(p)
  PROVE  /\ \A i, k \in DOMAIN o : o[i] = o[k] => i = k
         /\ Len(o) = Len(p)
         /\ \A i, k \in DOMAIN o : i < k => Day(o[i]) <= Day(o[k])
         /\ Len(RebuildLegs(o)) = Len(o) - 1
         /\ \A i \in DOMAIN RebuildLegs(o) : /\ RebuildLegs(o)[i].from = o[i]
                                             /\ RebuildLegs(o)[i].to = o[i + 1]
<1>1. /\ o \in Seq(DOMAIN given)
      /\ \A i, k \in DOMAIN o : o[i] = o[k] => i = k
      /\ \A i, k \in DOMAIN o : i < k => Day(o[i]) <= Day(o[k])
  BY OrdersAre
<1>2. Len(o) = Cardinality(Range(o)) /\ Len(p) = Cardinality(Range(p))
  BY <1>1, Lengths
<1>3. QED
  BY <1>1, <1>2, RebuildLegsIs

LEMMA FitConsistent == Inv /\ FitTimeBudget => Consistent'
<1>1. SUFFICES ASSUME Inv, FitTimeBudget, Done' PROVE Consistent'
  BY DEF Consistent
<1>2. /\ node = "fit_time_budget" /\ given' = given /\ failed' = FALSE
      /\ \A id : Day(id)' = Day(id)
      /\ Fits \/ Refuses \/ Trims
  BY <1>1, Outcomes, SameRequest, FitTypes DEF Done, TypeOK
<1>3. CASE Fits
  <2>1. /\ given \in Given /\ order \in Orders /\ order # << >>
        /\ places \in Seq(DOMAIN given)
        /\ \A i, k \in DOMAIN places : places[i] = places[k] => i = k
        /\ Range(order) = Range(places) /\ Range(places) = DOMAIN given
        /\ legs = RebuildLegs(order)
        /\ Untimed \/ Timed
    BY <1>1, <1>2, Ready
  <2>2. /\ \A i, k \in DOMAIN order : order[i] = order[k] => i = k
        /\ Len(order) = Len(places)
        /\ \A i, k \in DOMAIN order : i < k => Day(order[i]) <= Day(order[k])
        /\ Len(legs) = Len(order) - 1
        /\ \A i \in DOMAIN legs : legs[i].from = order[i] /\ legs[i].to = order[i + 1]
    BY <2>1, OrderAndPlaces
  <2>3. status \in {"ok", "trimmed"} => DOMAIN timeline = Range(places)
    BY <2>1 DEF Untimed, Timed, PlanTimeline
  <2>4. /\ order' = order /\ places' = places /\ legs' = legs
        /\ timeline' = timeline /\ status' = status
    BY <1>3 DEF Fits, route, times
  <2>5. QED
    <3>1. IsInjective(order)
      BY <2>2 DEF IsInjective
    <3>2. (\A i, k \in DOMAIN order : i < k => Day(order[i]) <= Day(order[k]))'
      BY <1>2, <2>2, <2>4 DEF Day
    <3>3. QED
      BY <2>1, <2>2, <2>3, <2>4, <3>1, <3>2 DEF Consistent
<1>4. CASE Refuses
  BY <1>2, <1>4 DEF Refuses, FitRefuses
<1>5. CASE Trims
  <2>1. /\ order' = trimOrder /\ legs' = RebuildLegs(trimOrder)
        /\ timeline' = trimTimeline
        /\ given \in Given /\ trimOrder \in Orders /\ trimOrder # << >>
        /\ DOMAIN trimTimeline = Range(trimOrder)
        /\ Range(trimOrder) = DOMAIN given \ trimDropped
        /\ places' \in Seq(DOMAIN given)
        /\ \A i, k \in DOMAIN places' : places'[i] = places'[k] => i = k
        /\ Range(places') = DOMAIN given \ trimDropped
    BY <1>1, <1>2, <1>5, Trimmed
  <2>2. /\ \A i, k \in DOMAIN trimOrder : trimOrder[i] = trimOrder[k] => i = k
        /\ Len(trimOrder) = Len(places')
        /\ \A i, k \in DOMAIN trimOrder : i < k => Day(trimOrder[i]) <= Day(trimOrder[k])
        /\ Len(RebuildLegs(trimOrder)) = Len(trimOrder) - 1
        /\ \A i \in DOMAIN RebuildLegs(trimOrder) :
             /\ RebuildLegs(trimOrder)[i].from = trimOrder[i]
             /\ RebuildLegs(trimOrder)[i].to = trimOrder[i + 1]
    BY <2>1, OrderAndPlaces
  <2>3. /\ (IsInjective(order) /\ Range(order) = Range(places) /\ Len(order) = Len(places))'
        /\ (DOMAIN timeline = Range(places))'
    <3>1. IsInjective(order')
      BY <2>1, <2>2 DEF IsInjective
    <3>2. Range(order') = Range(places') /\ Len(order') = Len(places')
      BY <2>1, <2>2
    <3>3. DOMAIN timeline' = Range(places')
      BY <2>1
    <3>4. QED
      BY <3>1, <3>2, <3>3
  <2>4. (\A i, k \in DOMAIN order : i < k => Day(order[i]) <= Day(order[k]))'
    BY <1>2, <2>1, <2>2 DEF Day
  <2>5. /\ (Len(legs) = Len(order) - 1)'
        /\ (\A i \in DOMAIN legs : legs[i].from = order[i] /\ legs[i].to = order[i + 1])'
    BY <2>1, <2>2
  <2>6. QED
    BY <2>3, <2>4, <2>5 DEF Consistent
<1>6. QED
  BY <1>2, <1>3, <1>4, <1>5

LEMMA FitWalkable == Inv /\ FitTimeBudget => Walkable'
<1>1. SUFFICES ASSUME Inv, FitTimeBudget, Done', (status \in {"ok", "trimmed"})'
      PROVE Walkable'
  BY DEF Walkable
<1>2. /\ node = "fit_time_budget" /\ given' = given /\ failed' = FALSE
      /\ Fits \/ Refuses \/ Trims
  BY <1>1, Outcomes, FitTypes DEF Done, TypeOK
<1>3. PICK o \in Orders, s \in [DOMAIN given -> Nat] :
         /\ o # << >>
         /\ timeline' = PlanTimeline(o, RebuildLegs(o), s)
         /\ Overflowing(timeline') = {}
         /\ \A a \in DOMAIN timeline' : stay'[a] = s[a]
         /\ legs' = RebuildLegs(o)
  <2>1. CASE Fits
    <3>1. order \in Orders /\ order # << >> /\ legs = RebuildLegs(order) /\ (Untimed \/ Timed)
      BY <1>1, <1>2, Ready
    <3>2. /\ legs' = legs /\ timeline' = timeline /\ stay' = stay /\ status' = status
          /\ overflow = {}
      BY <2>1 DEF Fits, route, times
    <3>3. Timed
      BY <1>1, <3>1, <3>2 DEF Untimed
    <3>4. stay \in [DOMAIN given -> Nat] /\ Overflowing(timeline) = {}
      BY <3>2, <3>3, ItineraryAssumption DEF Timed
    <3>5. timeline = PlanTimeline(order, RebuildLegs(order), stay)
      BY <3>1, <3>3 DEF Timed
    <3>6. QED
      BY <3>1, <3>2, <3>4, <3>5
  <2>2. CASE Refuses
    BY <1>2, <2>2 DEF Refuses, FitRefuses
  <2>3. CASE Trims
    <3>1. /\ legs' = RebuildLegs(trimOrder)
          /\ timeline' = trimTimeline /\ Overflowing(trimTimeline) = {}
          /\ stay' = [id \in DOMAIN trimTimeline |-> trimStay[id]]
          /\ trimOrder \in Orders /\ trimOrder # << >>
          /\ trimStay \in [DOMAIN given -> Nat]
      BY <1>1, <1>2, <2>3, Trimmed
    <3>2. trimTimeline = PlanTimeline(trimOrder, RebuildLegs(trimOrder), trimStay)
      BY DEF trimTimeline
    <3>3. QED
      BY <3>1, <3>2
  <2>4. QED
    BY <1>2, <2>1, <2>2, <2>3
<1>4. given \in Given
  BY <1>1, <1>2, Ready
<1>5. \A a, b \in DOMAIN timeline' :
           /\ Start <= timeline'[a].start /\ timeline'[a].end <= End
           /\ timeline'[a].end = timeline'[a].start + s[a]
           /\ a # b /\ Day(a) = Day(b) /\ timeline'[a].start <= timeline'[b].start =>
                timeline'[a].end + Buffer + 1 <= timeline'[b].start
           /\ \A i \in DOMAIN RebuildLegs(o) :
                RebuildLegs(o)[i].from = a /\ RebuildLegs(o)[i].to = b /\ Day(a) = Day(b) =>
                  timeline'[b].start - timeline'[a].end = RebuildLegs(o)[i].minutes + Buffer
  BY <1>3, <1>4, TimelineIsWalkable
<1>6. QED
  BY <1>2, <1>3, <1>5 DEF Walkable, Day

(* What the trimming may drop.                                              *)
LEMMA FitKeepsCallersPlaces == Inv /\ FitTimeBudget => CallersPlacesKept'
<1>1. SUFFICES ASSUME Inv, FitTimeBudget, Done' PROVE CallersPlacesKept'
  BY DEF CallersPlacesKept
<1>2. /\ node = "fit_time_budget" /\ given' = given /\ stage' = stage /\ optimize' = optimize
      /\ failed' = FALSE
      /\ Fits \/ Refuses \/ Trims
  BY <1>1, Outcomes, FitTypes DEF Done, TypeOK
<1>3. CASE Fits
  <2>1. Range(places) = DOMAIN given /\ order = VisitOrder
    BY <1>1, <1>2, Ready
  <2>2. order' = order /\ places' = places
    BY <1>3 DEF Fits, route
  <2>3. stage = "route" /\ ~optimize => order = [i \in DOMAIN given |-> i]
    BY <2>1 DEF VisitOrder
  <2>4. Range(places)' = DOMAIN given
    BY <2>1, <2>2 DEF Range
  <2>5. QED
    BY <1>2, <2>2, <2>3, <2>4 DEF CallersPlacesKept
<1>4. CASE Refuses
  BY <1>2, <1>4 DEF Refuses, FitRefuses
<1>5. CASE Trims
  <2>1. /\ trimDropped \in DropSets(order, overflow)
        /\ Range(places') = DOMAIN given \ trimDropped
    BY <1>1, <1>5, Trimmed
  <2>2. stage # "route"
    BY <1>5 DEF Trims
  <2>3. \A id \in trimDropped : ~given[id].pinned
    BY <2>1 DEF DropSets, Protected
  <2>4. QED
    BY <1>2, <2>1, <2>2, <2>3 DEF CallersPlacesKept
<1>6. QED
  BY <1>2, <1>3, <1>4, <1>5

(* The places of the day in the order and in the list are the same number.  *)
LEMMA LeftAndKept ==
  ASSUME given \in Given, NEW o \in Orders, Range(o) = DOMAIN given, NEW gone, NEW d
  PROVE  Cardinality(Left(o, gone, d))
           = Cardinality(PlacesOn(d) \cap (DOMAIN given \ gone))
<1> DEFINE L == Left(o, gone, d)
           H == PlacesOn(d) \cap (DOMAIN given \ gone)
           f == [i \in L |-> o[i]]
<1>1. \A i \in DOMAIN o : o[i] \in DOMAIN given
  BY OrdersAre
<1>2. \A i, k \in DOMAIN o : o[i] = o[k] => i = k
  BY OrdersAre
<1>3. \A id \in DOMAIN given : \E i \in DOMAIN o : o[i] = id
  BY DEF Range
<1>4. f \in [L -> H]
  BY <1>1 DEF Left, PlacesOn
<1>5. \A i, k \in L : f[i] = f[k] => i = k
  BY <1>2 DEF Left
<1>6. \A id \in H : \E i \in L : f[i] = id
  BY <1>3 DEF Left, PlacesOn
<1>7. IsFiniteSet(L)
  BY LeftIs
<1> HIDE DEF L, H, f
<1>8. f \in Surjection(L, H)
  BY <1>4, <1>6 DEF Surjection
<1>9. f \in Injection(L, H)
  BY <1>4, <1>5 DEF Injection, IsInjective
<1>10. Cardinality(H) = Cardinality(L)
  BY <1>7, <1>8, <1>9, FS_Surjection
<1>11. QED
  BY <1>10 DEF L, H

LEMMA FitTrimsOnlyWhatOverflows == Inv /\ FitTimeBudget => TrimsOnlyWhatOverflows'
<1>1. SUFFICES ASSUME Inv, FitTimeBudget, Done', status' = "trimmed"
      PROVE TrimsOnlyWhatOverflows'
  BY DEF TrimsOnlyWhatOverflows
<1>2. /\ node = "fit_time_budget" /\ given' = given /\ UNCHANGED request
      /\ failed' = FALSE
      /\ Fits \/ Refuses \/ Trims
  BY <1>1, Outcomes, FitTypes DEF Done, TypeOK
<1>3. Trims
  <2>1. CASE Fits
    BY <1>1, <1>2, <2>1, Ready DEF Fits, times, Untimed, Timed
  <2>2. CASE Refuses
    BY <1>2, <2>2 DEF Refuses, FitRefuses
  <2>3. QED
    BY <1>2, <2>1, <2>2
<1>4. /\ given \in Given /\ order \in Orders /\ Range(order) = DOMAIN given
      /\ order = OrderedByDay
      /\ trimDropped \in DropSets(order, overflow) /\ trimDropped \in SUBSET DOMAIN given
      /\ Range(places') = DOMAIN given \ trimDropped
  BY <1>1, <1>2, <1>3, Ready, Trimmed
<1> DEFINE has(d) == PlacesOn(d) \cap Range(places')
<1>5. ASSUME NEW d \in Days
      PROVE  /\ Cardinality(has(d)) >= KeepMin \/ has(d) = PlacesOn(d)
             /\ has(d) # PlacesOn(d) => d \in Overflows(OrderedByDay, Short)
  <2>1. Cardinality(has(d)) = Cardinality(Left(order, trimDropped, d))
    BY <1>4, LeftAndKept
  <2>2. \/ Cardinality(Left(order, trimDropped, d)) >= KeepMin
        \/ \A id \in trimDropped : Day(id) # d
    BY <1>4 DEF DropSets
  <2>3. (\A id \in trimDropped : Day(id) # d) => has(d) = PlacesOn(d)
    BY <1>4 DEF PlacesOn
  <2>4. ASSUME has(d) # PlacesOn(d) PROVE d \in Overflows(OrderedByDay, Short)
    <3>1. PICK id \in trimDropped : Day(id) = d
      BY <2>3, <2>4
    <3>2. QED
      BY <1>4, <3>1 DEF DropSets
  <2> HIDE DEF has
  <2>5. QED
    BY <2>1, <2>2, <2>3, <2>4
<1>6. Days' = Days /\ OrderedByDay' = OrderedByDay /\ \A id : Day(id)' = Day(id)
  BY <1>2, SameRequest
<1>7. Overflows(OrderedByDay, Short)' = Overflows(OrderedByDay, Short)
  <2>1. Short' = Short
    BY <1>2 DEF Short
  <2>2. QED
    BY <1>2, <1>6, <2>1 DEF Overflows, Overflowing, PlanTimeline, RebuildLegs, VisitStarts,
       Day, Minutes
<1>8. \A d : PlacesOn(d)' = PlacesOn(d)
  BY <1>2 DEF PlacesOn, Day
<1>9. QED
  BY <1>5, <1>6, <1>7, <1>8 DEF TrimsOnlyWhatOverflows

(* A day that fitted is timed as before.                                    *)
LEMMA FittingDayTimes ==
  ASSUME Inv, FitTimeBudget, Trims, NEW d \in Days, d \notin overflow,
         NEW id \in DOMAIN given, Day(id) = d
  PROVE  /\ id \in DOMAIN given \ trimDropped
         /\ trimTimeline[id] = timeline[id]
<1> DEFINE w == trimOrder
           s == trimStay
           at == VisitStarts(order, RebuildLegs(order), stay)
           aw == VisitStarts(w, RebuildLegs(w), s)
<1>1. /\ given \in Given /\ order \in Orders /\ order # << >> /\ Range(order) = DOMAIN given
      /\ legs = RebuildLegs(order) /\ overflow # {} /\ node = "fit_time_budget"
  BY Outcomes, Ready DEF Trims
<1>2. /\ w \in Orders /\ w # << >> /\ w = Without(order, trimDropped)
      /\ Range(w) = DOMAIN given \ trimDropped
      /\ trimDropped \in DropSets(order, overflow) /\ trimDropped \in SUBSET DOMAIN given
      /\ s \in [DOMAIN given -> Nat]
  BY Trimmed DEF trimOrder
<1>3. /\ stay \in [DOMAIN given -> Nat]
      /\ timeline = PlanTimeline(order, RebuildLegs(order), stay)
      /\ \A x \in DOMAIN given : Day(x) \notin overflow => s[x] = stay[x]
  BY <1>1, Trimming DEF Timed, trimStay
<1>4. \A x \in trimDropped : Day(x) # d
  BY <1>2 DEF DropSets
<1>5. id \notin trimDropped
  BY <1>4
<1>6. \A x \in DOMAIN given : Day(x) = d => s[x] = stay[x] /\ s[x] <= stay[x]
  BY <1>2, <1>3
<1>7. SameDay(order, trimDropped, d, stay, s)
  <2>1. Without(order, trimDropped) # << >>
    BY <1>2
  <2> HIDE DEF w, s
  <2>2. QED
    BY <1>1, <1>2, <1>3, <1>4, <1>6, <2>1, DayTiming
<1>8. PICK i \in DOMAIN order : order[i] = id
  BY <1>1 DEF Range
<1>9. PICK j \in DOMAIN w : w[j] = id
  <2>1. id \in Range(w)
    BY <1>2, <1>5
  <2>2. QED
    BY <2>1 DEF Range
<1>10. aw[j] = at[i]
  BY <1>2, <1>6, <1>7, <1>8, <1>9 DEF SameDay
<1>11. timeline[id] = [start |-> at[i], end |-> at[i] + stay[id]]
  <2>1. given \in Given /\ order \in Orders /\ i \in DOMAIN order
    BY <1>1, <1>8
  <2>2. PlanTimeline(order, RebuildLegs(order), stay)[order[i]]
          = [start |-> at[i], end |-> at[i] + stay[order[i]]]
    BY <2>1, Slots
  <2>3. QED
    BY <1>3, <1>8, <2>2
<1>12. trimTimeline[id] = [start |-> aw[j], end |-> aw[j] + s[id]]
  <2>1. given \in Given /\ trimOrder \in Orders /\ j \in DOMAIN trimOrder
    BY <1>1, <1>2, <1>9
  <2>2. PlanTimeline(trimOrder, RebuildLegs(trimOrder), trimStay)[trimOrder[j]]
          = [start |-> VisitStarts(trimOrder, RebuildLegs(trimOrder), trimStay)[j],
             end |-> VisitStarts(trimOrder, RebuildLegs(trimOrder), trimStay)[j]
                       + trimStay[trimOrder[j]]]
    BY <2>1, Slots
  <2>3. trimOrder[j] = id
    BY <1>9
  <2>4. QED
    BY <2>2, <2>3 DEF trimTimeline
<1>13. s[id] = stay[id]
  BY <1>6
<1>14. QED
  BY <1>5, <1>10, <1>11, <1>12, <1>13

LEMMA FitLeavesFittingDays ==
  Inv /\ FitTimeBudget =>
    \A d \in Days : node = "fit_time_budget" /\ d \notin overflow =>
      \A id \in DOMAIN timeline : Day(id) = d =>
        /\ id \in Range(places')
        /\ ~failed' => timeline'[id] = timeline[id]
<1>1. SUFFICES ASSUME Inv, FitTimeBudget, NEW d \in Days, d \notin overflow,
                      NEW id \in DOMAIN timeline, Day(id) = d
               PROVE  /\ id \in Range(places')
                      /\ ~failed' => timeline'[id] = timeline[id]
  OBVIOUS
<1>2. node = "fit_time_budget" /\ (Fits \/ Refuses \/ Trims)
  BY <1>1, Outcomes
<1>3. Range(places) = DOMAIN given /\ Range(order) = DOMAIN given /\ (Untimed \/ Timed)
  BY <1>1, <1>2, Ready
<1>4. id \in DOMAIN given
  <2>1. CASE Untimed
    BY <1>1, <2>1 DEF Untimed
  <2>2. CASE Timed
    BY <1>1, <1>3, <2>2 DEF Timed, PlanTimeline
  <2>3. QED
    BY <1>3, <2>1, <2>2
<1>5. CASE Fits
  <2>1. places' = places /\ timeline' = timeline
    BY <1>5 DEF Fits, route, times
  <2>2. QED
    BY <1>3, <1>4, <2>1
<1>6. CASE Refuses
  <2>1. places' = places /\ failed' = TRUE
    BY <1>6 DEF Refuses, FitRefuses, route
  <2>2. QED
    BY <1>3, <1>4, <2>1
<1>7. CASE Trims
  <2>1. id \in DOMAIN given \ trimDropped /\ trimTimeline[id] = timeline[id]
    BY <1>1, <1>4, <1>7, FittingDayTimes
  <2>2. /\ Range(places') = DOMAIN given \ trimDropped
        /\ timeline' = trimTimeline \/ failed' = TRUE
    BY <1>1, <1>7, Trimmed
  <2>3. QED
    BY <2>1, <2>2
<1>8. QED
  BY <1>2, <1>5, <1>6, <1>7

--------------------------------------------------------------------------------
(* The theorems.                                                            *)

LEMMA FitTimeBudgetKeeps == Inv /\ FitTimeBudget => Inv'
<1>1. SUFFICES ASSUME Inv, FitTimeBudget PROVE Inv'
  OBVIOUS
<1>2. TypeOK' /\ Consistent' /\ Walkable' /\ CallersPlacesKept' /\ TrimsOnlyWhatOverflows'
  BY <1>1, FitTypes, FitConsistent, FitWalkable, FitKeepsCallersPlaces, FitTrimsOnlyWhatOverflows
<1>3. node' = "end" /\ given' = given /\ HandedOver(stage, given)' = HandedOver(stage, given)
  BY <1>1, Outcomes, SameRequest
<1>4. given \in Given /\ HandedOver(stage, given)
  BY <1>1 DEF Inv
<1>5. QED
  BY <1>2, <1>3, <1>4 DEF Inv

LEMMA StutterKeeps == Inv /\ UNCHANGED vars => Inv'
<1>1. SUFFICES ASSUME Inv, UNCHANGED vars PROVE Inv'
  OBVIOUS
<1>2. UNCHANGED <<request, route, times>> /\ UNCHANGED request
      /\ node' = node /\ places' = places /\ order' = order /\ legs' = legs /\ stay' = stay
      /\ timeline' = timeline /\ overflow' = overflow /\ status' = status /\ failed' = failed
      /\ given' = given /\ stage' = stage /\ optimize' = optimize
  BY <1>1 DEF vars, request, route, times
<1>3. /\ Timed' = Timed /\ Untimed' = Untimed
      /\ VisitOrder' = VisitOrder /\ OrderedByDay' = OrderedByDay /\ Days' = Days
      /\ HandedOver(stage, given)' = HandedOver(stage, given)
  BY <1>2, SameTimes, SameRequest
<1>4. RebuildLegs(order)' = RebuildLegs(order)
  BY <1>2 DEF RebuildLegs, Minutes
<1>5. TypeOK' = TypeOK
  BY <1>2, <1>3 DEF TypeOK, Range
<1>6. Consistent' = Consistent
  BY <1>2 DEF Consistent, Done, IsInjective, Range, Day
<1>7. Walkable' = Walkable
  BY <1>2 DEF Walkable, Done, Day
<1>8. CallersPlacesKept' = CallersPlacesKept
  BY <1>2 DEF CallersPlacesKept, Done, Range
<1>9. TrimsOnlyWhatOverflows' = TrimsOnlyWhatOverflows
  <2>1. Short' = Short
    BY <1>2 DEF Short
  <2>2. Overflows(OrderedByDay, Short)' = Overflows(OrderedByDay, Short)
    BY <1>2, <1>3, <2>1 DEF Overflows, Overflowing, PlanTimeline, RebuildLegs, VisitStarts,
       Day, Minutes
  <2>3. \A d : PlacesOn(d)' = PlacesOn(d)
    BY <1>2 DEF PlacesOn, Day
  <2>4. Range(places') = Range(places) /\ Done' = Done
    BY <1>2 DEF Done
  <2>5. QED
    BY <1>2, <1>3, <2>2, <2>3, <2>4 DEF TrimsOnlyWhatOverflows
<1>10. QED
  BY <1>1, <1>2, <1>3, <1>4, <1>5, <1>6, <1>7, <1>8, <1>9 DEF Inv

THEOREM Invariance == Spec => []Inv
<1>1. Inv /\ [Next]_vars => Inv'
  BY RecommendRouteKeeps, BuildTimelineKeeps, FitTimeBudgetKeeps, StutterKeeps DEF Next
<1>2. QED
  BY InitInv, <1>1, PTL DEF Spec

(* places, visit_order and timeline hold ids of given places whatever the   *)
(* trimming drops, and an overflow is noted by days.                        *)
THEOREM TypeCorrect == Spec => []TypeOK
  BY Invariance, EarlyTypes, PTL

(* After recommend_route and any trimming of fit_time_budget, places,       *)
(* visit_order, legs and timeline speak about the same places, for any      *)
(* places, stays and window.                                                *)
THEOREM AlwaysConsistent == Spec => []Consistent
<1>1. Inv => Consistent
  BY DEF Inv, Consistent, Done
<1>2. QED
  BY Invariance, <1>1, PTL

(* Whatever _plan_timeline announces as ok or trimmed can be walked within  *)
(* the activity window.                                                     *)
THEOREM AlwaysWalkable == Spec => []Walkable
<1>1. Inv => Walkable
  BY DEF Inv, Walkable, Done
<1>2. QED
  BY Invariance, <1>1, PTL

(* fit_time_budget drops no place the caller insists on, and a route that   *)
(* is not to be optimized stays as it was given.                            *)
THEOREM CallersPlacesSurvive == Spec => []CallersPlacesKept
<1>1. Inv => CallersPlacesKept
  BY DEF Inv, CallersPlacesKept, Done
<1>2. QED
  BY Invariance, <1>1, PTL

(* fit_time_budget drops places only of days that overflow with every stay  *)
(* shortened, and leaves each day keep_min of them.                         *)
THEOREM TrimmingIsMinimal == Spec => []TrimsOnlyWhatOverflows
<1>1. Inv => TrimsOnlyWhatOverflows
  BY DEF Inv, TrimsOnlyWhatOverflows, Done
<1>2. QED
  BY Invariance, <1>1, PTL

(* Trimming one day leaves the places and times of a fitting day alone.     *)
THEOREM FittingDaysStay == Spec => FittingDaysUntouched
<1>1. Inv /\ [Next]_vars =>
        [\A d \in Days : node = "fit_time_budget" /\ d \notin overflow =>
           \A id \in DOMAIN timeline : Day(id) = d =>
             /\ id \in Range(places')
             /\ ~failed' => timeline'[id] = timeline[id]]_vars
  <2>1. SUFFICES ASSUME Inv, Next, node = "fit_time_budget"
                 PROVE  \A d \in Days : node = "fit_time_budget" /\ d \notin overflow =>
                          \A id \in DOMAIN timeline : Day(id) = d =>
                            /\ id \in Range(places')
                            /\ ~failed' => timeline'[id] = timeline[id]
    OBVIOUS
  <2>2. FitTimeBudget
    BY <2>1 DEF Next, RecommendRoute, BuildTimeline
  <2>3. QED
    BY <2>1, <2>2, FitLeavesFittingDays
<1>2. QED
  BY Invariance, <1>1, PTL DEF Spec, FittingDaysUntouched

--------------------------------------------------------------------------------
(* The control of the job.                                                  *)

LEMMA CompleteOrderIsNotEmpty ==
  ASSUME given \in Given, HandedOver(stage, given)
  PROVE  DOMAIN given # {} /\ VisitOrder # << >>
<1>1. given \in Seq([day : Nat \ {0}, at : Map, pinned : BOOLEAN])
  BY ItineraryAssumption
<1>2. DOMAIN given = 1 .. Len(given) /\ 1 \in DOMAIN given
  BY <1>1 DEF HandedOver
<1>3. \E i \in DOMAIN VisitOrder : VisitOrder[i] = 1
  BY <1>2, VisitOrderIs DEF Complete
<1>4. QED
  BY <1>2, <1>3

(* No step empties the places or the order.                                 *)
LEMMA PlacesStay ==
  ASSUME Inv, Next
  PROVE  places # << >> /\ places' # << >> /\ order' # << >> /\ failed = FALSE
<1>1. given \in Given /\ HandedOver(stage, given) /\ DOMAIN given # {} /\ VisitOrder # << >>
  BY CompleteOrderIsNotEmpty DEF Inv
<1>2. node # "end"
  BY DEF Next, RecommendRoute, BuildTimeline, FitTimeBudget
<1>3. places = [i \in DOMAIN given |-> i] /\ failed = FALSE
  BY <1>2 DEF Inv
<1>4. places # << >>
  BY <1>1, <1>3
<1>5. CASE RecommendRoute
  BY <1>1, <1>3, <1>4, <1>5 DEF RecommendRoute
<1>6. CASE BuildTimeline
  <2>1. order = VisitOrder
    BY <1>6 DEF Inv, BuildTimeline
  <2>2. QED
    BY <1>1, <1>3, <1>4, <1>6, <2>1 DEF BuildTimeline, route
<1>7. CASE FitTimeBudget
  <2>1. order # << >>
    BY <1>7, Ready DEF FitTimeBudget
  <2>2. CASE UNCHANGED <<places, order>>
    BY <1>3, <1>4, <2>1, <2>2
  <2>3. CASE Trims
    <3>1. /\ order' = trimOrder /\ trimOrder # << >> /\ trimOrder \in Orders
          /\ Range(trimOrder) = DOMAIN given \ trimDropped
          /\ Range(places') = DOMAIN given \ trimDropped
      BY <1>7, <2>3, Trimmed
    <3>2. DOMAIN trimOrder # {}
      BY <1>1, <3>1, OrdersAre, EmptySeq
    <3>3. Range(places') # {}
      BY <3>1, <3>2 DEF Range
    <3>4. places' # << >>
      BY <3>3 DEF Range
    <3>5. QED
      BY <1>3, <1>4, <3>1, <3>4
  <2>4. QED
    BY <1>7, <2>2, <2>3, Outcomes DEF Fits, Refuses, FitRefuses, route
<1>8. QED
  BY <1>5, <1>6, <1>7 DEF Next

LEMMA RouteFollows ==
  ASSUME Inv, RecommendRoute, NEW on \in BOOLEAN
  PROVE  Control(on)!RecommendRoute
<1>1. places # << >> /\ order' # << >> /\ failed = FALSE
  BY PlacesStay DEF Next
<1>2. QED
  BY <1>1 DEF RecommendRoute, Control!RecommendRoute, Control!Clean, Control!At, Control!GoUnlessError,
     Control!Idle, Control!request, Control!found, Control!timetable, Control!llm, Control!told,
     NextInGraph, Announced, request, times, route

(* With and without TIMELINE_ENABLED.                                       *)
LEMMA TimelineFollows ==
  ASSUME Inv, BuildTimeline
  PROVE  /\ enabled => Control(TRUE)!BuildTimeline
         /\ ~enabled => Control(FALSE)!BuildTimeline
<1>1. places # << >> /\ failed = FALSE
  BY PlacesStay DEF Next
<1>2. node = "build_timeline" /\ status \in {"none", "unverified"} /\ overflow = {}
  BY DEF Inv, Untimed, BuildTimeline
<1>3. QED
  BY <1>1, <1>2 DEF BuildTimeline, Control!BuildTimeline, Control!Clean, Control!At, Control!Go,
     Control!Idle, Control!request, Control!found, Control!timetable, Control!llm, Control!told,
     NextInGraph, Announced, request, times, route

LEMMA FitFollows ==
  ASSUME Inv, FitTimeBudget, NEW on \in BOOLEAN
  PROVE  Control(on)!FitTimeBudget
<1>1. places # << >> /\ places' # << >> /\ order' # << >> /\ order # << >> /\ failed = FALSE
  BY PlacesStay, Ready DEF Next, FitTimeBudget
<1>2. /\ node = "fit_time_budget" /\ node' = "end" /\ stage' = stage
      /\ Fits \/ Refuses \/ Trims
  BY Outcomes
<1>3. overflow # {} => status = "ok"
  BY <1>2, Ready DEF Untimed, Timed
<1> DEFINE Ends ==
             \/ UNCHANGED <<overflow, status, failed>> /\ overflow = {}
             \/ /\ overflow # {} /\ stage # "route"
                /\ overflow' = {} /\ status' = "trimmed" /\ failed' = FALSE
             \/ overflow # {} /\ overflow' # {} /\ status' = "unverified" /\ failed' = TRUE
<1>4. Ends
  <2>1. CASE Fits
    BY <2>1 DEF Fits, times
  <2>2. CASE Refuses
    BY <2>2 DEF Refuses, FitRefuses
  <2>3. CASE Trims
    BY <2>3, Trimmed DEF Trims
  <2>4. QED
    BY <1>2, <2>1, <2>2, <2>3
<1>5. QED
  BY <1>1, <1>2, <1>3, <1>4 DEF Control!FitTimeBudget, Control!TrimDays, Control!RefuseDays,
     Control!Clean, Control!At, Control!GoUnlessError, Control!Fail,
     Control!Idle, Control!request, Control!found, Control!timetable, Control!llm, Control!told,
     NextInGraph, Announced

(* recommend_route, build_timeline and fit_time_budget do with any places   *)
(* what the control of the job allows for; what is proved of Pipeline from  *)
(* the flags of its state thus rests on what the nodes compute.             *)
THEOREM ItineraryFollowsControl == Spec => FollowsControl
<1>1. Inv /\ [Next]_vars =>
        [IF enabled THEN Control(TRUE)!Next ELSE Control(FALSE)!Next]_vars
  <2>1. SUFFICES ASSUME Inv, Next
                 PROVE  IF enabled THEN Control(TRUE)!Next ELSE Control(FALSE)!Next
    OBVIOUS
  <2>2. CASE RecommendRoute
    BY <2>1, <2>2, RouteFollows DEF Control!Next
  <2>3. CASE BuildTimeline
    BY <2>1, <2>3, TimelineFollows DEF Control!Next
  <2>4. CASE FitTimeBudget
    BY <2>1, <2>4, FitFollows DEF Control!Next
  <2>5. QED
    BY <2>1, <2>2, <2>3, <2>4 DEF Next
<1>2. QED
  BY Invariance, <1>1, PTL DEF Spec, FollowsControl
================================================================================
