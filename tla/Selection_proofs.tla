---------------------------- MODULE Selection_proofs ----------------------------
(***************************************************************************)
(* What recommend_places hands over, for any trip, any search results,     *)
(* filters, scores, kept places and selections.                             *)
(***************************************************************************)
EXTENDS Selection, Lists_proofs

LEMMA Constants ==
  /\ NumDays \in Nat \ {0} /\ ActiveMinutes \in Nat \ {0}
  /\ MaxBase \in Nat /\ PerDay \in Nat /\ NoId \in Int
  /\ Found \subseteq Seq(Candidate) /\ Pins \subseteq Seq(Place)
  /\ Scores \subseteq Int /\ Answers \subseteq Seq([index : Int, day : Int])
  BY SelectionAssumption DEF Candidate, Place, TripDays

(* A day has from 2 to 5 places to be found.                                *)
LEMMA Targets == TargetStops \in 2 .. 5
<1>1. ActiveMinutes \div 100 \in Nat
  BY Constants
<1>2. QED
  BY <1>1 DEF TargetStops, Larger, Smaller

LEMMA LimitType == Limit \in Nat
<1>1. NumDays * PerDay \in Nat
  BY Constants
<1>2. QED
  BY <1>1, Constants DEF Limit, Larger

--------------------------------------------------------------------------------
(* Lists drawn from other lists.                                            *)

(* Every element of t is another one of s.                                  *)
Draws(t, s) ==
  \E f \in [DOMAIN t -> DOMAIN s] :
    /\ \A m, n \in DOMAIN t : m # n => f[m] # f[n]
    /\ \A n \in DOMAIN t : t[n] = s[f[n]]

(* No id twice.                                                             *)
Distinct(s) == \A i, k \in DOMAIN s : s[i].id = s[k].id => i = k \/ s[i].id = NoId

LEMMA DrawsKeep ==
  ASSUME NEW s, NEW t, Draws(t, s)
  PROVE  /\ Ids(t) \subseteq Ids(s)
         /\ Distinct(s) => Distinct(t)
<1>1. PICK f \in [DOMAIN t -> DOMAIN s] :
             /\ \A m, n \in DOMAIN t : m # n => f[m] # f[n]
             /\ \A n \in DOMAIN t : t[n] = s[f[n]]
  BY DEF Draws
<1>2. Ids(t) \subseteq Ids(s)
  BY <1>1 DEF Ids
<1>3. ASSUME Distinct(s) PROVE Distinct(t)
  <2>1. ASSUME NEW i \in DOMAIN t, NEW k \in DOMAIN t, t[i].id = t[k].id
        PROVE  i = k \/ t[i].id = NoId
    <3>1. f[i] \in DOMAIN s /\ f[k] \in DOMAIN s /\ t[i] = s[f[i]] /\ t[k] = s[f[k]]
      BY <1>1
    <3>2. f[i] = f[k] \/ s[f[i]].id = NoId
      BY <1>3, <2>1, <3>1 DEF Distinct
    <3>3. QED
      BY <1>1, <3>1, <3>2
  <2>2. QED
    BY <2>1 DEF Distinct
<1>4. QED
  BY <1>2, <1>3

LEMMA SublistDraws ==
  ASSUME NEW S, NEW s \in Seq(S), NEW keep \in SUBSET DOMAIN s
  PROVE  Sublist(s, keep) \in Seq(S) /\ Draws(Sublist(s, keep), s)
<1> DEFINE N == Cardinality(keep)
           at == InOrder(keep)
           t == Sublist(s, keep)
<1>1. /\ t \in Seq(S) /\ DOMAIN t = 1 .. N /\ keep \in SUBSET Int
      /\ at \in [1 .. N -> keep] /\ N \in Nat
      /\ \A m, n \in 1 .. N : m < n => at[m] < at[n]
      /\ \A n \in 1 .. N : t[n] = s[at[n]]
  BY SublistIs
<1> HIDE DEF N, at, t
<1>2. at \in [DOMAIN t -> DOMAIN s]
  BY <1>1
<1>3. ASSUME NEW m \in DOMAIN t, NEW n \in DOMAIN t, m # n PROVE at[m] # at[n]
  <2>1. m \in 1 .. N /\ n \in 1 .. N /\ m \in Int /\ n \in Int
    BY <1>1
  <2>2. at[m] \in Int /\ at[n] \in Int /\ (m < n \/ n < m)
    BY <1>1, <1>3, <2>1
  <2>3. at[m] < at[n] \/ at[n] < at[m]
    BY <1>1, <2>1, <2>2
  <2>4. QED
    BY <2>2, <2>3
<1>4. QED
  BY <1>1, <1>2, <1>3 DEF Draws, t

LEMMA SortedDraws ==
  ASSUME NEW S, NEW s \in Seq(S), NEW key \in [DOMAIN s -> Int]
  PROVE  SortedList(s, key) \in Seq(S) /\ Draws(SortedList(s, key), s)
<1> DEFINE D == DOMAIN s
           at == Sorted(D, key)
           t == SortedList(s, key)
<1>1. /\ t \in Seq(S) /\ DOMAIN t = D /\ at \in [D -> D]
      /\ \A m, n \in D : m # n => at[m] # at[n]
      /\ \A n \in D : t[n] = s[at[n]]
  BY SortedListIs
<1> HIDE DEF at, t
<1>2. QED
  BY <1>1 DEF Draws, t

--------------------------------------------------------------------------------
(* The operators on candidates.                                             *)

(* The merged answers name no content_id twice.                             *)
LEMMA Merged ==
  ASSUME NEW found \in Seq(Candidate)
  PROVE  MergePlaceResults(found) \in Seq(Candidate) /\ Distinct(MergePlaceResults(found))
<1> DEFINE keep == {i \in DOMAIN found :
                      \/ found[i].id = NoId
                      \/ \A k \in 1 .. i - 1 : found[k].id # found[i].id}
           t == MergePlaceResults(found)
           at == InOrder(keep)
<1>1. keep \in SUBSET DOMAIN found /\ t = Sublist(found, keep)
  BY DEF MergePlaceResults
<1>2. \A i \in keep : found[i].id = NoId \/ \A k \in 1 .. i - 1 : found[k].id # found[i].id
  OBVIOUS
<1>3. DOMAIN found = 1 .. Len(found) /\ Len(found) \in Nat
  BY LenProperties
<1> HIDE DEF keep, t, at
<1> DEFINE N == Cardinality(keep)
<1>4. /\ t \in Seq(Candidate) /\ DOMAIN t = 1 .. N /\ keep \in SUBSET Int /\ N \in Nat
      /\ at \in [1 .. N -> keep]
      /\ \A m, n \in 1 .. N : m < n => at[m] < at[n]
      /\ \A n \in 1 .. N : t[n] = found[at[n]]
  BY <1>1, SublistIs DEF at
<1> HIDE DEF N
<1>5. ASSUME NEW m \in 1 .. N, NEW n \in 1 .. N, m < n, t[m].id = t[n].id
      PROVE  t[n].id = NoId
  <2>1. /\ at[m] \in keep /\ at[n] \in keep /\ at[m] < at[n]
        /\ t[m] = found[at[m]] /\ t[n] = found[at[n]]
    BY <1>4, <1>5
  <2>2. at[m] \in 1 .. Len(found) /\ at[n] \in 1 .. Len(found)
    BY <1>1, <1>3, <2>1
  <2>3. at[m] \in 1 .. at[n] - 1
    BY <1>3, <2>1, <2>2
  <2>4. QED
    BY <1>2, <1>5, <2>1, <2>3
<1>6. ASSUME NEW m \in 1 .. N, NEW n \in 1 .. N, t[m].id = t[n].id
      PROVE  m = n \/ t[m].id = NoId
  <2>1. m < n \/ m = n \/ n < m
    BY <1>4
  <2>2. QED
    BY <1>5, <1>6, <2>1
<1>7. QED
  BY <1>4, <1>6 DEF Distinct, t

(* Ranking reorders the candidates.                                         *)
LEMMA RankedDraws ==
  ASSUME NEW s \in Seq(Candidate), NEW known \in SUBSET Int, NEW scored \in [known -> Scores]
  PROVE  Ranked(s, scored) \in Seq(Candidate) /\ Draws(Ranked(s, scored), s)
<1> DEFINE key == [i \in DOMAIN s |-> -Key(s[i], i, scored)]
<1>1. DOMAIN s = 1 .. Len(s) /\ Len(s) \in Nat
  BY LenProperties
<1>2. ASSUME NEW i \in DOMAIN s PROVE -Key(s[i], i, scored) \in Int
  <2>1. CASE s[i].id \in DOMAIN scored
    <3>1. scored[s[i].id] \in Int
      BY <2>1, Constants
    <3>2. QED
      BY <2>1, <3>1 DEF Key
  <2>2. CASE s[i].id \notin DOMAIN scored
    BY <1>1, <2>2 DEF Key
  <2>3. QED
    BY <2>1, <2>2
<1>3. key \in [DOMAIN s -> Int]
  BY <1>2
<1>4. Ranked(s, scored) = SortedList(s, key)
  BY DEF Ranked
<1> HIDE DEF key
<1>5. QED
  BY <1>3, <1>4, SortedDraws

KindAt(s, at, b) == {i \in at : s[i].indoor = b}

(* The candidates of one kind among those that the cap leaves are the first *)
(* ones of that kind.                                                       *)
LEMMA KindOfCapped ==
  ASSUME NEW s \in Seq(Candidate), NEW b \in BOOLEAN, NEW n \in Nat,
         NEW K \in SUBSET DOMAIN s,
         KindAt(s, K, b) = FirstOf(KindAt(s, DOMAIN s, b), n)
  PROVE  /\ OfKind(s, b) \in Seq(Candidate)
         /\ Len(OfKind(s, b)) = Cardinality(KindAt(s, DOMAIN s, b))
         /\ Len(OfKind(Sublist(s, K), b))
              = IF n <= Len(OfKind(s, b)) THEN n ELSE Len(OfKind(s, b))
         /\ OfKind(Sublist(s, K), b)
              = SubSeq(OfKind(s, b), 1, Len(OfKind(Sublist(s, K), b)))
<1> DEFINE A == KindAt(s, DOMAIN s, b)
           F == FirstOf(A, n)
           t == Sublist(s, K)
           B == KindAt(t, DOMAIN t, b)
<1>1. A \in SUBSET DOMAIN s /\ KindAt(s, K, b) = F
  BY DEF KindAt
<1>2. OfKind(s, b) = Sublist(s, A) /\ OfKind(t, b) = Sublist(t, B)
  BY DEF OfKind, KindAt
<1>3. /\ t \in Seq(Candidate) /\ DOMAIN t = 1 .. Cardinality(K)
      /\ InOrder(K) \in [1 .. Cardinality(K) -> K]
      /\ \A i \in K : \E m \in 1 .. Cardinality(K) : InOrder(K)[m] = i
      /\ \A m \in 1 .. Cardinality(K) : t[m] = s[InOrder(K)[m]]
  BY SublistIs
<1>4. B \in SUBSET DOMAIN t
  BY DEF KindAt
<1>5. {InOrder(K)[m] : m \in B} = KindAt(s, K, b)
  <2> HIDE DEF t
  <2>1. QED
    BY <1>3 DEF KindAt
<1>6. Sublist(t, B) = Sublist(s, {InOrder(K)[m] : m \in B})
  <2> HIDE DEF B
  <2>1. QED
    BY <1>4, SublistOfSublist
<1>7. Sublist(t, B) = Sublist(s, F)
  BY <1>1, <1>5, <1>6
<1> HIDE DEF A, F, t, B
<1>8. /\ F \in SUBSET A /\ Cardinality(F) \in Nat /\ Cardinality(A) \in Nat
      /\ Cardinality(F) = IF n <= Cardinality(A) THEN n ELSE Cardinality(A)
      /\ Sublist(s, F) = SubSeq(Sublist(s, A), 1, Cardinality(F))
  BY <1>1, SublistPrefix DEF F
<1>9. /\ Sublist(s, A) \in Seq(Candidate) /\ Len(Sublist(s, A)) = Cardinality(A)
      /\ Len(Sublist(s, F)) = Cardinality(F)
  <2>1. F \in SUBSET DOMAIN s
    BY <1>1, <1>8
  <2>2. QED
    BY <1>1, <2>1, SublistIs
<1>10. QED
  BY <1>2, <1>7, <1>8, <1>9 DEF A, t

(* The cap leaves all candidates or the best of each kind, and of a kind at *)
(* least half of what it may leave unless there are fewer.                  *)
LEMMA Capped ==
  ASSUME NEW s \in Seq(Candidate)
  PROVE  /\ CapCandidates(s) \in Seq(Candidate) /\ Draws(CapCandidates(s), s)
         /\ Limit > 0 /\ Len(s) > Limit =>
              /\ Len(CapCandidates(s)) = Limit
              /\ \A b \in BOOLEAN :
                   LET had == OfKind(s, b)
                       has == OfKind(CapCandidates(s), b)
                   IN /\ has = SubSeq(had, 1, Len(has))
                      /\ has = had \/ Len(has) >= Limit \div 2
<1> DEFINE L == Limit
           D == DOMAIN s
           indoor == {i \in D : s[i].indoor}
           outdoor == D \ indoor
           half == L \div 2
           takeIn == FirstOf(indoor, half)
           a == Cardinality(takeIn)
           takeOut == FirstOf(outdoor, L - a)
           b == Cardinality(takeOut)
           short == L - a - b
           inside == FirstOf(indoor, a + short)
           K == inside \cup takeOut
<1>1. CapCandidates(s) = IF L = 0 \/ Len(s) <= L THEN s ELSE Sublist(s, K)
  BY DEF CapCandidates
<1>2. L \in Nat /\ D = 1 .. Len(s) /\ Len(s) \in Nat /\ half \in Nat /\ half <= L
      /\ \A i \in D : s[i] \in Candidate /\ s[i].indoor \in BOOLEAN
  <2>1. L \in Nat
    BY LimitType
  <2>2. half \in Nat /\ half <= L
    <3> HIDE DEF L
    <3>1. QED
      BY <2>1
  <2>3. D = 1 .. Len(s) /\ Len(s) \in Nat
    BY LenProperties
  <2>4. \A i \in D : s[i] \in Candidate
    BY <2>3, ElementOfSeq
  <2>5. \A i \in D : s[i].indoor \in BOOLEAN
    BY <2>4 DEF Candidate
  <2>6. QED
    BY <2>1, <2>2, <2>3, <2>4, <2>5
<1>3. CASE L = 0 \/ Len(s) <= L
  <2>1. CapCandidates(s) = s
    BY <1>1, <1>3
  <2>2. Draws(s, s)
    <3> DEFINE f == [i \in D |-> i]
    <3>1. f \in [D -> D] /\ (\A m, n \in D : m # n => f[m] # f[n]) /\ \A n \in D : s[n] = s[f[n]]
      OBVIOUS
    <3>2. QED
      BY <3>1 DEF Draws
  <2>3. ~(Limit > 0 /\ Len(s) > Limit)
    BY <1>2, <1>3
  <2>4. QED
    BY <2>1, <2>2, <2>3
<1>4. CASE L # 0 /\ Len(s) > L
  <2> DEFINE I == Cardinality(indoor)
             O == Cardinality(outdoor)
  <2>1. indoor \in SUBSET D /\ outdoor \in SUBSET D
    OBVIOUS
  <2>2. I \in Nat /\ O \in Nat /\ I + O = Len(s)
    <3>1. IsFiniteSet(D) /\ Cardinality(D) = Len(s)
      <4> DEFINE N == Len(s)
      <4>1. D = 1 .. N /\ N \in Nat
        BY <1>2
      <4> HIDE DEF D, N
      <4>2. IsFiniteSet(1 .. N) /\ Cardinality(1 .. N) = N
        BY <4>1, FS_Interval
      <4>3. QED
        BY <4>1, <4>2 DEF N
    <3> HIDE DEF indoor
    <3>2. IsFiniteSet(indoor) /\ IsFiniteSet(outdoor)
      BY <2>1, <3>1, FS_Subset
    <3>3. I \in Nat /\ O \in Nat
      BY <3>2, FS_CardinalityType
    <3>4. D \cap indoor = indoor
      BY <2>1
    <3>5. O = Cardinality(D) - I
      <4>1. Cardinality(D \ indoor) = Cardinality(D) - Cardinality(D \cap indoor)
        BY <3>1, FS_Difference
      <4>2. QED
        BY <3>4, <4>1
    <3>6. QED
      BY <3>1, <3>3, <3>5, <1>2
  <2> HIDE DEF indoor, outdoor
  <2>3. a \in Nat /\ a = (IF half <= I THEN half ELSE I) /\ takeIn \in SUBSET indoor
    <3> HIDE DEF half
    <3>1. QED
      BY <1>2, <2>1, SublistPrefix
  <2> HIDE DEF takeIn, a
  <2>4. L - a \in Nat
    <3> HIDE DEF half, L
    <3>1. QED
      BY <1>2, <2>2, <2>3
  <2>5. b \in Nat /\ b = (IF L - a <= O THEN L - a ELSE O) /\ takeOut \in SUBSET outdoor
    <3> DEFINE r == L - a
    <3> HIDE DEF r
    <3>1. /\ FirstOf(outdoor, r) \in SUBSET outdoor
          /\ Cardinality(FirstOf(outdoor, r)) \in Nat
          /\ Cardinality(FirstOf(outdoor, r)) = IF r <= O THEN r ELSE O
      BY <2>1, <2>4, SublistPrefix DEF r
    <3>2. QED
      BY <3>1 DEF r
  <2> HIDE DEF b, takeOut
  <2> DEFINE c == a + short
  <2>6. c \in Nat /\ c <= I /\ c + b = L /\ c >= a
    <3> HIDE DEF L, half, I, O
    <3>1. QED
      BY <1>2, <1>4, <2>2, <2>3, <2>4, <2>5
  <2>7. Cardinality(inside) = c /\ inside \in SUBSET indoor
    <3> HIDE DEF c
    <3>1. /\ FirstOf(indoor, c) \in SUBSET indoor
          /\ Cardinality(FirstOf(indoor, c)) = IF c <= I THEN c ELSE I
      BY <2>1, <2>6, SublistPrefix
    <3>2. QED
      BY <2>6, <3>1 DEF c
  <2> HIDE DEF c
  <2>8. inside = FirstOf(indoor, c) /\ takeOut = FirstOf(outdoor, L - a)
    BY DEF c, takeOut
  <2> HIDE DEF inside, K
  <2>9. K \in SUBSET D /\ K = inside \cup takeOut
    BY <2>1, <2>5, <2>7 DEF K
  <2>10. CapCandidates(s) = Sublist(s, K)
    <3> HIDE DEF L
    <3>1. QED
      BY <1>1, <1>2, <1>4
  <2>11. indoor = KindAt(s, D, TRUE) /\ outdoor = KindAt(s, D, FALSE)
    BY <1>2 DEF indoor, outdoor, KindAt
  <2>12. KindAt(s, K, TRUE) = inside /\ KindAt(s, K, FALSE) = takeOut
    <3>1. \A i \in D : s[i].indoor = TRUE <=> i \in indoor
      BY <2>11 DEF KindAt
    <3>2. \A i \in D : s[i].indoor = FALSE <=> i \in outdoor
      BY <2>11 DEF KindAt
    <3>3. indoor \cap outdoor = {}
      BY DEF outdoor
    <3>4. QED
      BY <2>5, <2>7, <2>9, <3>1, <3>2, <3>3 DEF KindAt
  <2>13. Len(Sublist(s, K)) = L
    <3>1. IsFiniteSet(K)
      BY <2>9, SublistIs
    <3>2. inside \in SUBSET K /\ takeOut \in SUBSET K /\ inside \cap takeOut = {}
      BY <2>5, <2>7, <2>9 DEF outdoor
    <3>3. IsFiniteSet(inside) /\ IsFiniteSet(takeOut)
      BY <3>1, <3>2, FS_Subset
    <3>4. Cardinality(K) = Cardinality(inside) + Cardinality(takeOut) - Cardinality(inside \cap takeOut)
      BY <2>9, <3>3, FS_Union
    <3>5. Cardinality(inside \cap takeOut) = 0
      BY <3>2, FS_EmptySet
    <3>8. Cardinality(takeOut) = b
      BY DEF b
    <3>9. Cardinality(K) = c + b
      BY <2>5, <2>6, <2>7, <3>4, <3>5, <3>8
    <3>6. Len(Sublist(s, K)) = Cardinality(K)
      BY <2>9, SublistIs
    <3>7. QED
      BY <2>6, <3>9, <3>6
  <2>14. ASSUME NEW k \in BOOLEAN
         PROVE  LET had == OfKind(s, k)
                    has == OfKind(Sublist(s, K), k)
                IN /\ has = SubSeq(had, 1, Len(has))
                   /\ has = had \/ Len(has) >= half
    <3> DEFINE had == OfKind(s, k)
               has == OfKind(Sublist(s, K), k)
    <3>1. PICK n \in Nat :
             /\ KindAt(s, K, k) = FirstOf(KindAt(s, D, k), n)
             /\ n >= half \/ n >= Cardinality(KindAt(s, D, k))
      <4>1. CASE k = TRUE
        <5>1. KindAt(s, K, k) = FirstOf(KindAt(s, D, k), c)
          BY <2>8, <2>11, <2>12, <4>1
        <5>2. c >= half \/ c >= Cardinality(KindAt(s, D, k))
          <6>1. c >= half \/ c >= I
            <7> HIDE DEF half, I
            <7>1. QED
              BY <1>2, <2>2, <2>3, <2>6
          <6>2. QED
            BY <2>11, <4>1, <6>1
        <5>3. QED
          BY <2>6, <5>1, <5>2
      <4>2. CASE k = FALSE
        <5>1. KindAt(s, K, k) = FirstOf(KindAt(s, D, k), L - a)
          BY <2>8, <2>11, <2>12, <4>2
        <5>2. L - a >= half
          <6>1. half + half <= L
            <7> HIDE DEF L
            <7>1. QED
              BY <1>2
          <6> HIDE DEF half, L
          <6>2. a <= half
            BY <1>2, <2>2, <2>3
          <6>3. QED
            BY <1>2, <2>3, <6>1, <6>2
        <5>3. QED
          BY <2>4, <5>1, <5>2
      <4>3. QED
        BY <4>1, <4>2
    <3>2. /\ had \in Seq(Candidate)
          /\ Len(had) = Cardinality(KindAt(s, D, k))
          /\ Len(has) = IF n <= Len(had) THEN n ELSE Len(had)
          /\ has = SubSeq(had, 1, Len(has))
      <4>1. k \in BOOLEAN /\ n \in Nat /\ K \in SUBSET DOMAIN s
            /\ KindAt(s, K, k) = FirstOf(KindAt(s, DOMAIN s, k), n)
        BY <2>9, <3>1
      <4>2. /\ OfKind(s, k) \in Seq(Candidate)
            /\ Len(OfKind(s, k)) = Cardinality(KindAt(s, DOMAIN s, k))
            /\ Len(OfKind(Sublist(s, K), k))
                 = IF n <= Len(OfKind(s, k)) THEN n ELSE Len(OfKind(s, k))
            /\ OfKind(Sublist(s, K), k)
                 = SubSeq(OfKind(s, k), 1, Len(OfKind(Sublist(s, K), k)))
        BY <4>1, KindOfCapped
      <4>3. QED
        BY <4>2
    <3> HIDE DEF had, has
    <3>3. Len(had) \in Nat /\ SubSeq(had, 1, Len(had)) = had
      BY <3>2, SubSeqFull, LenProperties
    <3>4. Len(has) = Len(had) \/ (Len(has) = n /\ n >= half)
      <4> HIDE DEF half
      <4>1. QED
        BY <1>2, <3>1, <3>2, <3>3
    <3>5. has = had \/ Len(has) >= half
      BY <3>2, <3>3, <3>4
    <3>6. QED
      BY <3>2, <3>5 DEF had, has
  <2>15. Sublist(s, K) \in Seq(Candidate) /\ Draws(Sublist(s, K), s)
    BY <2>9, SublistDraws
  <2>16. QED
    BY <2>10, <2>13, <2>14, <2>15
<1>5. QED
  <2> HIDE DEF L
  <2>1. (L = 0 \/ Len(s) <= L) \/ (L # 0 /\ Len(s) > L)
    BY <1>2
  <2>2. QED
    BY <1>3, <1>4, <2>1

--------------------------------------------------------------------------------
(* The operators on places.                                                 *)

(* The days of a list of places never descend.                              *)
Sequenced(s) == \A i, k \in DOMAIN s : i < k => s[i].day <= s[k].day

(* What the model's answer makes: places on days of the trip, in the order  *)
(* of the days, each candidate at most once.                                *)
LEMMA ChosenPlaces ==
  ASSUME NEW s \in Seq(Candidate), Distinct(s),
         NEW answer \in Seq([index : Int, day : Int])
  PROVE  /\ Chosen(s, answer) \in Seq(Place)
         /\ Distinct(Chosen(s, answer))
         /\ Ids(Chosen(s, answer)) \subseteq Ids(s)
         /\ Sequenced(Chosen(s, answer))
<1> DEFINE valid == {i \in DOMAIN answer : answer[i].day \in TripDays /\ answer[i].index \in 0 .. Len(s) - 1}
           first == {i \in valid : \A k \in valid : k < i => answer[k].index # answer[i].index}
           key == [i \in first |-> answer[i].day]
           at == Sorted(first, key)
           all == [n \in DOMAIN at |-> [id |-> s[answer[at[n]].index + 1].id,
                                        day |-> answer[at[n]].day]]
           keep == {n \in DOMAIN all : IsPlace(all[n])}
           t == Chosen(s, answer)
<1>1. t = Sublist(all, keep)
  BY DEF Chosen
<1>2. DOMAIN s = 1 .. Len(s) /\ Len(s) \in Nat /\ \A i \in DOMAIN s : s[i].id \in Int
  <2>1. DOMAIN s = 1 .. Len(s) /\ Len(s) \in Nat /\ \A i \in DOMAIN s : s[i] \in Candidate
    BY LenProperties, ElementOfSeq
  <2>2. QED
    BY <2>1 DEF Candidate
<1>3. DOMAIN answer = 1 .. Len(answer) /\ Len(answer) \in Nat
  BY LenProperties
<1>4. ASSUME NEW i \in first
      PROVE  /\ i \in 1 .. Len(answer) /\ i \in Int
             /\ answer[i].day \in TripDays /\ answer[i].day \in Int
             /\ answer[i].index + 1 \in DOMAIN s
             /\ answer[i].index \in Int
  <2>1. i \in 1 .. Len(answer) /\ answer[i].day \in TripDays /\ answer[i].index \in 0 .. Len(s) - 1
    BY <1>3
  <2>2. answer[i].day \in Int
    BY <2>1 DEF TripDays
  <2>3. QED
    BY <1>2, <1>3, <2>1, <2>2
<1>5. ASSUME NEW i \in first, NEW k \in first, answer[i].index = answer[k].index
      PROVE  i = k
  <2>1. i \in Int /\ k \in Int /\ i \in valid /\ k \in valid
    BY <1>4
  <2>2. ~(i < k) /\ ~(k < i)
    BY <1>5, <2>1
  <2>3. QED
    BY <2>1, <2>2
<1> DEFINE N == Cardinality(first)
<1>6. first \in SUBSET Int /\ IsFiniteSet(first)
  <2>1. first \in SUBSET DOMAIN answer
    OBVIOUS
  <2> HIDE DEF first
  <2>2. QED
    BY <2>1, Positions
<1> HIDE DEF valid, first
<1>7. key \in [first -> Int]
  BY <1>4
<1>8. /\ N \in Nat /\ at \in [1 .. N -> first]
      /\ \A m, n \in 1 .. N : m < n => Before(key, at[m], at[n])
      /\ \A m, n \in 1 .. N : m # n => at[m] # at[n]
  <2> HIDE DEF key
  <2>1. QED
    BY <1>6, <1>7, SortedIs
<1>9. \A i \in first : key[i] = answer[i].day
  OBVIOUS
<1> HIDE DEF key, at, N
<1>10. /\ DOMAIN all = 1 .. N
       /\ \A n \in 1 .. N : all[n].id = s[answer[at[n]].index + 1].id
                            /\ all[n].day = answer[at[n]].day
  BY <1>8
<1>11. all \in [1 .. N -> [id : Int, day : TripDays]]
  <2>1. ASSUME NEW n \in 1 .. N
        PROVE  s[answer[at[n]].index + 1].id \in Int /\ answer[at[n]].day \in TripDays
    <3>1. at[n] \in first
      BY <1>8
    <3>2. QED
      BY <1>2, <1>4, <3>1
  <2>2. QED
    BY <1>8, <2>1
<1> HIDE DEF all
<1> DEFINE P == [id : Int, day : TripDays]
<1>12. all \in Seq(P)
  <2> HIDE DEF P
  <2>1. QED
    BY <1>8, <1>11, FunctionIsList DEF P
<1>13. \A m, n \in 1 .. N : m < n => all[m].day <= all[n].day
  <2>1. ASSUME NEW m \in 1 .. N, NEW n \in 1 .. N, m < n PROVE all[m].day <= all[n].day
    <3>1. at[m] \in first /\ at[n] \in first /\ Before(key, at[m], at[n])
      BY <1>8, <2>1
    <3>2. answer[at[m]].day < answer[at[n]].day \/ answer[at[m]].day = answer[at[n]].day
      BY <1>9, <3>1 DEF Before
    <3>3. answer[at[m]].day \in Int /\ answer[at[n]].day \in Int
      BY <1>4, <3>1
    <3>4. all[m].day = answer[at[m]].day /\ all[n].day = answer[at[n]].day
      BY <1>10, <2>1
    <3>5. answer[at[m]].day <= answer[at[n]].day
      <4> DEFINE a == answer[at[m]].day
                 b == answer[at[n]].day
      <4>1. (a < b \/ a = b) /\ a \in Int /\ b \in Int
        BY <3>2, <3>3
      <4> HIDE DEF a, b
      <4>2. a <= b
        BY <4>1
      <4>3. QED
        BY <4>2 DEF a, b
    <3>6. QED
      BY <3>4, <3>5
  <2>2. QED
    BY <2>1
<1>14. Distinct(all)
  <2>1. ASSUME NEW m \in 1 .. N, NEW n \in 1 .. N, all[m].id = all[n].id
        PROVE  m = n \/ all[m].id = NoId
    <3> DEFINE i == answer[at[m]].index + 1
               k == answer[at[n]].index + 1
    <3>1. at[m] \in first /\ at[n] \in first
      BY <1>8
    <3>2. i \in DOMAIN s /\ k \in DOMAIN s /\ s[i].id = s[k].id /\ s[i].id = all[m].id
      BY <1>4, <1>10, <2>1, <3>1
    <3>3. i = k \/ all[m].id = NoId
      <4> HIDE DEF i, k
      <4>1. QED
        BY <3>2 DEF Distinct
    <3>4. i = k => answer[at[m]].index = answer[at[n]].index
      <4> DEFINE x == answer[at[m]].index
                 y == answer[at[n]].index
      <4>1. x \in Int /\ y \in Int
        BY <1>4, <3>1
      <4>2. i = x + 1 /\ k = y + 1
        OBVIOUS
      <4> HIDE DEF x, y, i, k
      <4>3. i = k => x = y
        BY <4>1, <4>2
      <4>4. QED
        BY <4>3 DEF x, y
    <3>5. answer[at[m]].index = answer[at[n]].index => m = n
      BY <1>5, <1>8, <3>1
    <3>6. QED
      BY <3>3, <3>4, <3>5
  <2>2. QED
    BY <1>10, <2>1 DEF Distinct
<1>15. keep \in SUBSET DOMAIN all
  OBVIOUS
<1>16. \A n \in keep : all[n].id # NoId
  BY DEF IsPlace
<1> HIDE DEF keep, t, P
<1>17. t \in Seq(P) /\ Draws(t, all)
  BY <1>1, <1>12, <1>15, SublistDraws
<1>18. Distinct(t)
  BY <1>14, <1>17, DrawsKeep
<1>19. /\ DOMAIN t = 1 .. Cardinality(keep)
       /\ InOrder(keep) \in [1 .. Cardinality(keep) -> keep]
       /\ \A m, n \in 1 .. Cardinality(keep) : m < n => InOrder(keep)[m] < InOrder(keep)[n]
       /\ \A n \in 1 .. Cardinality(keep) : t[n] = all[InOrder(keep)[n]]
  <2> DEFINE u == Sublist(all, keep)
  <2>1. t = u
    BY <1>1
  <2>2. /\ DOMAIN u = 1 .. Cardinality(keep)
        /\ InOrder(keep) \in [1 .. Cardinality(keep) -> keep]
        /\ \A m, n \in 1 .. Cardinality(keep) : m < n => InOrder(keep)[m] < InOrder(keep)[n]
        /\ \A n \in 1 .. Cardinality(keep) : u[n] = all[InOrder(keep)[n]]
    BY <1>12, <1>15, SublistIs
  <2> HIDE DEF u
  <2>3. QED
    BY <2>1, <2>2
<1>20. ASSUME NEW n \in DOMAIN t PROVE t[n].id # NoId
  <2>1. n \in 1 .. Cardinality(keep)
    BY <1>19
  <2>2. t[n] = all[InOrder(keep)[n]]
    BY <1>19, <2>1
  <2>3. InOrder(keep)[n] \in keep
    BY <1>19, <2>1
  <2> HIDE DEF IsPlace
  <2>4. QED
    BY <1>16, <2>2, <2>3
<1>21. t \in Seq(Place)
  <2>1. \A n \in DOMAIN t : t[n] \in Place
    <3>1. \A n \in DOMAIN t : t[n] \in P
      BY <1>17, Positions
    <3>2. QED
      BY <1>20, <3>1 DEF Place, P
  <2>2. QED
    BY <1>17, <2>1, ListOf
<1>22. Sequenced(t)
  <2>1. ASSUME NEW m \in DOMAIN t, NEW n \in DOMAIN t, m < n
        PROVE  t[m].day <= t[n].day
    <3>1. /\ InOrder(keep)[m] \in 1 .. N /\ InOrder(keep)[n] \in 1 .. N
          /\ InOrder(keep)[m] < InOrder(keep)[n]
          /\ t[m] = all[InOrder(keep)[m]] /\ t[n] = all[InOrder(keep)[n]]
      BY <1>10, <1>15, <1>19, <2>1
    <3>2. QED
      BY <1>13, <3>1
  <2>2. QED
    BY <2>1 DEF Sequenced
<1>23. Ids(t) \subseteq Ids(s)
  <2>1. Ids(t) \subseteq Ids(all)
    BY <1>17, DrawsKeep
  <2>2. \A n \in DOMAIN all : all[n].id \in Ids(s)
    <3>1. ASSUME NEW n \in 1 .. N PROVE all[n].id \in Ids(s)
      <4>1. answer[at[n]].index + 1 \in DOMAIN s
        BY <1>4, <1>8
      <4>2. QED
        BY <1>10, <4>1 DEF Ids
    <3>2. QED
      BY <1>10, <3>1
  <2>3. Ids(all) \subseteq Ids(s)
    BY <2>2 DEF Ids
  <2>4. QED
    BY <2>1, <2>3
<1>24. QED
  BY <1>18, <1>21, <1>22, <1>23 DEF t

(* Sorting by day permutes the places and is stable.                        *)
LEMMA ByDayIs ==
  ASSUME NEW s \in Seq(Place)
  PROVE  /\ ByDay(s) \in Seq(Place)
         /\ Len(ByDay(s)) = Len(s) /\ DOMAIN ByDay(s) = DOMAIN s
         /\ \E at \in [DOMAIN s -> DOMAIN s] :
              /\ \A i \in DOMAIN s : \E n \in DOMAIN s : at[n] = i
              /\ \A i, k \in DOMAIN s : i # k => at[i] # at[k]
              /\ \A n \in DOMAIN s : ByDay(s)[n] = s[at[n]]
              /\ \A i, k \in DOMAIN s :
                   i < k => /\ s[at[i]].day <= s[at[k]].day
                            /\ s[at[i]].day = s[at[k]].day => at[i] < at[k]
<1> DEFINE key == [i \in DOMAIN s |-> s[i].day]
           at == Sorted(DOMAIN s, key)
<1>1. \A i \in DOMAIN s : s[i].day \in Int
  <2>1. \A i \in DOMAIN s : s[i] \in Place
    BY Positions
  <2>2. QED
    BY <2>1 DEF Place, TripDays
<1>2. key \in [DOMAIN s -> Int] /\ \A i \in DOMAIN s : key[i] = s[i].day
  BY <1>1
<1>3. ByDay(s) = SortedList(s, key)
  BY DEF ByDay
<1> HIDE DEF key
<1>4. /\ SortedList(s, key) \in Seq(Place)
      /\ Len(SortedList(s, key)) = Len(s) /\ DOMAIN SortedList(s, key) = DOMAIN s
      /\ at \in [DOMAIN s -> DOMAIN s]
      /\ \A i \in DOMAIN s : \E n \in DOMAIN s : at[n] = i
      /\ \A i, k \in DOMAIN s : i < k => Before(key, at[i], at[k])
      /\ \A i, k \in DOMAIN s : i # k => at[i] # at[k]
      /\ \A n \in DOMAIN s : SortedList(s, key)[n] = s[at[n]]
  BY <1>2, SortedListIs
<1> HIDE DEF at
<1>5. ASSUME NEW i \in DOMAIN s, NEW k \in DOMAIN s, i < k
      PROVE  /\ s[at[i]].day <= s[at[k]].day
             /\ s[at[i]].day = s[at[k]].day => at[i] < at[k]
  <2>1. at[i] \in DOMAIN s /\ at[k] \in DOMAIN s /\ Before(key, at[i], at[k])
    BY <1>4, <1>5
  <2>2. /\ key[at[i]] = s[at[i]].day /\ key[at[k]] = s[at[k]].day
        /\ s[at[i]].day \in Int /\ s[at[k]].day \in Int
    BY <1>1, <1>2, <2>1
  <2>3. QED
    BY <2>1, <2>2 DEF Before
<1>6. QED
  BY <1>3, <1>4, <1>5

(* What the merge of kept and new places makes.                             *)
LEMMA MergedPlaces ==
  ASSUME NEW pins \in Seq(Place), NEW fresh \in Seq(Place), Distinct(fresh)
  PROVE  LET m == MergePinned(pins, fresh)
         IN /\ m \in Seq(Place)
            /\ Len(m) >= Len(pins)
            /\ Ids(m) \subseteq Ids(pins) \cup Ids(fresh)
            /\ Sequenced(m)
            /\ \A i, k \in DOMAIN m :
                 i < k /\ m[i].day = m[k].day /\ m[k].id \in Ids(pins) => m[i].id \in Ids(pins)
            /\ \A i \in DOMAIN pins : \E k \in DOMAIN m : m[k] = pins[i]
            /\ \A i, k \in DOMAIN m :
                 m[i].id = m[k].id =>
                   i = k \/ \E j, l \in DOMAIN pins :
                              j # l /\ pins[j].id = m[i].id /\ pins[l].id = m[i].id
<1> DEFINE new == Others(fresh, pins)
           keep == {i \in DOMAIN fresh : fresh[i].id \notin Ids(pins)}
           all == pins \o new
           P == Len(pins)
           D == DOMAIN all
           m == MergePinned(pins, fresh)
<1>1. new = Sublist(fresh, keep) /\ m = ByDay(all)
  BY DEF Others, MergePinned
<1>2. keep \in SUBSET DOMAIN fresh /\ \A i \in keep : fresh[i].id \notin Ids(pins)
  OBVIOUS
<1> HIDE DEF keep, new
<1>3. /\ new \in Seq(Place) /\ Draws(new, fresh) /\ Distinct(new)
      /\ Ids(new) \subseteq Ids(fresh)
  BY <1>1, <1>2, SublistDraws, DrawsKeep
<1>4. \A i \in DOMAIN new : new[i].id \notin Ids(pins)
  BY <1>1, <1>2, SublistMembers
<1>5. /\ P \in Nat /\ DOMAIN pins = 1 .. P /\ \A i \in 1 .. P : pins[i] \in Place
      /\ Len(new) \in Nat /\ DOMAIN new = 1 .. Len(new) /\ \A i \in DOMAIN new : new[i] \in Place
  BY <1>3, Positions
<1> DEFINE Q == Len(new)
<1>6. /\ all \in Seq(Place) /\ Len(all) = P + Q
      /\ \A i \in 1 .. P + Q : all[i] = IF i <= P THEN pins[i] ELSE new[i - P]
  BY <1>3, ConcatProperties
<1> HIDE DEF all
<1>7. D = 1 .. P + Q /\ D \in SUBSET Int /\ \A i \in D : all[i] \in Place
  BY <1>6, Positions
<1> HIDE DEF D
<1>8. \A i \in D : i \in Int /\ all[i].day \in Int /\ all[i].day \in TripDays /\ all[i].id # NoId
  BY <1>7 DEF Place, TripDays
<1> HIDE DEF P, Q
(* The places at the first P positions are the kept ones, the others new.   *)
<1>9. ASSUME NEW i \in D
      PROVE  /\ i <= P => i \in DOMAIN pins /\ all[i] = pins[i] /\ all[i].id \in Ids(pins)
             /\ ~(i <= P) => /\ i - P \in DOMAIN new /\ all[i] = new[i - P]
                             /\ all[i].id \notin Ids(pins) /\ all[i].id \in Ids(new)
  <2>1. CASE i <= P
    <3>1. i \in DOMAIN pins
      BY <1>5, <1>7, <2>1
    <3>2. all[i] = pins[i]
      BY <1>6, <1>7, <2>1
    <3>3. QED
      BY <2>1, <3>1, <3>2 DEF Ids
  <2>2. CASE ~(i <= P)
    <3>1. i - P \in DOMAIN new
      BY <1>5, <1>7, <2>2 DEF Q
    <3>2. all[i] = new[i - P]
      BY <1>6, <1>7, <2>2
    <3>3. QED
      BY <1>4, <2>2, <3>1, <3>2 DEF Ids
  <2>3. QED
    BY <2>1, <2>2
<1> HIDE DEF m
<1>10. m \in Seq(Place) /\ Len(m) = P + Q /\ DOMAIN m = D
  BY <1>1, <1>6, ByDayIs DEF D
<1>11. PICK at \in [D -> D] :
         /\ \A i \in D : \E n \in D : at[n] = i
         /\ \A i, k \in D : i # k => at[i] # at[k]
         /\ \A n \in D : m[n] = all[at[n]]
         /\ \A i, k \in D : i < k => /\ all[at[i]].day <= all[at[k]].day
                                     /\ all[at[i]].day = all[at[k]].day => at[i] < at[k]
  <2>1. all \in Seq(Place) /\ m = ByDay(all)
    BY <1>1, <1>6
  <2>2. QED
    BY <2>1, ByDayIs, ZenonT(30) DEF D
<1>12. Len(m) >= P
  BY <1>5, <1>10 DEF Q
<1>13. Ids(m) \subseteq Ids(pins) \cup Ids(fresh)
  <2>1. ASSUME NEW n \in DOMAIN m PROVE m[n].id \in Ids(pins) \cup Ids(fresh)
    <3>1. at[n] \in D /\ m[n] = all[at[n]]
      BY <1>10, <1>11
    <3>2. all[at[n]].id \in Ids(pins) \/ all[at[n]].id \in Ids(new)
      BY <1>9, <3>1
    <3>3. QED
      BY <1>3, <3>1, <3>2
  <2>2. ASSUME NEW x \in Ids(m) PROVE x \in Ids(pins) \cup Ids(fresh)
    <3>1. PICK n \in DOMAIN m : x = m[n].id
      BY DEF Ids
    <3>2. QED
      BY <2>1, <3>1
  <2>3. QED
    BY <2>2
<1>14. ASSUME NEW i \in D, NEW k \in D, i < k
       PROVE  m[i].day <= m[k].day /\ (m[i].day = m[k].day => at[i] < at[k])
  <2>1. m[i] = all[at[i]] /\ m[k] = all[at[k]]
    BY <1>11
  <2>2. QED
    BY <1>11, <1>14, <2>1
<1>15. Sequenced(m)
  BY <1>10, <1>14 DEF Sequenced
<1>16. ASSUME NEW i \in D, NEW k \in D,
              i < k, m[i].day = m[k].day, m[k].id \in Ids(pins)
       PROVE  m[i].id \in Ids(pins)
  <2>1. /\ at[i] \in D /\ at[k] \in D /\ m[i] = all[at[i]] /\ m[k] = all[at[k]]
        /\ at[i] < at[k]
    BY <1>11, <1>14, <1>16
  <2>2. at[k] <= P
    BY <1>9, <1>16, <2>1
  <2>3. at[i] <= P
    BY <1>5, <1>8, <2>1, <2>2
  <2>4. QED
    BY <1>9, <2>1, <2>3
<1>17. ASSUME NEW i \in DOMAIN pins
       PROVE  \E k \in D : m[k] = pins[i]
  <2>1. i \in D /\ i <= P
    BY <1>5, <1>7 DEF Q
  <2>2. all[i] = pins[i]
    BY <1>9, <2>1
  <2>3. PICK k \in D : at[k] = i
    BY <1>11, <2>1
  <2>4. m[k] = pins[i]
    BY <1>11, <2>2, <2>3
  <2>5. QED
    BY <2>4
<1>18. ASSUME NEW i \in D, NEW k \in D, m[i].id = m[k].id, i # k
       PROVE  \E j, l \in DOMAIN pins :
                j # l /\ pins[j].id = m[i].id /\ pins[l].id = m[i].id
  <2>1. /\ at[i] \in D /\ at[k] \in D /\ m[i] = all[at[i]] /\ m[k] = all[at[k]]
        /\ at[i] # at[k]
    BY <1>11, <1>18
  <2>2. CASE at[i] <= P
    <3>1. m[k].id \in Ids(pins)
      BY <1>9, <1>18, <2>1, <2>2
    <3>2. at[k] <= P
      BY <1>9, <2>1, <3>1
    <3>3. at[i] \in DOMAIN pins /\ at[k] \in DOMAIN pins
          /\ pins[at[i]].id = m[i].id /\ pins[at[k]].id = m[i].id
      BY <1>9, <1>18, <2>1, <2>2, <3>2
    <3>4. QED
      BY <2>1, <3>3
  <2>3. CASE ~(at[i] <= P)
    <3>1. m[i].id \notin Ids(pins)
      BY <1>9, <2>1, <2>3
    <3>2. ~(at[k] <= P)
      BY <1>9, <1>18, <2>1, <3>1
    <3>3. /\ at[i] - P \in DOMAIN new /\ at[k] - P \in DOMAIN new
          /\ m[i] = new[at[i] - P] /\ m[k] = new[at[k] - P]
      BY <1>9, <2>1, <2>3, <3>2
    <3>4. at[i] - P = at[k] - P \/ m[i].id = NoId
      BY <1>3, <1>18, <3>3 DEF Distinct
    <3>5. m[i].id # NoId
      BY <1>8, <2>1
    <3>6. at[i] \in Int /\ at[k] \in Int /\ P \in Int
      BY <1>5, <1>8, <2>1
    <3>7. QED
      BY <2>1, <3>4, <3>5, <3>6
  <2>4. QED
    BY <2>2, <2>3
<1>19. QED
  BY <1>10, <1>12, <1>13, <1>15, <1>16, <1>17, <1>18 DEF m, P

--------------------------------------------------------------------------------
(* The invariant.                                                           *)

Inv ==
  /\ TypeOK
  /\ stage \in {"init", "mode1"}
  /\ Distinct(candidates)
  /\ pinned # << >> => stage = "mode1"
  /\ node \notin {"select_places", "end"} => pinned = << >>
  /\ HandsOver /\ PlacesWanted /\ KeptPlacesStay

(* What each day still needs is a number of places.                         *)
LEMMA Remaining ==
  ASSUME NEW pins \in Seq(Place)
  PROVE  RemainingTargets(pins) \in [TripDays -> 0 .. TargetStops]
<1>1. ASSUME NEW d \in TripDays
      PROVE  Larger(0, TargetStops - Cardinality(OnDay(pins, d))) \in 0 .. TargetStops
  <2>1. OnDay(pins, d) \in SUBSET DOMAIN pins
    BY DEF OnDay
  <2>2. Cardinality(OnDay(pins, d)) \in Nat
    BY <2>1, Positions
  <2>3. QED
    BY <2>2, Targets DEF Larger
<1>2. QED
  BY <1>1 DEF RemainingTargets

(* Kept places that leave no room cover the trip, each day at least twice.  *)
LEMMA NoRoomCovers ==
  ASSUME NEW pins \in Seq(Place), NoRoom(pins)
  PROVE  /\ Len(pins) >= 2
         /\ \A d \in TripDays : OnDay(pins, d) # {}
<1>1. ASSUME NEW d \in TripDays
      PROVE  OnDay(pins, d) \in SUBSET DOMAIN pins /\ Cardinality(OnDay(pins, d)) >= 2
  <2>1. OnDay(pins, d) \in SUBSET DOMAIN pins
    BY DEF OnDay
  <2>2. Cardinality(OnDay(pins, d)) \in Nat
    BY <2>1, Positions
  <2>3. Larger(0, TargetStops - Cardinality(OnDay(pins, d))) = 0
    BY DEF NoRoom, RemainingTargets
  <2>4. TargetStops \in 2 .. 5
    BY Targets
  <2>5. QED
    BY <2>1, <2>2, <2>3, <2>4 DEF Larger
<1>2. ASSUME NEW d \in TripDays, OnDay(pins, d) = {} PROVE FALSE
  <2>1. Cardinality(OnDay(pins, d)) = 0
    BY <1>2, FS_EmptySet
  <2>2. QED
    BY <1>1, <2>1
<1>3. 1 \in TripDays
  BY Constants DEF TripDays
<1>4. Len(pins) >= 2
  <2> DEFINE A == OnDay(pins, 1)
  <2>1. A \in SUBSET DOMAIN pins /\ Cardinality(A) >= 2
    BY <1>1, <1>3
  <2>2. IsFiniteSet(DOMAIN pins) /\ Cardinality(DOMAIN pins) = Len(pins) /\ Len(pins) \in Nat
        /\ Cardinality(A) \in Nat
    BY <2>1, Positions
  <2> HIDE DEF A
  <2>3. Cardinality(A) <= Cardinality(DOMAIN pins)
    BY <2>1, <2>2, FS_Subset
  <2>4. QED
    BY <2>1, <2>2, <2>3
<1>5. QED
  BY <1>2, <1>4

(* The handover promised, from what is known of the places.                 *)
LEMMA HandedOverIs ==
  ASSUME NEW st \in {"init", "mode1"}, NEW s \in Seq(Place), NEW kept \in Seq(Place),
         kept # << >> => st = "mode1",
         Len(s) >= 2, \A d \in TripDays : OnDay(s, d) # {},
         \/ s = kept
         \/ /\ Sequenced(s)
            /\ \A i, k \in DOMAIN s :
                 i < k /\ s[i].day = s[k].day /\ s[k].id \in Ids(kept) => s[i].id \in Ids(kept)
  PROVE  HandedOver(st, [i \in DOMAIN s |->
                           [day |-> s[i].day, pinned |-> s[i].id \in Ids(kept)]])
<1> DEFINE h == [i \in DOMAIN s |-> [day |-> s[i].day, pinned |-> s[i].id \in Ids(kept)]]
<1>1. DOMAIN s = 1 .. Len(s) /\ Len(s) \in Nat /\ \A i \in DOMAIN s : s[i] \in Place
  BY Positions
<1>2. \A i \in DOMAIN s : s[i].day \in TripDays /\ s[i].day \in Int
  BY <1>1 DEF Place, TripDays
<1>3. /\ DOMAIN h = DOMAIN s
      /\ \A i \in DOMAIN s : h[i].day = s[i].day /\ (h[i].pinned <=> s[i].id \in Ids(kept))
  OBVIOUS
<1>4. Len(h) = Len(s)
  <2> DEFINE n == Len(s)
             T == {h[i] : i \in 1 .. n}
  <2>1. h \in [1 .. n -> T] /\ n \in Nat
    BY <1>1, <1>3
  <2> HIDE DEF n, T, h
  <2>2. Len(h) = n
    BY <2>1, FunctionIsList
  <2>3. QED
    BY <2>2 DEF n
<1> HIDE DEF h
<1>5. Covered(h)
  <2>1. ASSUME NEW i \in DOMAIN h, NEW d \in 1 .. h[i].day
        PROVE  \E k \in DOMAIN h : h[k].day = d
    <3>1. h[i].day \in 1 .. NumDays
      BY <1>2, <1>3 DEF TripDays
    <3>2. d \in TripDays
      BY <3>1, Constants DEF TripDays
    <3>3. PICK k \in DOMAIN s : s[k].day = d
      BY <3>2 DEF OnDay
    <3>4. QED
      BY <1>3, <3>3
  <2>2. QED
    BY <2>1 DEF Covered
<1>6. CASE s = kept
  <2>1. \A i \in DOMAIN h : h[i].pinned
    BY <1>3, <1>6 DEF Ids
  <2>2. s # << >>
    BY <1>1
  <2>3. QED
    BY <1>4, <1>5, <1>6, <2>1, <2>2 DEF HandedOver, h
<1>7. CASE /\ Sequenced(s)
           /\ \A i, k \in DOMAIN s :
                i < k /\ s[i].day = s[k].day /\ s[k].id \in Ids(kept) => s[i].id \in Ids(kept)
  <2>1. Ascending(h)
    BY <1>3, <1>7 DEF Ascending, Sequenced
  <2>2. \A i, k \in DOMAIN h : i < k /\ h[i].day = h[k].day /\ h[k].pinned => h[i].pinned
    BY <1>3, <1>7
  <2>3. st = "init" => NonePinned(h)
    <3>1. kept = << >> => Ids(kept) = {}
      BY DEF Ids
    <3>2. QED
      BY <1>3, <3>1 DEF NonePinned
  <2>4. QED
    BY <1>4, <1>5, <2>1, <2>2, <2>3 DEF HandedOver, h
<1>8. QED
  BY <1>6, <1>7

LEMMA InitInv == Init => Inv
<1> SUFFICES ASSUME Init PROVE Inv
  OBVIOUS
<1>1. Ids(<< >>) = {} /\ Distinct(<< >>)
  BY DEF Ids, Distinct
<1>2. targets \in [TripDays -> 0 .. TargetStops]
  BY Targets DEF Init
<1>3. << >> \in Seq(Candidate) /\ << >> \in Seq(Place)
  OBVIOUS
<1>4. node = "search_places" /\ ~Done
  BY DEF Init, Done
<1>5. QED
  BY <1>1, <1>2, <1>3, <1>4 DEF Init, Inv, TypeOK, HandsOver, PlacesWanted, KeptPlacesStay

(* No step before the last one leaves a list of places.                     *)
LEMMA NotDone ==
  ASSUME ~Done
  PROVE  HandsOver /\ PlacesWanted /\ KeptPlacesStay
  BY DEF HandsOver, PlacesWanted, KeptPlacesStay

LEMMA SearchPlacesInv ==
  ASSUME Inv, SearchPlaces
  PROVE  Inv'
<1> USE DEF SearchPlaces
<1>1. CASE Fail /\ UNCHANGED <<exclude, candidates>>
  <2>1. node' = "end" /\ ~Done'
    BY <1>1 DEF Fail, Done
  <2>2. Ids(candidates)' = Ids(candidates)
    BY <1>1
  <2>3. QED
    BY <1>1, <2>1, <2>2
       DEF Fail, Inv, TypeOK, HandsOver, PlacesWanted, KeptPlacesStay, Distinct
<1>2. ASSUME NEW found \in Found, NEW unwanted \in Excludes,
             exclude' = unwanted,
             candidates' = Sublist(MergePlaceResults(found),
                                   {i \in DOMAIN MergePlaceResults(found) :
                                      MergePlaceResults(found)[i].id \notin unwanted}),
             node' = "rules_filter", UNCHANGED failed
      PROVE  Inv'
  <2> DEFINE merged == MergePlaceResults(found)
             keep == {i \in DOMAIN merged : merged[i].id \notin unwanted}
  <2>1. found \in Seq(Candidate)
    BY Constants
  <2>2. merged \in Seq(Candidate) /\ Distinct(merged)
    BY <2>1, Merged
  <2>3. keep \in SUBSET DOMAIN merged /\ \A i \in keep : merged[i].id \notin unwanted
    OBVIOUS
  <2>4. candidates' = Sublist(merged, keep)
    BY <1>2
  <2> HIDE DEF merged, keep
  <2>5. candidates' \in Seq(Candidate) /\ Distinct(candidates')
    BY <2>2, <2>3, <2>4, SublistDraws, DrawsKeep
  <2>6. \A n \in DOMAIN candidates' : candidates'[n].id \notin exclude'
    BY <1>2, <2>2, <2>3, <2>4, SublistMembers
  <2>7. Ids(candidates') \cap exclude' = {}
    BY <2>6 DEF Ids
  <2>8. ~Done'
    BY <1>2 DEF Done
  <2>9. QED
    BY <1>2, <2>5, <2>7, <2>8 DEF Inv, TypeOK, HandsOver, PlacesWanted, KeptPlacesStay
<1>3. QED
  BY <1>1, <1>2

(* A step that draws candidates from the candidates.                        *)
LEMMA DrawingInv ==
  ASSUME Inv, candidates' \in Seq(Candidate), Draws(candidates', candidates),
         node' \in {"score_and_rank", "recommend_places"},
         node \notin {"select_places", "end"},
         UNCHANGED <<stage, exclude, pinned, targets, places, failed>>
  PROVE  Inv'
<1>1. Ids(candidates') \subseteq Ids(candidates) /\ (Distinct(candidates) => Distinct(candidates'))
  BY DrawsKeep
<1>2. ~Done'
  BY DEF Done
<1>3. Ids(candidates') \cap exclude' = {} /\ Distinct(candidates')
  BY <1>1 DEF Inv, TypeOK
<1>4. QED
  BY <1>2, <1>3 DEF Inv, TypeOK, HandsOver, PlacesWanted, KeptPlacesStay

LEMMA RulesFilterInv ==
  ASSUME Inv, RulesFilter
  PROVE  Inv'
<1>1. PICK within \in SUBSET DOMAIN candidates : candidates' = Sublist(candidates, within)
  BY DEF RulesFilter
<1>2. candidates \in Seq(Candidate)
  BY DEF Inv, TypeOK
<1>3. candidates' \in Seq(Candidate) /\ Draws(candidates', candidates)
  BY <1>1, <1>2, SublistDraws
<1>4. QED
  BY <1>3, DrawingInv DEF RulesFilter

LEMMA ScoreAndRankInv ==
  ASSUME Inv, ScoreAndRank
  PROVE  Inv'
<1>1. PICK known \in SUBSET (Ids(candidates) \ {NoId}) : \E scored \in [known -> Scores] :
         candidates' = IF known = {} THEN candidates ELSE Ranked(candidates, scored)
  BY DEF ScoreAndRank
<1>2. PICK scored \in [known -> Scores] :
         candidates' = IF known = {} THEN candidates ELSE Ranked(candidates, scored)
  BY <1>1
<1>3. candidates \in Seq(Candidate)
  BY DEF Inv, TypeOK
<1>4. Ids(candidates) \subseteq Int
  <2>1. \A i \in DOMAIN candidates : candidates[i] \in Candidate
    BY <1>3, Positions
  <2>2. \A i \in DOMAIN candidates : candidates[i].id \in Int
    BY <2>1 DEF Candidate
  <2>3. QED
    BY <2>2 DEF Ids
<1>5. CASE known = {}
  <2>1. candidates' = Ranked(candidates, scored) \/ candidates' = candidates
    BY <1>2
  <2>2. candidates' = candidates
    BY <1>2, <1>5
  <2>3. Draws(candidates, candidates)
    <3> DEFINE f == [i \in DOMAIN candidates |-> i]
    <3>1. /\ f \in [DOMAIN candidates -> DOMAIN candidates]
          /\ \A m, n \in DOMAIN candidates : m # n => f[m] # f[n]
          /\ \A n \in DOMAIN candidates : candidates[n] = candidates[f[n]]
      OBVIOUS
    <3>2. QED
      BY <3>1 DEF Draws
  <2>4. candidates' \in Seq(Candidate) /\ Draws(candidates', candidates)
    BY <1>3, <2>2, <2>3
  <2>5. QED
    BY <2>4, DrawingInv DEF ScoreAndRank
<1>6. CASE known # {}
  <2>1. candidates' = Ranked(candidates, scored)
    BY <1>2, <1>6
  <2>2. known \in SUBSET Int
    BY <1>4
  <2>3. candidates' \in Seq(Candidate) /\ Draws(candidates', candidates)
    BY <1>3, <2>1, <2>2, RankedDraws
  <2>4. QED
    BY <2>3, DrawingInv DEF ScoreAndRank
<1>7. QED
  BY <1>5, <1>6

LEMMA RecommendPlacesInv ==
  ASSUME Inv, RecommendPlaces
  PROVE  Inv'
<1> USE DEF RecommendPlaces
<1>1. candidates \in Seq(Candidate) /\ Ids(candidates) \cap exclude = {} /\ Distinct(candidates)
      /\ pinned = << >> /\ stage \in {"init", "mode1"}
  BY DEF Inv, TypeOK
<1>2. CASE stage = "mode1" /\ Fail /\ UNCHANGED <<candidates, pinned, targets, places>>
  <2>1. node' = "end" /\ ~Done'
    BY <1>2 DEF Fail, Done
  <2>2. Ids(candidates)' = Ids(candidates)
    BY <1>2
  <2>3. QED
    BY <1>2, <2>1, <2>2
       DEF Fail, Inv, TypeOK, HandsOver, PlacesWanted, KeptPlacesStay, Distinct
<1>3. ASSUME NEW kept \in (IF stage = "mode1" THEN Pins ELSE {}) \cup {<< >>},
             pinned' = kept,
             targets' = IF kept = << >> THEN targets ELSE RemainingTargets(kept),
             \/ /\ NoRoom(kept)
                /\ places' = kept
                /\ node' = "end"
                /\ UNCHANGED <<candidates, failed>>
             \/ /\ ~NoRoom(kept) /\ candidates = << >>
                /\ Fail
                /\ UNCHANGED <<candidates, places>>
             \/ /\ ~NoRoom(kept) /\ candidates # << >>
                /\ candidates' = CapCandidates(candidates)
                /\ node' = "select_places"
                /\ UNCHANGED <<places, failed>>
      PROVE  Inv'
  <2>1. kept \in Seq(Place) /\ (kept # << >> => stage = "mode1")
    <3>1. << >> \in Seq(Place)
      OBVIOUS
    <3>2. (kept \in Pins /\ stage = "mode1") \/ kept = << >>
      OBVIOUS
    <3>3. QED
      BY <3>1, <3>2, Constants
  <2>2. targets' \in [TripDays -> 0 .. TargetStops]
    BY <1>3, <2>1, Remaining DEF Inv, TypeOK
  <2>3. pinned' \in Seq(Place) /\ (pinned' # << >> => stage' = "mode1")
        /\ stage' \in {"init", "mode1"} /\ exclude' = exclude
    BY <1>1, <1>3, <2>1
  <2>4. CASE NoRoom(kept) /\ places' = kept /\ node' = "end" /\ UNCHANGED <<candidates, failed>>
    <3>1. Len(kept) >= 2 /\ \A d \in TripDays : OnDay(kept, d) # {}
      BY <2>1, <2>4, NoRoomCovers
    <3>2. HandedOver(stage, [i \in DOMAIN kept |->
                               [day |-> kept[i].day, pinned |-> kept[i].id \in Ids(kept)]])
      BY <1>1, <2>1, <3>1, HandedOverIs
    <3>3. HandsOver'
      <4>1. stage' = stage /\ places' = kept /\ pinned' = kept
        BY <1>3, <2>4
      <4>2. QED
        BY <3>1, <3>2, <4>1 DEF HandsOver, OnDay, Ids
    <3>4. PlacesWanted'
      <4>1. \A i, k \in DOMAIN kept :
              kept[i].id = kept[k].id =>
                i = k \/ \E j, l \in DOMAIN kept : j # l /\ kept[j].id = kept[i].id /\ kept[l].id = kept[i].id
        OBVIOUS
      <4>2. QED
        BY <1>3, <2>4, <4>1 DEF PlacesWanted, KeptTwice, Ids
    <3>5. KeptPlacesStay'
      BY <1>3, <2>4 DEF KeptPlacesStay
    <3>6. Ids(candidates)' = Ids(candidates) /\ Distinct(candidates)'
      BY <1>1, <2>4 DEF Distinct
    <3>7. QED
      BY <1>1, <1>3, <2>1, <2>2, <2>3, <2>4, <3>3, <3>4, <3>5, <3>6 DEF Inv, TypeOK
  <2>5. CASE ~NoRoom(kept) /\ candidates = << >> /\ Fail /\ UNCHANGED <<candidates, places>>
    <3>1. node' = "end" /\ failed' = TRUE /\ ~Done'
      BY <2>5 DEF Fail, Done
    <3>2. Ids(candidates)' = Ids(candidates) /\ Distinct(candidates)'
      BY <1>1, <2>5 DEF Distinct
    <3>3. QED
      BY <1>1, <2>2, <2>3, <2>5, <3>1, <3>2
         DEF Inv, TypeOK, HandsOver, PlacesWanted, KeptPlacesStay
  <2>6. CASE /\ ~NoRoom(kept) /\ candidates # << >>
             /\ candidates' = CapCandidates(candidates)
             /\ node' = "select_places"
             /\ UNCHANGED <<places, failed>>
    <3>1. candidates' \in Seq(Candidate) /\ Draws(candidates', candidates)
      BY <1>1, <2>6, Capped
    <3>2. Ids(candidates') \cap exclude' = {} /\ Distinct(candidates')
      BY <1>1, <2>3, <3>1, DrawsKeep
    <3>3. ~Done'
      BY <2>6 DEF Done
    <3>4. QED
      BY <2>2, <2>3, <2>6, <3>1, <3>2, <3>3
         DEF Inv, TypeOK, HandsOver, PlacesWanted, KeptPlacesStay
  <2>7. QED
    BY <1>3, <2>4, <2>5, <2>6
<1>4. QED
  BY <1>2, <1>3

LEMMA SelectPlacesInv ==
  ASSUME Inv, SelectPlaces
  PROVE  Inv'
<1> USE DEF SelectPlaces
<1>1. /\ candidates \in Seq(Candidate) /\ Ids(candidates) \cap exclude = {}
      /\ Distinct(candidates)
      /\ pinned \in Seq(Place) /\ stage \in {"init", "mode1"}
      /\ pinned # << >> => stage = "mode1"
  BY DEF Inv, TypeOK
<1>2. /\ node' = "end"
      /\ UNCHANGED <<stage, exclude, candidates, pinned, targets>>
      /\ Ids(candidates)' = Ids(candidates) /\ Distinct(candidates)'
  BY <1>1 DEF Distinct
<1>3. ASSUME Fail, UNCHANGED places PROVE Inv'
  <2>1. failed' = TRUE /\ ~Done'
    BY <1>3 DEF Fail, Done
  <2>2. QED
    BY <1>1, <1>2, <1>3, <2>1 DEF Inv, TypeOK, HandsOver, PlacesWanted, KeptPlacesStay
<1>4. ASSUME NEW answer \in Answers, NEW fresh, fresh = Chosen(candidates, answer),
             fresh # << >>,
             places' = IF pinned = << >> THEN fresh ELSE MergePinned(pinned, fresh),
             failed' = ~Enough(places')
      PROVE  Inv'
  <2>1. answer \in Seq([index : Int, day : Int])
    BY Constants
  <2>2. /\ fresh \in Seq(Place) /\ Distinct(fresh)
        /\ Ids(fresh) \subseteq Ids(candidates) /\ Sequenced(fresh)
    BY <1>1, <1>4, <2>1, ChosenPlaces
  <2>3. /\ places' \in Seq(Place)
        /\ Ids(places') \subseteq Ids(pinned) \cup Ids(candidates)
        /\ Sequenced(places')
        /\ \A i, k \in DOMAIN places' :
             i < k /\ places'[i].day = places'[k].day /\ places'[k].id \in Ids(pinned)
               => places'[i].id \in Ids(pinned)
        /\ \A i \in DOMAIN pinned : \E k \in DOMAIN places' : places'[k] = pinned[i]
        /\ \A i, k \in DOMAIN places' :
             places'[i].id = places'[k].id =>
               i = k \/ \E j, l \in DOMAIN pinned :
                          j # l /\ pinned[j].id = places'[i].id /\ pinned[l].id = places'[i].id
    <3>1. CASE pinned = << >>
      <4>1. places' = fresh /\ Ids(pinned) = {} /\ DOMAIN pinned = {}
        BY <1>4, <3>1 DEF Ids
      <4>2. \A i \in DOMAIN fresh : fresh[i].id # NoId
        <5>1. \A i \in DOMAIN fresh : fresh[i] \in Place
          BY <2>2, Positions
        <5>2. QED
          BY <5>1 DEF Place
      <4>3. \A i, k \in DOMAIN fresh : fresh[i].id = fresh[k].id => i = k
        BY <2>2, <4>2 DEF Distinct
      <4>4. QED
        BY <2>2, <4>1, <4>3
    <3>2. CASE pinned # << >>
      <4> DEFINE m == MergePinned(pinned, fresh)
      <4>1. places' = m
        BY <1>4, <3>2
      <4>2. /\ m \in Seq(Place)
            /\ Ids(m) \subseteq Ids(pinned) \cup Ids(fresh)
            /\ Sequenced(m)
            /\ \A i, k \in DOMAIN m :
                 i < k /\ m[i].day = m[k].day /\ m[k].id \in Ids(pinned)
                   => m[i].id \in Ids(pinned)
            /\ \A i \in DOMAIN pinned : \E k \in DOMAIN m : m[k] = pinned[i]
            /\ \A i, k \in DOMAIN m :
                 m[i].id = m[k].id =>
                   i = k \/ \E j, l \in DOMAIN pinned :
                              j # l /\ pinned[j].id = m[i].id /\ pinned[l].id = m[i].id
        BY <1>1, <2>2, MergedPlaces
      <4> HIDE DEF m
      <4>3. Ids(m) \subseteq Ids(pinned) \cup Ids(candidates)
        BY <2>2, <4>2
      <4>4. QED
        BY <4>1, <4>2, <4>3
    <3>3. QED
      BY <3>1, <3>2
  <2>4. Done' => Enough(places')
    BY <1>4 DEF Done
  <2>5. HandsOver'
    <3>1. SUFFICES ASSUME Enough(places')
                   PROVE  /\ HandedOver(stage, [i \in DOMAIN places' |->
                               [day |-> places'[i].day, pinned |-> places'[i].id \in Ids(pinned)]])
                          /\ \A d \in TripDays : OnDay(places', d) # {}
      BY <1>2, <2>4 DEF HandsOver, Ids, OnDay
    <3>2. Len(places') >= 2 /\ \A d \in TripDays : OnDay(places', d) # {}
      BY <3>1 DEF Enough
    <3>3. QED
      BY <1>1, <2>3, <3>2, HandedOverIs
  <2>6. PlacesWanted'
    <3>1. Ids(places') \cap exclude' \subseteq Ids(pinned')
      BY <1>1, <1>2, <2>3
    <3>2. \A i, k \in DOMAIN places' : places'[i].id = places'[k].id => i = k \/ KeptTwice(places[i].id)'
      BY <1>2, <2>3 DEF KeptTwice
    <3>3. QED
      BY <3>1, <3>2 DEF PlacesWanted, Ids
  <2>7. KeptPlacesStay'
    BY <1>2, <2>3 DEF KeptPlacesStay
  <2>8. failed' \in BOOLEAN
    BY <1>4
  <2>9. QED
    BY <1>1, <1>2, <2>3, <2>5, <2>6, <2>7, <2>8 DEF Inv, TypeOK
<1>5. QED
  BY <1>3, <1>4

LEMMA NextInv == Inv /\ [Next]_vars => Inv'
<1> SUFFICES ASSUME Inv, [Next]_vars PROVE Inv'
  OBVIOUS
<1>1. CASE UNCHANGED vars
  <2>1. Ids(candidates)' = Ids(candidates) /\ Distinct(candidates)' = Distinct(candidates)
    BY <1>1 DEF vars, Ids, Distinct
  <2>2. HandsOver' = HandsOver /\ PlacesWanted' = PlacesWanted /\ KeptPlacesStay' = KeptPlacesStay
    BY <1>1 DEF vars, HandsOver, PlacesWanted, KeptPlacesStay, Done, KeptTwice, Ids, OnDay
  <2>3. QED
    BY <1>1, <2>1, <2>2 DEF Inv, TypeOK, vars
<1>2. CASE SearchPlaces
  BY <1>2, SearchPlacesInv
<1>3. CASE RulesFilter
  BY <1>3, RulesFilterInv
<1>4. CASE ScoreAndRank
  BY <1>4, ScoreAndRankInv
<1>5. CASE RecommendPlaces
  BY <1>5, RecommendPlacesInv
<1>6. CASE SelectPlaces
  BY <1>6, SelectPlacesInv
<1>7. QED
  BY <1>1, <1>2, <1>3, <1>4, <1>5, <1>6 DEF Next

THEOREM Invariance == Spec => []Inv
<1>1. Init => Inv
  BY InitInv
<1>2. Inv /\ [Next]_vars => Inv'
  BY NextInv
<1>3. QED
  BY <1>1, <1>2, PTL DEF Spec

--------------------------------------------------------------------------------
(* The state of a selection keeps its types: no candidate the caller        *)
(* excluded passes search_places, no target falls below zero.               *)
THEOREM TypeCorrect == Spec => []TypeOK
<1>1. Inv => TypeOK
  BY DEF Inv
<1>2. QED
  BY <1>1, Invariance, PTL

(* recommend_places hands over what recommend_route counts on, on both of   *)
(* its ways to a list.                                                      *)
THEOREM AlwaysHandsOver == Spec => []HandsOver
<1>1. Inv => HandsOver
  BY DEF Inv
<1>2. QED
  BY <1>1, Invariance, PTL

(* No place twice that the caller did not keep twice, and none excluded     *)
(* that was not kept, whatever the themes, the scores and the model say.    *)
THEOREM OnlyPlacesWanted == Spec => []PlacesWanted
<1>1. Inv => PlacesWanted
  BY DEF Inv
<1>2. QED
  BY <1>1, Invariance, PTL

(* What the caller keeps is in the itinerary on its day.                    *)
THEOREM KeptPlacesRemain == Spec => []KeptPlacesStay
<1>1. Inv => KeptPlacesStay
  BY DEF Inv
<1>2. QED
  BY <1>1, Invariance, PTL

(* The cap fills the prompt, with the best of each kind, and leaves neither *)
(* kind with less than half of it while it has more.                        *)
THEOREM CapBalances == Spec => CapKeepsBothKinds
<1> DEFINE Step == /\ node = "recommend_places" /\ node' = "select_places"
                   /\ Limit > 0 /\ Len(candidates) > Limit
                   =>
                     /\ Len(candidates') = Limit
                     /\ \A b \in BOOLEAN :
                          LET had == OfKind(candidates, b)
                              has == OfKind(candidates', b)
                          IN /\ has = SubSeq(had, 1, Len(has))
                             /\ has = had \/ Len(has) >= Limit \div 2
<1>1. Inv /\ [Next]_vars => [Step]_vars
  <2> SUFFICES ASSUME Inv, Next, node = "recommend_places", node' = "select_places",
                      Limit > 0, Len(candidates) > Limit
               PROVE  Step
    OBVIOUS
  <2>1. RecommendPlaces
    BY DEF Next, SearchPlaces, RulesFilter, ScoreAndRank, SelectPlaces
  <2>2. candidates' = CapCandidates(candidates)
    BY <2>1 DEF RecommendPlaces, Fail
  <2>3. candidates \in Seq(Candidate)
    BY DEF Inv, TypeOK
  <2>4. QED
    BY <2>2, <2>3, Capped
<1>2. QED
  BY <1>1, Invariance, PTL DEF Spec, CapKeepsBothKinds
================================================================================
