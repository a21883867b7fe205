---------------------------- MODULE Collector_proofs ----------------------------
(***************************************************************************)
(* What eval.collect's results, its missing cases and its exit code mean,   *)
(* for any number of cases and runs, any batch size, any trimming of the    *)
(* stream and whatever the service and Redis do.                            *)
(***************************************************************************)
EXTENDS Collector, FiniteSetTheorems, TLAPS

(* The assumption on the constants, one by one.                             *)
LEMMA Constants ==
  /\ NumCases \in Nat \ {0} /\ NumRuns \in Nat \ {0} /\ Count \in Nat \ {0}
  /\ MaxLen \in Nat /\ MaxLog \in Nat /\ Copies \in Nat \ {0}
  /\ Verdicts \subseteq {"graph_done", "graph_failed", "runner_failed"}
  BY CollectorAssumption

USE Constants

--------------------------------------------------------------------------------
(* The order in which XREADGROUP answers.                                   *)

Below(S, i) == {k \in S : k < i}

(* Each position has its rank, and each rank its position.                  *)
LEMMA Ranks ==
  ASSUME NEW S \in SUBSET Nat, IsFiniteSet(S)
  PROVE  /\ Cardinality(S) \in Nat
         /\ \A i \in S : Cardinality(Below(S, i)) \in 0 .. (Cardinality(S) - 1)
         /\ \A i, k \in S : i < k => Cardinality(Below(S, i)) < Cardinality(Below(S, k))
         /\ \A n \in 1 .. Cardinality(S) : \E i \in S : Cardinality(Below(S, i)) = n - 1
<1>1. Cardinality(S) \in Nat
  BY FS_CardinalityType
<1>2. ASSUME NEW i \in S
      PROVE  /\ IsFiniteSet(Below(S, i))
             /\ Cardinality(Below(S, i)) \in 0 .. (Cardinality(S) - 1)
  <2>1. Below(S, i) \in SUBSET S /\ Below(S, i) # S
    BY DEF Below
  <2>2. /\ IsFiniteSet(Below(S, i))
        /\ Cardinality(Below(S, i)) <= Cardinality(S)
        /\ Cardinality(S) # Cardinality(Below(S, i))
    BY <2>1, FS_Subset
  <2>3. Cardinality(Below(S, i)) \in Nat
    BY <2>2, FS_CardinalityType
  <2>4. QED
    BY <1>1, <2>2, <2>3
<1>3. ASSUME NEW i \in S, NEW k \in S, i < k
      PROVE  Cardinality(Below(S, i)) < Cardinality(Below(S, k))
  <2> i \in Nat /\ k \in Nat
    OBVIOUS
  <2>1. Below(S, i) \in SUBSET Below(S, k)
    <3>1. ASSUME NEW j \in S, j < i PROVE j < k
      <4>1. j \in Nat
        OBVIOUS
      <4>2. QED
        BY <1>3, <3>1, <4>1
    <3>2. QED
      BY <3>1 DEF Below
  <2>4. i \in Below(S, k) /\ i \notin Below(S, i)
    BY <1>3 DEF Below
  <2>2. /\ Cardinality(Below(S, i)) <= Cardinality(Below(S, k))
        /\ Cardinality(Below(S, i)) # Cardinality(Below(S, k))
    BY <1>2, <2>1, <2>4, FS_Subset
  <2>3. QED
    <3>1. Cardinality(Below(S, i)) \in Nat /\ Cardinality(Below(S, k)) \in Nat
      BY <1>1, <1>2
    <3>2. QED
      BY <2>2, <3>1
<1>4. ASSUME NEW n \in 1 .. Cardinality(S)
      PROVE  \E i \in S : Cardinality(Below(S, i)) = n - 1
  <2> DEFINE f == [i \in S |-> Cardinality(Below(S, i)) + 1]
             T == 1 .. Cardinality(S)
  <2>1. \A i \in S : f[i] \in T
    BY <1>1, <1>2
  <2>2. \A i, k \in S : i # k => f[i] # f[k]
    <3>1. ASSUME NEW i \in S, NEW k \in S, i # k PROVE f[i] # f[k]
      <4>1. i < k \/ k < i
        BY <3>1
      <4>2. QED
        BY <1>1, <1>2, <1>3, <4>1
    <3>2. QED
      BY <3>1
  <2>3. f \in Injection(S, T)
    BY <2>1, <2>2 DEF Injection, IsInjective
  <2>4. IsFiniteSet(T) /\ Cardinality(T) = Cardinality(S)
    BY <1>1, FS_Interval
  <2>5. f \in Surjection(S, T)
    BY <2>3, <2>4, FS_Injection
  <2>6. \E i \in S : f[i] = n
    BY <2>5 DEF Surjection
  <2>7. QED
    BY <1>1, <1>2, <2>6
<1>5. QED
  BY <1>1, <1>2, <1>3, <1>4

(* A batch lists its positions in the order of the stream, all of them.     *)
LEMMA Ordered ==
  ASSUME NEW S \in SUBSET Nat, IsFiniteSet(S)
  PROVE  /\ InOrder(S) \in Seq(Nat)
         /\ \A n \in DOMAIN InOrder(S) : InOrder(S)[n] \in S
         /\ \A m, n \in DOMAIN InOrder(S) : m < n => InOrder(S)[m] < InOrder(S)[n]
         /\ \A i \in S : \E n \in DOMAIN InOrder(S) : InOrder(S)[n] = i
<1> DEFINE N == Cardinality(S)
           R(i) == Cardinality(Below(S, i))
           q == InOrder(S)
<1>1. /\ N \in Nat
      /\ \A i \in S : R(i) \in 0 .. (N - 1)
      /\ \A i, k \in S : i < k => R(i) < R(k)
      /\ \A n \in 1 .. N : \E i \in S : R(i) = n - 1
  BY Ranks
<1>2. q = [n \in 1 .. N |-> CHOOSE i \in S : R(i) = n - 1]
  BY DEF InOrder, Below
<1> HIDE DEF q, R, N
<1>3. \A n \in 1 .. N : q[n] \in S /\ R(q[n]) = n - 1
  BY <1>1, <1>2
<1>4. DOMAIN q = 1 .. N
  BY <1>2
<1>5. q \in Seq(Nat)
  <2>1. q \in [1 .. N -> Nat]
    BY <1>2, <1>3
  <2>2. QED
    BY <1>1, <2>1
<1>6. ASSUME NEW m \in 1 .. N, NEW n \in 1 .. N, m < n PROVE q[m] < q[n]
  <2>1. q[m] \in Nat /\ q[n] \in Nat /\ q[m] \in S /\ q[n] \in S
    BY <1>3
  <2>2. R(q[m]) < R(q[n])
    BY <1>1, <1>3, <1>6
  <2>3. ~(q[n] < q[m]) /\ q[m] # q[n]
    <3>1. CASE q[n] < q[m]
      <4>1. R(q[n]) < R(q[m])
        BY <1>1, <2>1, <3>1
      <4>2. R(q[n]) \in Nat /\ R(q[m]) \in Nat
        BY <1>1, <2>1
      <4>3. QED
        BY <2>2, <4>1, <4>2
    <3>2. CASE q[m] = q[n]
      <4>1. R(q[n]) \in Nat
        BY <1>1, <2>1
      <4>2. QED
        BY <2>2, <3>2, <4>1
    <3>3. QED
      BY <3>1, <3>2
  <2>4. QED
    BY <2>1, <2>3
<1>7. ASSUME NEW i \in S PROVE \E n \in 1 .. N : q[n] = i
  <2>1. R(i) \in 0 .. (N - 1)
    BY <1>1
  <2>2. PICK n \in 1 .. N : R(i) = n - 1
    <3>1. R(i) + 1 \in 1 .. N /\ R(i) = (R(i) + 1) - 1
      BY <1>1, <2>1
    <3>2. QED
      BY <3>1
  <2>3. q[n] \in S /\ R(q[n]) = R(i)
    BY <1>3, <2>2
  <2>4. q[n] \in Nat /\ i \in Nat /\ R(i) \in Nat
    <3>1. q[n] \in Nat /\ i \in Nat
      BY <2>3
    <3>2. R(i) \in Nat
      BY <2>1, <1>1
    <3>3. QED
      BY <3>1, <3>2
  <2>5. ~(q[n] < i) /\ ~(i < q[n])
    BY <1>1, <2>3, <2>4
  <2>6. QED
    BY <2>4, <2>5
<1>8. QED
  <2>1. \A n \in DOMAIN q : q[n] \in S
    BY <1>3, <1>4
  <2>2. \A m, n \in DOMAIN q : m < n => q[m] < q[n]
    BY <1>4, <1>6
  <2>3. \A i \in S : \E n \in DOMAIN q : q[n] = i
    BY <1>4, <1>7
  <2>4. QED
    BY <1>5, <2>1, <2>2, <2>3 DEF q

(* The new cursor of the group is the last position delivered.              *)
LEMMA Last ==
  ASSUME NEW S \in SUBSET Nat, IsFiniteSet(S), S # {}
  PROVE  LastOf(S) \in S /\ \A k \in S : k <= LastOf(S)
<1>1. /\ Cardinality(S) \in Nat
      /\ \A i \in S : Cardinality(Below(S, i)) \in 0 .. (Cardinality(S) - 1)
      /\ \A i, k \in S : i < k => Cardinality(Below(S, i)) < Cardinality(Below(S, k))
      /\ \A n \in 1 .. Cardinality(S) : \E i \in S : Cardinality(Below(S, i)) = n - 1
  BY Ranks
<1>2. Cardinality(S) \in 1 .. Cardinality(S)
  <2>1. PICK i \in S : TRUE
    OBVIOUS
  <2>2. QED
    BY <1>1, <2>1
<1>3. PICK i \in S : Cardinality(Below(S, i)) = Cardinality(S) - 1
  BY <1>1, <1>2
<1>4. ASSUME NEW k \in S PROVE k <= i
  <2>1. k \in Nat /\ i \in Nat
    OBVIOUS
  <2>2. ~(i < k)
    BY <1>1, <1>3
  <2>3. QED
    BY <2>1, <2>2
<1>5. QED
  BY <1>4 DEF LastOf

(* What an answered XREADGROUP delivers: something, all of it new and       *)
(* there, and the cursor moves to the last of it.                           *)
LEMMA Delivery ==
  ASSUME Len(log) \in Nat, DOMAIN log = 1 .. Len(log),
         cursor \in {NoGroup} \cup 0 .. Len(log), Undelivered # {}
  PROVE  /\ Delivered \in SUBSET (1 .. Len(log))
         /\ \A i \in Delivered : i > cursor
         /\ InOrder(Delivered) \in Seq(Nat)
         /\ \A n \in DOMAIN InOrder(Delivered) : InOrder(Delivered)[n] \in Delivered
         /\ \A m, n \in DOMAIN InOrder(Delivered) :
              m < n => InOrder(Delivered)[m] < InOrder(Delivered)[n]
         /\ \A i \in Delivered : \E n \in DOMAIN InOrder(Delivered) : InOrder(Delivered)[n] = i
         /\ LastOf(Delivered) \in Delivered
         /\ \A i \in Delivered : i <= LastOf(Delivered)
<1> DEFINE U == Undelivered
           D == Delivered
<1>1. U \in SUBSET (1 .. Len(log)) /\ \A i \in U : i > cursor
  BY DEF Undelivered
<1>2. IsFiniteSet(1 .. Len(log))
  BY FS_Interval
<1>3. IsFiniteSet(U) /\ U \in SUBSET Nat
  <2>1. IsFiniteSet(U)
    BY <1>1, <1>2, FS_Subset
  <2>2. (1 .. Len(log)) \subseteq Nat
    OBVIOUS
  <2>3. QED
    BY <1>1, <2>1, <2>2
<1>4. D \in SUBSET U
  BY DEF Delivered
<1>5. IsFiniteSet(D) /\ D \in SUBSET Nat
  BY <1>3, <1>4, FS_Subset
<1>6. D # {}
  <2>1. /\ Cardinality(U) \in Nat
        /\ \A i \in U : Cardinality(Below(U, i)) \in 0 .. (Cardinality(U) - 1)
        /\ \A n \in 1 .. Cardinality(U) : \E i \in U : Cardinality(Below(U, i)) = n - 1
    BY <1>3, Ranks
  <2>2. PICK k \in U : TRUE
    OBVIOUS
  <2>3. 1 \in 1 .. Cardinality(U)
    BY <2>1, <2>2
  <2>4. PICK i \in U : Cardinality(Below(U, i)) = 0
    BY <2>1, <2>3
  <2>5. Cardinality({j \in Undelivered : j < i}) < Count
    BY <2>4 DEF Below
  <2>6. i \in D
    BY <2>5 DEF Delivered
  <2>7. QED
    BY <2>6
<1>7. /\ InOrder(D) \in Seq(Nat)
      /\ \A n \in DOMAIN InOrder(D) : InOrder(D)[n] \in D
      /\ \A m, n \in DOMAIN InOrder(D) : m < n => InOrder(D)[m] < InOrder(D)[n]
      /\ \A i \in D : \E n \in DOMAIN InOrder(D) : InOrder(D)[n] = i
  BY <1>5, Ordered
<1>8. LastOf(D) \in D /\ \A i \in D : i <= LastOf(D)
  BY <1>5, <1>6, Last
<1> HIDE DEF U, D
<1>9. D \in SUBSET (1 .. Len(log)) /\ \A i \in D : i > cursor
  BY <1>1, <1>4
<1>10. QED
  BY <1>7, <1>8, <1>9 DEF D

--------------------------------------------------------------------------------
(* The batch is sorted, and what was handed out is behind the cursor.       *)
Sorted ==
  /\ batch \in Seq(Nat)
  /\ \A m, n \in DOMAIN batch : m < n => batch[m] < batch[n]
  /\ \A i \in handed : i <= cursor

(* Before the first XREADGROUP there is nothing, and none is sent before    *)
(* the last batch is worked off.                                            *)
Blank ==
  /\ pc \in {"submit", "attach"} => handed = {} /\ batch = << >> /\ wanted = accepted
  /\ pc = "asked" => batch = << >>

(* A verdict about a case still waited for, once delivered, is in the batch.*)
Awaited ==
  \A c \in wanted : \A i \in handed :
    log[i].job = Job(c) => \E n \in DOMAIN batch : batch[n] = i

(* How a run ends.                                                          *)
Outcome ==
  /\ pc # "ended" => exit = Running
  /\ pc = "ended" /\ exit # Crash => batch = << >>
  /\ exit = 0 => accepted \subseteq DOMAIN results
                 /\ \A c \in accepted : files[c] = results[c]

Inv == TypeOK /\ Sorted /\ Blank /\ Awaited /\ CollectedIsFirstVerdict /\ Outcome

(* What the proofs need to know of the stream's type.                       *)
LEMMA LogType ==
  ASSUME TypeOK
  PROVE  /\ Len(log) \in Nat
         /\ DOMAIN log = 1 .. Len(log)
         /\ \A i \in DOMAIN log : log[i] \in [job : Jobs, message : Messages]
         /\ run \in Nat
         /\ \A c \in Cases : Job(c) \in Jobs
<1>1. /\ Len(log) \in Nat
      /\ DOMAIN log = 1 .. Len(log)
      /\ \A i \in DOMAIN log : log[i] \in [job : Jobs, message : Messages]
  <2> DEFINE E == [job : Jobs, message : Messages]
  <2>1. log \in Seq(E)
    BY DEF TypeOK
  <2> HIDE DEF E
  <2>2. /\ Len(log) \in Nat
        /\ DOMAIN log = 1 .. Len(log)
    BY <2>1
  <2>3. \A i \in 1 .. Len(log) : log[i] \in E
    BY <2>1
  <2>4. \A i \in DOMAIN log : log[i] \in E
    BY <2>2, <2>3
  <2>5. QED
    BY <2>2, <2>4 DEF E
<1>2. run \in 1 .. NumRuns
  BY DEF TypeOK
<1>3. \A c \in Cases : Job(c) \in Jobs
  BY <1>2 DEF Job, Jobs, Cases
<1>4. QED
  BY <1>1, <1>2, <1>3

(* A verdict reaches the stream: nothing that was handed out changes.       *)
LEMMA PublishKeeps ==
  ASSUME Inv, NEW j \in Jobs, NEW m \in Messages, Publish(j, m)
  PROVE  Inv'
<1> DEFINE e == [job |-> j, message |-> m]
<1>1. /\ Len(log) \in Nat
      /\ DOMAIN log = 1 .. Len(log)
      /\ log \in Seq([job : Jobs, message : Messages])
  BY LogType DEF Inv, TypeOK
<1>2. e \in [job : Jobs, message : Messages]
  OBVIOUS
<1>3. log' = Append(log, e)
  BY DEF Publish
<1>4. /\ log' \in Seq([job : Jobs, message : Messages])
      /\ Len(log') = Len(log) + 1
      /\ DOMAIN log' = 1 .. Len(log')
      /\ \A i \in DOMAIN log : i \in DOMAIN log' /\ log'[i] = log[i]
  BY <1>1, <1>2, <1>3
<1>5. UNCHANGED <<cursor, run, pc, next, accepted, wanted, batch, handed, results,
                  expired, exit, files>>
  BY DEF Publish, script
<1>6. admitted' = admitted
  BY DEF Publish, Service!Deliver
<1>7. trimmed' \in 0 .. Len(log')
  <2>1. trimmed \in 0 .. Len(log)
    BY DEF Inv, TypeOK
  <2>2. trimmed' \in trimmed .. (IF MaxLen > 0 /\ Len(log') - MaxLen > trimmed
                                THEN Len(log') - MaxLen ELSE trimmed)
    BY DEF Publish
  <2>3. QED
    BY <1>1, <1>4, <2>1, <2>2
<1>8. handed \subseteq DOMAIN log /\ \A i \in handed : log'[i] = log[i]
  BY <1>4 DEF Inv, TypeOK
<1>9. TypeOK'
  <2>1. cursor' \in {NoGroup} \cup 0 .. Len(log')
    BY <1>1, <1>4, <1>5 DEF Inv, TypeOK
  <2>2. handed' \subseteq DOMAIN log'
    BY <1>4, <1>5, <1>8
  <2>3. files' \in [Cases -> 0 .. Len(log')]
    <3>1. files \in [Cases -> 0 .. Len(log)] /\ files' = files
      BY <1>5 DEF Inv, TypeOK
    <3>2. QED
      BY <1>1, <1>4, <3>1
  <2>4. /\ admitted' \subseteq Jobs
        /\ run' \in 1 .. NumRuns
        /\ pc' \in {"submit", "attach", "read", "asked", "ended"}
        /\ next' \in 1 .. NumCases + 1
        /\ wanted' \subseteq accepted' /\ accepted' \subseteq 1 .. next' - 1
        /\ \A n \in DOMAIN batch' : batch'[n] \in handed'
        /\ DOMAIN results' = accepted' \ wanted'
        /\ \A c \in DOMAIN results' : results'[c] \in handed'
        /\ expired' \in BOOLEAN
        /\ exit' \in {Running, 0, 1, Crash}
    BY <1>5, <1>6 DEF Inv, TypeOK
  <2>5. QED
    BY <1>4, <1>7, <2>1, <2>2, <2>3, <2>4 DEF TypeOK
<1>10. Sorted' /\ Blank' /\ Outcome'
  BY <1>5 DEF Inv, Sorted, Blank, Outcome
<1>11. Awaited'
  BY <1>5, <1>8 DEF Inv, Awaited, Job
<1>12. CollectedIsFirstVerdict'
  BY <1>5, <1>8 DEF Inv, CollectedIsFirstVerdict, Job
<1>13. QED
  BY <1>9, <1>10, <1>11, <1>12 DEF Inv

(* The steps that leave stream, batch and results alone: what they must     *)
(* still show is about the run's own bookkeeping.                           *)
LEMMA SubmitKeeps ==
  ASSUME Inv, SubmitAccepted \/ SubmitFails
  PROVE  Inv'
<1>1. /\ UNCHANGED <<log, trimmed, cursor, run, pc, batch, handed, results, expired,
                     exit, files>>
      /\ pc = "submit" /\ next \in Cases /\ next' = next + 1
  BY DEF SubmitAccepted, SubmitFails
<1>2. /\ handed = {} /\ batch = << >> /\ wanted = accepted /\ exit = Running
      /\ DOMAIN results = {}
  BY <1>1 DEF Inv, Blank, Outcome, TypeOK
<1>3. /\ accepted' \in {accepted, accepted \cup {next}}
      /\ wanted' = accepted'
  BY <1>2 DEF SubmitAccepted, SubmitFails
<1>4. admitted' \subseteq Jobs
  <2>1. Job(next) \in Jobs /\ admitted \subseteq Jobs
    BY <1>1, LogType DEF Inv, TypeOK
  <2>2. CASE SubmitAccepted
    <3>1. admitted' = admitted \cup {Job(next)}
      BY <2>2 DEF SubmitAccepted, Service!Admit
    <3>2. QED
      BY <2>1, <3>1
  <2>3. CASE SubmitFails
    BY <2>1, <2>3 DEF SubmitFails
  <2>4. QED
    BY <2>2, <2>3
<1>5. next' \in 1 .. NumCases + 1 /\ accepted' \subseteq 1 .. next' - 1
  <2>1. next \in 1 .. NumCases /\ accepted \subseteq 1 .. next - 1
    BY <1>1 DEF Inv, TypeOK, Cases
  <2>2. QED
    BY <1>1, <1>3, <2>1
<1>6. TypeOK'
  BY <1>1, <1>2, <1>3, <1>4, <1>5 DEF Inv, TypeOK
<1>7. Sorted' /\ Blank' /\ Awaited' /\ CollectedIsFirstVerdict'
  BY <1>1, <1>2, <1>3 DEF Inv, Sorted, Blank, Awaited, CollectedIsFirstVerdict
<1>8. Outcome'
  BY <1>1, <1>2 DEF Outcome, Running
<1>9. QED
  BY <1>6, <1>7, <1>8 DEF Inv

LEMMA SubmittedKeeps ==
  ASSUME Inv, Submitted
  PROVE  Inv'
<1>1. /\ UNCHANGED <<admitted, log, trimmed, cursor, run, next, accepted, wanted, batch,
                     handed, results, expired, files>>
      /\ pc = "submit"
      /\ \/ pc' = "ended" /\ exit' = 1
         \/ pc' = "attach" /\ exit' = exit
  <2>1. /\ pc = "submit"
        /\ IF wanted = {} THEN pc' = "ended" /\ exit' = 1
                          ELSE pc' = "attach" /\ exit' = exit
    BY DEF Submitted
  <2>2. UNCHANGED <<admitted, log, trimmed, cursor, run, next, accepted, wanted, batch,
                    handed, results, expired, files>>
    BY DEF Submitted, service, script
  <2>3. QED
    BY <2>1, <2>2
<1>2. handed = {} /\ batch = << >> /\ wanted = accepted /\ exit = Running
  BY <1>1 DEF Inv, Blank, Outcome
<1>3. TypeOK'
  BY <1>1 DEF Inv, TypeOK
<1>4. Sorted' /\ Blank'
  BY <1>1, <1>2 DEF Inv, Sorted, Blank
<1>5. Awaited' /\ CollectedIsFirstVerdict'
  BY <1>1 DEF Inv, Awaited, CollectedIsFirstVerdict, Job
<1>6. Outcome'
  BY <1>1, <1>2 DEF Outcome, Running
<1>7. QED
  BY <1>3, <1>4, <1>5, <1>6 DEF Inv

LEMMA AttachKeeps ==
  ASSUME Inv, Attach
  PROVE  Inv'
<1>1. /\ UNCHANGED <<admitted, log, trimmed, run, next, accepted, wanted, batch,
                     handed, results, expired, exit, files>>
      /\ pc = "attach" /\ pc' = "read"
      /\ cursor' \in {cursor, Len(log)}
  BY DEF Attach, service, script
<1>2. handed = {} /\ batch = << >> /\ exit = Running
  BY <1>1 DEF Inv, Blank, Outcome
<1>3. cursor' \in {NoGroup} \cup 0 .. Len(log)
  BY <1>1, LogType DEF Inv, TypeOK
<1>4. TypeOK'
  BY <1>1, <1>3 DEF Inv, TypeOK
<1>5. Sorted' /\ Blank'
  BY <1>1, <1>2 DEF Inv, Sorted, Blank
<1>6. Awaited' /\ CollectedIsFirstVerdict'
  BY <1>1 DEF Inv, Awaited, CollectedIsFirstVerdict, Job
<1>7. Outcome'
  BY <1>1, <1>2 DEF Outcome, Running
<1>8. QED
  BY <1>4, <1>5, <1>6, <1>7 DEF Inv

(* XREADGROUP is sent, or answered with nothing.                            *)
LEMMA AskKeeps ==
  ASSUME Inv, Ask \/ ReadEmpty
  PROVE  Inv'
<1>1. /\ UNCHANGED <<admitted, log, trimmed, cursor, run, next, accepted, wanted, batch,
                     handed, results, expired, exit, files>>
      /\ batch = << >>
      /\ pc \in {"read", "asked"} /\ pc' \in {"read", "asked"}
  BY DEF Ask, ReadEmpty, Waiting, service, script, Inv, Blank
<1>2. TypeOK'
  BY <1>1 DEF Inv, TypeOK
<1>3. Sorted' /\ Blank' /\ Awaited' /\ CollectedIsFirstVerdict'
  BY <1>1 DEF Inv, Sorted, Blank, Awaited, CollectedIsFirstVerdict, Job
<1>4. Outcome'
  BY <1>1 DEF Inv, Outcome
<1>5. QED
  BY <1>2, <1>3, <1>4 DEF Inv

(* A batch arrives, all of it behind the positions handed out before.       *)
LEMMA ReadKeeps ==
  ASSUME Inv, Read
  PROVE  Inv'
<1> DEFINE D == Delivered
           q == InOrder(Delivered)
           l == LastOf(Delivered)
<1>1. /\ UNCHANGED <<admitted, log, trimmed, run, next, accepted, wanted, results,
                     expired, exit, files>>
      /\ pc = "asked" /\ pc' = "read" /\ batch = << >>
      /\ cursor' = l /\ batch' = q /\ handed' = handed \cup D
  BY DEF Read, service, Inv, Blank
<1>2. Undelivered # {}
  BY DEF Read
<1>3. Len(log) \in Nat /\ DOMAIN log = 1 .. Len(log)
  BY LogType DEF Inv
<1>4. cursor \in {NoGroup} \cup 0 .. Len(log)
  BY DEF Inv, TypeOK
<1>5. /\ D \in SUBSET (1 .. Len(log))
      /\ \A i \in D : i > cursor
      /\ q \in Seq(Nat)
      /\ \A n \in DOMAIN q : q[n] \in D
      /\ \A m, n \in DOMAIN q : m < n => q[m] < q[n]
      /\ \A i \in D : \E n \in DOMAIN q : q[n] = i
      /\ l \in D
      /\ \A i \in D : i <= l
  BY <1>2, <1>3, <1>4, Delivery
<1> HIDE DEF D, q, l
<1>6. l \in 1 .. Len(log) /\ cursor < l /\ cursor \in Int
  BY <1>3, <1>4, <1>5 DEF NoGroup
<1>7. handed \subseteq 1 .. Len(log) /\ \A i \in handed : i <= cursor
  BY <1>3 DEF Inv, TypeOK, Sorted
<1>8. TypeOK'
  <2>1. /\ handed' \subseteq DOMAIN log'
        /\ \A n \in DOMAIN batch' : batch'[n] \in handed'
        /\ \A c \in DOMAIN results' : results'[c] \in handed'
    <3>1. \A c \in DOMAIN results : results[c] \in handed
      BY DEF Inv, TypeOK
    <3>2. QED
      BY <1>1, <1>3, <1>5, <1>7, <3>1
  <2>2. cursor' \in {NoGroup} \cup 0 .. Len(log')
    BY <1>1, <1>3, <1>6
  <2>3. /\ admitted' \subseteq Jobs
        /\ log' \in Seq([job : Jobs, message : Messages])
        /\ trimmed' \in 0 .. Len(log')
        /\ run' \in 1 .. NumRuns
        /\ pc' \in {"submit", "attach", "read", "asked", "ended"}
        /\ next' \in 1 .. NumCases + 1
        /\ wanted' \subseteq accepted' /\ accepted' \subseteq 1 .. next' - 1
        /\ DOMAIN results' = accepted' \ wanted'
        /\ expired' \in BOOLEAN
        /\ exit' \in {Running, 0, 1, Crash}
        /\ files' \in [Cases -> 0 .. Len(log')]
    BY <1>1 DEF Inv, TypeOK
  <2>4. QED
    BY <2>1, <2>2, <2>3 DEF TypeOK
<1>9. Sorted'
  <2>1. \A i \in handed : i <= l
    <3>1. ASSUME NEW i \in handed PROVE i <= l
      <4>1. i \in Nat /\ i <= cursor /\ l \in Nat
        BY <1>3, <1>6, <1>7
      <4>2. QED
        BY <1>6, <4>1
    <3>2. QED
      BY <3>1
  <2>2. \A i \in handed' : i <= cursor'
    BY <1>1, <1>5, <2>1
  <2>3. QED
    BY <1>1, <1>5, <2>2 DEF Sorted
<1>10. Awaited'
  <2>1. ASSUME NEW c \in wanted, NEW i \in handed', log[i].job = Job(c)
        PROVE  \E n \in DOMAIN q : q[n] = i
    <3>1. CASE i \in handed
      <4>1. \E n \in DOMAIN batch : batch[n] = i
        BY <2>1, <3>1 DEF Inv, Awaited
      <4>2. DOMAIN batch = {}
        BY <1>1
      <4>3. QED
        BY <4>1, <4>2
    <3>2. CASE i \in D
      BY <1>5, <3>2
    <3>3. QED
      BY <1>1, <2>1, <3>1, <3>2
  <2>2. QED
    BY <1>1, <2>1 DEF Awaited, Job
<1>11. CollectedIsFirstVerdict'
  <2>1. ASSUME NEW c \in DOMAIN results
        PROVE  /\ results[c] \in handed /\ log[results[c]].job = Job(c)
               /\ \A i \in handed' : log[i].job = Job(c) => results[c] <= i
    <3>1. /\ results[c] \in handed /\ log[results[c]].job = Job(c)
          /\ \A i \in handed : log[i].job = Job(c) => results[c] <= i
      BY DEF Inv, CollectedIsFirstVerdict
    <3>2. ASSUME NEW i \in D PROVE results[c] <= i
      <4>1. results[c] \in Nat /\ results[c] <= cursor
        <5>1. results[c] \in 1 .. Len(log) /\ results[c] <= cursor
          BY <1>7, <3>1
        <5>2. QED
          BY <1>3, <5>1
      <4>2. i \in Nat /\ i > cursor
        BY <1>3, <1>5
      <4>3. QED
        BY <1>6, <4>1, <4>2
    <3>3. QED
      BY <1>1, <3>1, <3>2
  <2>2. QED
    BY <1>1, <2>1 DEF CollectedIsFirstVerdict, Job
<1>12. Blank' /\ Outcome'
  <2>1. exit = Running
    BY <1>1 DEF Inv, Outcome
  <2>2. QED
    BY <1>1, <2>1 DEF Blank, Outcome, Running
<1>13. QED
  BY <1>8, <1>9, <1>10, <1>11, <1>12 DEF Inv

LEMMA ReadAnswerLostKeeps ==
  ASSUME Inv, ReadAnswerLost
  PROVE  Inv'
<1> DEFINE l == LastOf(Delivered)
<1>1. /\ UNCHANGED <<admitted, log, trimmed, run, pc, next, accepted, wanted, batch,
                     handed, results, expired, exit, files>>
      /\ pc = "asked" /\ cursor' = l
  BY DEF ReadAnswerLost, service, script
<1>2. Len(log) \in Nat /\ DOMAIN log = 1 .. Len(log)
  BY LogType DEF Inv
<1>3. cursor \in {NoGroup} \cup 0 .. Len(log)
  BY DEF Inv, TypeOK
<1>4. l \in Delivered /\ Delivered \in SUBSET (1 .. Len(log)) /\ \A i \in Delivered : i > cursor
  BY <1>2, <1>3, Delivery DEF ReadAnswerLost
<1> HIDE DEF l
<1>5. l \in 1 .. Len(log) /\ cursor < l /\ cursor \in Int
  BY <1>2, <1>3, <1>4 DEF NoGroup
<1>6. TypeOK'
  <2>1. cursor' \in {NoGroup} \cup 0 .. Len(log')
    BY <1>1, <1>2, <1>5
  <2>2. QED
    BY <1>1, <2>1 DEF Inv, TypeOK
<1>7. Sorted'
  <2>1. ASSUME NEW i \in handed PROVE i <= l
    <3>1. i \in Nat /\ i <= cursor
      <4>1. i \in DOMAIN log
        BY DEF Inv, TypeOK
      <4>2. QED
        BY <1>2, <4>1 DEF Inv, Sorted
    <3>2. QED
      BY <1>2, <1>5, <3>1
  <2>2. QED
    BY <1>1, <2>1 DEF Inv, Sorted
<1>8. Blank' /\ Awaited' /\ CollectedIsFirstVerdict' /\ Outcome'
  BY <1>1 DEF Inv, Blank, Awaited, CollectedIsFirstVerdict, Outcome, Job
<1>9. QED
  BY <1>6, <1>7, <1>8 DEF Inv

(* The head of the batch is acknowledged, and is the verdict of its case if *)
(* that is still waited for: no earlier one was handed out, as it would be  *)
(* in front of it in the batch.                                             *)
LEMMA TakeKeeps ==
  ASSUME Inv, Take
  PROVE  Inv'
<1> DEFINE h == Head(batch)
           t == Tail(batch)
           hits == {c \in wanted : Job(c) = log[h].job}
<1>1. /\ UNCHANGED <<admitted, log, trimmed, cursor, run, pc, next, accepted, handed,
                     expired, exit, files>>
      /\ pc = "read" /\ batch # << >>
      /\ batch' = t
      /\ wanted' = wanted \ hits
      /\ results' = [c \in DOMAIN results \cup hits |-> IF c \in hits THEN h ELSE results[c]]
  BY DEF Take, service
<1>2. batch \in Seq(Nat)
  BY DEF Inv, Sorted
<1>3. /\ 1 \in DOMAIN batch /\ h = batch[1]
      /\ t \in Seq(Nat)
      /\ \A n \in DOMAIN t : n \in Nat /\ n + 1 \in DOMAIN batch /\ t[n] = batch[n + 1]
      /\ \A n \in DOMAIN batch : n \in Nat /\ (n # 1 => n - 1 \in DOMAIN t /\ t[n - 1] = batch[n])
      /\ \A n \in DOMAIN batch : n # 1 => 1 < n
      /\ \A n \in DOMAIN batch : batch[n] \in Nat
  BY <1>1, <1>2
<1>4. hits \subseteq wanted /\ \A c \in hits : log[h].job = Job(c)
  OBVIOUS
<1>5. \A c \in wanted : log[h].job = Job(c) => c \in hits
  OBVIOUS
<1> HIDE DEF h, t, hits
<1>6. h \in handed
  BY <1>3 DEF Inv, TypeOK
<1>7. \A m, n \in DOMAIN batch : m < n => batch[m] < batch[n]
  BY DEF Inv, Sorted
<1>8. TypeOK'
  <2>1. /\ wanted \subseteq accepted
        /\ DOMAIN results = accepted \ wanted
        /\ \A c \in DOMAIN results : results[c] \in handed
        /\ \A n \in DOMAIN batch : batch[n] \in handed
    BY DEF Inv, TypeOK
  <2>2. \A n \in DOMAIN batch' : batch'[n] \in handed'
    BY <1>1, <1>3, <2>1
  <2>3. DOMAIN results' = accepted' \ wanted'
    BY <1>1, <1>4, <2>1
  <2>4. \A c \in DOMAIN results' : results'[c] \in handed'
    BY <1>1, <1>6, <2>1
  <2>5. wanted' \subseteq accepted'
    BY <1>1, <2>1
  <2>6. /\ admitted' \subseteq Jobs
        /\ log' \in Seq([job : Jobs, message : Messages])
        /\ trimmed' \in 0 .. Len(log')
        /\ cursor' \in {NoGroup} \cup 0 .. Len(log')
        /\ run' \in 1 .. NumRuns
        /\ pc' \in {"submit", "attach", "read", "asked", "ended"}
        /\ next' \in 1 .. NumCases + 1
        /\ accepted' \subseteq 1 .. next' - 1
        /\ handed' \subseteq DOMAIN log'
        /\ expired' \in BOOLEAN
        /\ exit' \in {Running, 0, 1, Crash}
        /\ files' \in [Cases -> 0 .. Len(log')]
    BY <1>1 DEF Inv, TypeOK
  <2>7. QED
    BY <2>2, <2>3, <2>4, <2>5, <2>6 DEF TypeOK
<1>9. Sorted'
  <2>1. ASSUME NEW m \in DOMAIN t, NEW n \in DOMAIN t, m < n PROVE t[m] < t[n]
    <3>1. /\ m + 1 \in DOMAIN batch /\ t[m] = batch[m + 1]
          /\ n + 1 \in DOMAIN batch /\ t[n] = batch[n + 1]
          /\ m \in Nat /\ n \in Nat
      BY <1>3
    <3>2. m + 1 < n + 1
      BY <2>1, <3>1
    <3>3. QED
      BY <1>7, <3>1, <3>2
  <2>2. \A i \in handed' : i <= cursor'
    BY <1>1 DEF Inv, Sorted
  <2>3. QED
    BY <1>1, <1>3, <2>1, <2>2 DEF Sorted
<1>10. Awaited'
  <2>1. ASSUME NEW c \in wanted, c \notin hits, NEW i \in handed, log[i].job = Job(c)
        PROVE  \E n \in DOMAIN t : t[n] = i
    <3>1. PICK n \in DOMAIN batch : batch[n] = i
      BY <2>1 DEF Inv, Awaited
    <3>2. n # 1
      BY <1>3, <1>5, <2>1, <3>1
    <3>3. n - 1 \in DOMAIN t /\ t[n - 1] = i
      BY <1>3, <3>1, <3>2
    <3>4. QED
      BY <3>3
  <2>2. QED
    BY <1>1, <2>1 DEF Awaited, Job
<1>11. CollectedIsFirstVerdict'
  <2>1. ASSUME NEW c \in DOMAIN results, c \notin hits
        PROVE  /\ results'[c] = results[c]
               /\ results[c] \in handed /\ log[results[c]].job = Job(c)
               /\ \A i \in handed : log[i].job = Job(c) => results[c] <= i
    BY <1>1, <2>1 DEF Inv, CollectedIsFirstVerdict
  <2>2. ASSUME NEW c \in hits
        PROVE  /\ results'[c] = h
               /\ log[h].job = Job(c)
               /\ \A i \in handed : log[i].job = Job(c) => h <= i
    <3>1. results'[c] = h /\ log[h].job = Job(c)
      BY <1>1, <1>4
    <3>2. ASSUME NEW i \in handed, log[i].job = Job(c) PROVE h <= i
      <4>1. PICK n \in DOMAIN batch : batch[n] = i
        BY <1>4, <3>2 DEF Inv, Awaited
      <4>2. CASE n = 1
        BY <1>3, <4>1, <4>2
      <4>3. CASE n # 1
        <5>1. 1 < n
          BY <1>3, <4>3
        <5>2. batch[1] < batch[n]
          BY <1>3, <1>7, <5>1
        <5>3. QED
          BY <1>3, <4>1, <5>2
      <4>4. QED
        BY <4>2, <4>3
    <3>3. QED
      BY <3>1, <3>2
  <2>3. QED
    <3>1. DOMAIN results' = DOMAIN results \cup hits
      BY <1>1
    <3>2. SUFFICES ASSUME NEW c \in DOMAIN results'
                   PROVE  /\ results'[c] \in handed /\ log[results'[c]].job = Job(c)
                          /\ \A i \in handed : log[i].job = Job(c) => results'[c] <= i
      BY <1>1 DEF CollectedIsFirstVerdict, Job
    <3>3. CASE c \in hits
      BY <1>6, <2>2, <3>3
    <3>4. CASE c \notin hits
      BY <2>1, <3>1, <3>4
    <3>5. QED
      BY <3>3, <3>4
<1>12. Blank' /\ Outcome'
  <2>1. exit = Running
    BY <1>1 DEF Inv, Outcome
  <2>2. QED
    BY <1>1, <2>1 DEF Blank, Outcome, Running
<1>13. QED
  BY <1>8, <1>9, <1>10, <1>11, <1>12 DEF Inv

(* The files are written when the batch is handled: exit 0 means that every *)
(* accepted case has a result.                                              *)
LEMMA WriteFilesKeeps ==
  ASSUME Inv, pc \in {"read", "asked"}, batch = << >>, WriteFiles
  PROVE  Inv'
<1>1. /\ UNCHANGED <<admitted, log, trimmed, cursor, run, next, accepted, wanted, batch,
                     handed, results, expired>>
      /\ files' = [c \in Cases |-> IF c \in DOMAIN results THEN results[c] ELSE files[c]]
      /\ exit' = ExitCode /\ pc' = "ended"
  BY DEF WriteFiles, service, script
<1>2. Len(log) \in Nat /\ DOMAIN log = 1 .. Len(log)
  BY LogType DEF Inv
<1>3. files' \in [Cases -> 0 .. Len(log')]
  <2>1. ASSUME NEW c \in Cases
        PROVE  (IF c \in DOMAIN results THEN results[c] ELSE files[c]) \in 0 .. Len(log)
    <3>1. CASE c \in DOMAIN results
      <4>1. results[c] \in 1 .. Len(log)
        BY <1>2, <3>1 DEF Inv, TypeOK
      <4>2. QED
        BY <1>2, <3>1, <4>1
    <3>2. CASE c \notin DOMAIN results
      <4>1. files[c] \in 0 .. Len(log)
        BY DEF Inv, TypeOK
      <4>2. QED
        BY <3>2, <4>1
    <3>3. QED
      BY <3>1, <3>2
  <2>2. QED
    BY <1>1, <2>1
<1>4. exit' \in {0, 1} /\ (exit' = 0 => accepted \subseteq DOMAIN results)
  BY <1>1 DEF ExitCode
<1>5. accepted \subseteq Cases
  <2>1. accepted \subseteq 1 .. next - 1 /\ next \in 1 .. NumCases + 1
    BY DEF Inv, TypeOK
  <2>2. (1 .. next - 1) \subseteq 1 .. NumCases
    BY <2>1
  <2>3. QED
    BY <2>1, <2>2 DEF Cases
<1>6. TypeOK'
  BY <1>1, <1>3, <1>4 DEF Inv, TypeOK
<1>7. Sorted' /\ Blank' /\ Awaited' /\ CollectedIsFirstVerdict'
  BY <1>1 DEF Inv, Sorted, Blank, Awaited, CollectedIsFirstVerdict, Job
<1>8. Outcome'
  <2>1. exit' = 0 => \A c \in accepted : files'[c] = results[c]
    BY <1>1, <1>4, <1>5
  <2>2. QED
    BY <1>1, <1>4, <2>1 DEF Outcome
<1>9. QED
  BY <1>6, <1>7, <1>8 DEF Inv

LEMMA CrashKeeps ==
  ASSUME Inv, CrashOnRedis
  PROVE  Inv'
<1>1. /\ UNCHANGED <<admitted, log, trimmed, cursor, run, next, accepted, wanted, batch,
                     handed, results, expired, files>>
      /\ pc' = "ended" /\ exit' = Crash
  BY DEF CrashOnRedis, service, script
<1>2. TypeOK'
  BY <1>1 DEF Inv, TypeOK
<1>3. Sorted' /\ Blank' /\ Awaited' /\ CollectedIsFirstVerdict'
  BY <1>1 DEF Inv, Sorted, Blank, Awaited, CollectedIsFirstVerdict, Job
<1>4. Outcome'
  BY <1>1 DEF Outcome, Crash
<1>5. QED
  BY <1>2, <1>3, <1>4 DEF Inv

LEMMA ExpireKeeps ==
  ASSUME Inv, Expire
  PROVE  Inv'
<1>1. /\ UNCHANGED <<admitted, log, trimmed, cursor, run, pc, next, accepted, wanted,
                     batch, handed, results, exit, files>>
      /\ expired' = TRUE
  BY DEF Expire, service, script
<1>2. TypeOK'
  BY <1>1 DEF Inv, TypeOK
<1>3. Sorted' /\ Blank' /\ Awaited' /\ CollectedIsFirstVerdict' /\ Outcome'
  BY <1>1 DEF Inv, Sorted, Blank, Awaited, CollectedIsFirstVerdict, Outcome, Job
<1>4. QED
  BY <1>2, <1>3 DEF Inv

LEMMA RunAgainKeeps ==
  ASSUME Inv, RunAgain
  PROVE  Inv'
<1>1. /\ UNCHANGED <<admitted, log, trimmed, cursor, files>>
      /\ run < NumRuns /\ run' = run + 1 /\ pc' = "submit" /\ next' = 1
      /\ accepted' = {} /\ wanted' = {} /\ batch' = << >> /\ handed' = {}
      /\ results' = << >> /\ expired' = FALSE /\ exit' = Running
  BY DEF RunAgain, service
<1>2. run' \in 1 .. NumRuns
  BY <1>1 DEF Inv, TypeOK
<1>3. next' \in 1 .. NumCases + 1
  BY <1>1
<1>4. TypeOK'
  <2>1. DOMAIN batch' = {} /\ DOMAIN results' = {}
    BY <1>1
  <2>2. /\ admitted' \subseteq Jobs
        /\ log' \in Seq([job : Jobs, message : Messages])
        /\ trimmed' \in 0 .. Len(log')
        /\ cursor' \in {NoGroup} \cup 0 .. Len(log')
        /\ files' \in [Cases -> 0 .. Len(log')]
    BY <1>1 DEF Inv, TypeOK
  <2>3. /\ wanted' \subseteq accepted' /\ accepted' \subseteq 1 .. next' - 1
        /\ handed' \subseteq DOMAIN log' /\ \A n \in DOMAIN batch' : batch'[n] \in handed'
        /\ DOMAIN results' = accepted' \ wanted'
        /\ \A c \in DOMAIN results' : results'[c] \in handed'
    BY <1>1, <2>1
  <2>4. /\ pc' \in {"submit", "attach", "read", "asked", "ended"}
        /\ expired' \in BOOLEAN
        /\ exit' \in {Running, 0, 1, Crash}
    BY <1>1
  <2>5. QED
    BY <1>2, <1>3, <2>2, <2>3, <2>4 DEF TypeOK
<1>5. Sorted' /\ Blank' /\ Awaited' /\ CollectedIsFirstVerdict' /\ Outcome'
  BY <1>1 DEF Sorted, Blank, Awaited, CollectedIsFirstVerdict, Outcome, Running
<1>6. QED
  BY <1>4, <1>5 DEF Inv

LEMMA StutterKeeps ==
  ASSUME Inv, UNCHANGED vars
  PROVE  Inv'
<1>1. UNCHANGED <<admitted, log, trimmed, cursor, run, pc, next, accepted, wanted, batch,
                  handed, results, expired, exit, files>>
  BY DEF vars, service, script
<1>2. TypeOK'
  BY <1>1 DEF Inv, TypeOK
<1>3. Sorted' /\ Blank' /\ Awaited' /\ CollectedIsFirstVerdict' /\ Outcome'
  BY <1>1 DEF Inv, Sorted, Blank, Awaited, CollectedIsFirstVerdict, Outcome, Job
<1>4. QED
  BY <1>2, <1>3 DEF Inv

(* The invariant holds at the start and every step keeps it.                *)
LEMMA Invariance == Spec => []Inv
<1>1. Init => Inv
  <2> SUFFICES ASSUME Init PROVE Inv
    OBVIOUS
  <2>1. TypeOK
    <3>1. Len(log) = 0 /\ log \in Seq([job : Jobs, message : Messages])
      BY DEF Init
    <3>2. files \in [Cases -> 0 .. Len(log)] /\ trimmed \in 0 .. Len(log)
      BY <3>1 DEF Init
    <3>3. DOMAIN batch = {} /\ DOMAIN results = {}
      BY DEF Init
    <3>4. /\ wanted \subseteq accepted /\ accepted \subseteq 1 .. next - 1
          /\ handed \subseteq DOMAIN log /\ \A n \in DOMAIN batch : batch[n] \in handed
          /\ DOMAIN results = accepted \ wanted
          /\ \A c \in DOMAIN results : results[c] \in handed
      BY <3>3 DEF Init
    <3>5. run \in 1 .. NumRuns /\ next \in 1 .. NumCases + 1
      BY DEF Init
    <3>6. /\ admitted \subseteq Jobs /\ cursor \in {NoGroup} \cup 0 .. Len(log)
          /\ pc \in {"submit", "attach", "read", "asked", "ended"}
          /\ expired \in BOOLEAN /\ exit \in {Running, 0, 1, Crash}
      BY DEF Init
    <3>7. QED
      BY <3>1, <3>2, <3>4, <3>5, <3>6 DEF TypeOK
  <2>2. Sorted /\ Blank /\ Awaited /\ CollectedIsFirstVerdict /\ Outcome
    BY DEF Init, Sorted, Blank, Awaited, CollectedIsFirstVerdict, Outcome, Running
  <2>3. QED
    BY <2>1, <2>2 DEF Inv
<1>2. Inv /\ [Next]_vars => Inv'
  <2> SUFFICES ASSUME Inv, [Next]_vars PROVE Inv'
    OBVIOUS
  <2>1. CASE Step
    <3>1. CASE SubmitAccepted \/ SubmitFails
      BY <3>1, SubmitKeeps
    <3>2. CASE Submitted
      BY <3>2, SubmittedKeeps
    <3>3. CASE Ask
      BY <3>3, AskKeeps
    <3>4. CASE StopReading
      <4>1. pc = "read" /\ batch = << >> /\ WriteFiles
        BY <3>4 DEF StopReading
      <4>2. QED
        BY <4>1, WriteFilesKeeps
    <3>5. QED
      BY <2>1, <3>1, <3>2, <3>3, <3>4 DEF Step
  <2>2. CASE RedisStep
    <3>1. CASE Read
      BY <3>1, ReadKeeps
    <3>2. CASE ReadAnswerLost
      BY <3>2, ReadAnswerLostKeeps
    <3>3. CASE ReadFails
      <4>1. pc = "asked" /\ batch = << >> /\ WriteFiles
        BY <3>3 DEF ReadFails, Inv, Blank
      <4>2. QED
        BY <4>1, WriteFilesKeeps
    <3>4. CASE CrashOnRedis
      BY <3>4, CrashKeeps
    <3>5. CASE Attach
      BY <3>5, AttachKeeps
    <3>6. CASE Take
      BY <3>6, TakeKeeps
    <3>7. CASE ReadEmpty
      BY <3>7, AskKeeps
    <3>8. QED
      BY <2>2, <3>1, <3>2, <3>3, <3>4, <3>5, <3>6, <3>7 DEF RedisStep
  <2>3. CASE Expire
    BY <2>3, ExpireKeeps
  <2>4. CASE RunAgain
    BY <2>4, RunAgainKeeps
  <2>5. ASSUME NEW j \in Jobs, NEW m \in Verdicts, Publish(j, m)
        PROVE  Inv'
    <3>1. m \in Messages
      BY DEF Messages
    <3>2. QED
      BY <2>5, <3>1, PublishKeeps
  <2>6. CASE UNCHANGED vars
    BY <2>6, StutterKeeps
  <2>7. QED
    BY <2>1, <2>2, <2>3, <2>4, <2>5, <2>6 DEF Next
<1>3. QED
  BY <1>1, <1>2, PTL DEF Spec

--------------------------------------------------------------------------------
(* Every variable keeps its type, however often the script is run.          *)
THEOREM TypeCorrect == Spec => []TypeOK
<1>1. Inv => TypeOK
  BY DEF Inv
<1>2. QED
  BY <1>1, Invariance, PTL

(* Of the two verdicts a job may have, the file of its case gets the one    *)
(* delivered first, and never one about a job of an earlier run.            *)
THEOREM CollectedIsFirstVerdictHolds == Spec => []CollectedIsFirstVerdict
<1>1. Inv => CollectedIsFirstVerdict
  BY DEF Inv
<1>2. QED
  BY <1>1, Invariance, PTL

(* The loop over a batch loses no verdict: a case that is missing when the  *)
(* script ends was never handed one.                                        *)
THEOREM MissingHasReasonHolds == Spec => []MissingHasReason
<1>1. Inv => MissingHasReason
  <2> SUFFICES ASSUME Inv, pc = "ended", exit # Crash, NEW c \in accepted \ DOMAIN results,
                      NEW i \in handed, log[i].job = Job(c)
               PROVE  FALSE
    BY DEF MissingHasReason
  <2>1. batch = << >>
    BY DEF Inv, Outcome
  <2>2. c \in wanted
    BY DEF Inv, TypeOK
  <2>3. \E n \in DOMAIN batch : batch[n] = i
    BY <2>2 DEF Inv, Awaited
  <2>4. QED
    BY <2>1, <2>3
<1>2. QED
  BY <1>1, Invariance, PTL

(* An exit code of 0 can be relied on by what scores the files afterwards.  *)
THEOREM ExitTellsTruthHolds == Spec => []ExitTellsTruth
<1>1. Inv => ExitTellsTruth
  <2> SUFFICES ASSUME Inv, exit = 0, NEW c \in accepted
               PROVE  files[c] # 0 /\ log[files[c]].job = Job(c)
    BY DEF ExitTellsTruth
  <2>1. c \in DOMAIN results /\ files[c] = results[c]
    BY DEF Inv, Outcome
  <2>2. results[c] \in handed /\ log[results[c]].job = Job(c)
    BY <2>1 DEF Inv, CollectedIsFirstVerdict
  <2>3. results[c] \in 1 .. Len(log) /\ Len(log) \in Nat
    BY <2>2, LogType DEF Inv, TypeOK
  <2>4. QED
    BY <2>1, <2>2, <2>3
<1>2. QED
  BY <1>1, Invariance, PTL
--------------------------------------------------------------------------------
(* The deadline.                                                            *)

(* One XREADGROUP hands over no more than it was asked for.                 *)
LEMMA DeliveryIsLimited ==
  ASSUME Len(log) \in Nat, DOMAIN log = 1 .. Len(log)
  PROVE  Len(InOrder(Delivered)) \in 0 .. Count
<1> DEFINE U == Undelivered
           D == Delivered
           size == Cardinality(D)
<1>1. U \in SUBSET Nat /\ IsFiniteSet(U) /\ D \in SUBSET U
  <2>1. U \in SUBSET (1 .. Len(log))
    BY DEF Undelivered
  <2>2. IsFiniteSet(1 .. Len(log))
    BY FS_Interval
  <2>3. IsFiniteSet(U)
    BY <2>1, <2>2, FS_Subset
  <2>4. QED
    BY <2>1, <2>3 DEF Delivered
<1>2. D \in SUBSET Nat /\ IsFiniteSet(D)
  BY <1>1, FS_Subset
<1>3. /\ size \in Nat
      /\ \A n \in 1 .. size : \E i \in D : Cardinality(Below(D, i)) = n - 1
  BY <1>2, Ranks
<1>4. ASSUME NEW i \in D
      PROVE  Cardinality(Below(D, i)) \in Nat /\ Cardinality(Below(D, i)) < Count
  <2>1. Below(D, i) \in SUBSET Below(U, i) /\ Below(U, i) \in SUBSET U
    BY <1>1 DEF Below
  <2>2. IsFiniteSet(Below(U, i))
    BY <1>1, <2>1, FS_Subset
  <2>3. /\ IsFiniteSet(Below(D, i))
        /\ Cardinality(Below(D, i)) <= Cardinality(Below(U, i))
    BY <2>1, <2>2, FS_Subset
  <2>4. Cardinality(Below(D, i)) \in Nat /\ Cardinality(Below(U, i)) \in Nat
    BY <2>2, <2>3, FS_CardinalityType
  <2>5. Cardinality(Below(U, i)) < Count
    BY DEF Delivered, Below
  <2>6. QED
    BY <2>3, <2>4, <2>5
<1>5. Len(InOrder(D)) = size
  BY <1>3 DEF InOrder
<1> HIDE DEF D, size
<1>6. size <= Count
  <2> SUFFICES ASSUME size > Count PROVE FALSE
    BY <1>3
  <2>1. PICK i \in D : Cardinality(Below(D, i)) = size - 1
    BY <1>3
  <2>2. QED
    BY <1>3, <1>4, <2>1
<1>7. QED
  BY <1>3, <1>5, <1>6 DEF D

(* What a run still has to do when its time is over: the command it may     *)
(* have sent, the entries that answers, and the files.                      *)
LeftToDo ==
  CASE pc = "asked" -> Count + 2
    [] pc = "read" -> Len(batch) + 1
    [] OTHER -> 0

(* The clock runs in the loop only, and a batch is never longer than asked. *)
Timed == Len(batch) \in 0 .. Count /\ (expired => pc \in {"read", "asked", "ended"})

LEMMA TimedInit == Init => Timed
  BY DEF Init, Timed

LEMMA TimedNext == Inv /\ Timed /\ [Next]_vars => Timed'
<1> SUFFICES ASSUME Inv, Timed, [Next]_vars PROVE Timed'
  OBVIOUS
<1>1. CASE Read
  <2>1. Len(InOrder(Delivered)) \in 0 .. Count
    BY LogType, DeliveryIsLimited DEF Inv
  <2>2. QED
    BY <1>1, <2>1 DEF Timed, Read
<1>2. CASE Take
  <2>1. batch \in Seq(Nat) /\ batch # << >> /\ batch' = Tail(batch) /\ UNCHANGED <<pc, expired>>
    BY <1>2 DEF Take, Inv, Sorted
  <2>2. Len(batch') = Len(batch) - 1 /\ Len(batch) > 0
    BY <2>1
  <2>3. QED
    BY <2>1, <2>2 DEF Timed
<1>3. CASE SubmitAccepted \/ SubmitFails \/ Submitted \/ Attach
  BY <1>3 DEF SubmitAccepted, SubmitFails, Submitted, Attach, Timed, script
<1>4. CASE StopReading \/ Ask \/ ReadEmpty \/ ReadFails \/ ReadAnswerLost \/ CrashOnRedis
  BY <1>4 DEF StopReading, Ask, ReadEmpty, ReadFails, ReadAnswerLost, CrashOnRedis,
     WriteFiles, Waiting, Timed, script
<1>5. CASE Expire \/ RunAgain
  BY <1>5 DEF Expire, RunAgain, Timed, script
<1>6. ASSUME NEW j \in Jobs, NEW m \in Verdicts, Publish(j, m)
      PROVE  UNCHANGED <<batch, pc, expired>>
  BY <1>6 DEF Publish, script
<1>7. CASE UNCHANGED <<batch, pc, expired>>
  BY <1>7 DEF Timed
<1>8. UNCHANGED vars => UNCHANGED <<batch, pc, expired>>
  BY DEF vars, script
<1>9. QED
  BY <1>1, <1>2, <1>3, <1>4, <1>5, <1>6, <1>7, <1>8 DEF Next, Step, RedisStep

(* After the deadline no further command reads: the answer to the one that  *)
(* may be under way comes or fails, at most one batch is worked off, the    *)
(* files are written.  Only what changes nothing of it can intervene: the   *)
(* service's verdicts, and an answer that is lost and asked for again.      *)
(* Whether Redis answers the one command is another matter.                 *)
THEOREM DeadlineEndsTheRun ==
  Spec => /\ [](expired => LeftToDo \in 0 .. Count + 2)
          /\ [][expired /\ run' = run => \/ LeftToDo' < LeftToDo
                                        \/ UNCHANGED <<pc, script>>]_vars
<1> DEFINE Ends == expired /\ run' = run => LeftToDo' < LeftToDo \/ UNCHANGED <<pc, script>>
<1>1. Timed => (expired => LeftToDo \in 0 .. Count + 2)
  BY DEF Timed, LeftToDo
<1>2. Inv /\ Timed /\ Timed' /\ [Next]_vars => [Ends]_vars
  <2> SUFFICES ASSUME Inv, Timed, Timed', Next, expired, run' = run
               PROVE  LeftToDo' < LeftToDo \/ UNCHANGED <<pc, script>>
    BY DEF vars, script
  <2>1. ~Ask /\ ~Expire
    BY DEF Ask, Waiting, Expire
  <2>2. ~SubmitAccepted /\ ~SubmitFails /\ ~Submitted /\ ~Attach
    BY DEF Timed, SubmitAccepted, SubmitFails, Submitted, Attach
  <2>3. ~RunAgain
    BY LogType DEF Inv, RunAgain
  <2>4. CASE Take
    <3>1. batch \in Seq(Nat) /\ batch # << >> /\ batch' = Tail(batch)
          /\ pc = "read" /\ UNCHANGED pc
      BY <2>4 DEF Take, Inv, Sorted
    <3>2. Len(batch') = Len(batch) - 1 /\ Len(batch) \in Nat
      BY <3>1
    <3>3. QED
      BY <3>1, <3>2 DEF LeftToDo
  <2>5. CASE StopReading \/ CrashOnRedis
    <3>1. pc \in {"read", "asked"} /\ pc' = "ended"
      BY <2>5 DEF StopReading, CrashOnRedis, WriteFiles, Timed
    <3>2. QED
      BY <3>1 DEF LeftToDo, Timed
  <2>6. CASE Read \/ ReadEmpty
    <3>1. pc = "asked" /\ pc' = "read"
      BY <2>6 DEF Read, ReadEmpty
    <3>2. Len(batch') \in 0 .. Count
      BY DEF Timed
    <3>3. QED
      BY <3>1, <3>2 DEF LeftToDo
  <2>7. CASE ReadFails
    <3>1. pc = "asked" /\ pc' = "ended"
      BY <2>7 DEF ReadFails, WriteFiles
    <3>2. QED
      BY <3>1 DEF LeftToDo
  <2>8. CASE ReadAnswerLost
    BY <2>8 DEF ReadAnswerLost
  <2>9. ASSUME NEW j \in Jobs, NEW m \in Verdicts, Publish(j, m)
        PROVE  UNCHANGED <<pc, script>>
    BY <2>9 DEF Publish
  <2>10. QED
    BY <2>1, <2>2, <2>3, <2>4, <2>5, <2>6, <2>7, <2>8, <2>9 DEF Next, Step, RedisStep
<1>3. QED
  BY <1>1, <1>2, Invariance, TimedInit, TimedNext, PTL DEF Spec
================================================================================
