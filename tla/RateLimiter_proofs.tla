--------------------------- MODULE RateLimiter_proofs ---------------------------
(***************************************************************************)
(* What GeminiRateLimiter guarantees for any number of callers, any bucket, *)
(* any cap and any length of time, and however long a script takes after    *)
(* its caller read the clock.  Only the bucket's law needs exact clocks     *)
(* (Lag = 0): the run LimiterStaleClock shows that it does.                 *)
(***************************************************************************)
EXTENDS RateLimiter, FiniteSetTheorems, TLAPS

(* The assumption on the constants, one by one.                             *)
LEMMA Constants ==
  /\ Capacity \in Nat \ {0} /\ Refill \in Nat \ {0} /\ Cost \in Nat \ {0}
  /\ DailyCap \in Nat \ {0} /\ DayLength \in Nat \ {0} /\ Second \in Nat \ {0}
  /\ MaxWait \in Nat /\ Lag \in Nat /\ MaxTime \in Nat
  BY LimiterAssumption

USE Constants

--------------------------------------------------------------------------------
(* Arithmetic of the script.                                                *)

(* A day is found by division: it begins no later than t and ends after t.  *)
LEMMA DayBounds ==
  ASSUME NEW t \in Nat
  PROVE  /\ DayOf(t) \in Nat
         /\ DayOf(t) * DayLength <= t
         /\ t < (DayOf(t) + 1) * DayLength
  BY DEF DayOf

(* Every time up to the bound falls on one of the days.                     *)
LEMMA DayInRange ==
  ASSUME NEW t \in 0 .. MaxTime
  PROVE  DayOf(t) \in AllDays
<1>1. DayOf(t) \in Nat /\ DayOf(MaxTime) \in Nat
  BY DayBounds
<1>2. DayOf(t) * DayLength <= t /\ t < (DayOf(MaxTime) + 1) * DayLength
  BY DayBounds
<1>3. DayOf(t) < DayOf(MaxTime) + 1
  BY <1>1, <1>2
<1>4. QED
  BY <1>1, <1>3 DEF AllDays

(* The bucket holds at least one call.                                      *)
LEMMA FullBounds == Full \in Nat /\ Full >= Cost
  BY DEF Full

(* The refill never overfills the bucket.                                   *)
LEMMA RefilledBounds ==
  ASSUME NEW t \in Nat, tokens \in -1 .. Full, ts \in -1 .. MaxTime
  PROVE  Refilled(t) \in 0 .. Full
<1>1. Larger(0, t - ts) \in Nat
  BY DEF Larger
<1>2. Larger(0, t - ts) * Refill \in Nat
  BY <1>1
<1>3. QED
  BY <1>2, FullBounds DEF Refilled, Smaller

(* The advised wait is a whole number of ticks.                             *)
LEMMA AdviceInt ==
  ASSUME NEW u \in Int
  PROVE  Advice(u) \in Int /\ Larger(1, Advice(u)) \in Nat \ {0}
  BY DEF Advice, Larger

(* The start.                                                               *)
LEMMA TypeInit == Init => TypeOK
  BY FullBounds DEF Init, TypeOK

(* A grown history keeps what callers noted about it.                       *)
LEMMA SeenGrows ==
  ASSUME TypeOK, NEW t \in 0 .. MaxTime, times' = Append(times, t), seen' = seen
  PROVE  /\ times' \in Seq(0 .. MaxTime)
         /\ seen' \in [Callers -> {-1} \cup DOMAIN times' \cup {0}]
  BY DEF TypeOK

(* Every step keeps the types, whatever the clocks.                         *)
LEMMA TypeNext == TypeOK /\ [Next]_vars => TypeOK'
<1> SUFFICES ASSUME TypeOK, [Next]_vars PROVE TypeOK'
  OBVIOUS
<1> USE DEF callervars, redisvars
<1>1. ASSUME NEW c \in Callers, Acquire(c) \/ Retry(c) PROVE TypeOK'
  <2>1. /\ seen' = seen \/ seen' = [seen EXCEPT ![c] = -1]
        /\ times' = times
    BY <1>1 DEF Acquire, Retry
  <2>2. seen' \in [Callers -> {-1} \cup DOMAIN times' \cup {0}]
    BY <2>1 DEF TypeOK
  <2>3. /\ pc' \in [Callers -> {"idle", "asked", "sleeping"}]
        /\ stamp' \in [Callers -> 0 .. MaxTime] /\ began' \in [Callers -> 0 .. MaxTime]
        /\ waited' \in [Callers -> 0 .. MaxWait] /\ wake' = wake
        /\ UNCHANGED <<now, tokens, ts, daily>>
    <3>1. /\ pc' = [pc EXCEPT ![c] = "asked"] /\ stamp' = [stamp EXCEPT ![c] = now]
          /\ began' = began \/ began' = [began EXCEPT ![c] = now]
          /\ waited' = waited \/ waited' = [waited EXCEPT ![c] = 0]
          /\ UNCHANGED <<wake, now, tokens, ts, daily>>
      BY <1>1 DEF Acquire, Retry
    <3>2. 0 \in 0 .. MaxWait
      OBVIOUS
    <3>3. QED
      BY <3>1, <3>2 DEF TypeOK
  <2>4. QED
    BY <2>1, <2>2, <2>3 DEF TypeOK
<1>2. ASSUME NEW c \in Callers
      PROVE  /\ stamp[c] \in 0 .. MaxTime
             /\ Refilled(stamp[c]) \in 0 .. Full
             /\ DayOf(stamp[c]) \in AllDays
             /\ Ttl(stamp[c]) \in Nat
  <2>1. stamp[c] \in 0 .. MaxTime
    BY DEF TypeOK
  <2>2. DayOf(stamp[c]) \in Nat
    BY <2>1, DayBounds
  <2>3. Ttl(stamp[c]) \in Nat
    BY <2>1, <2>2 DEF Ttl, Larger
  <2>4. QED
    BY <2>1, <2>3, DayInRange, RefilledBounds DEF TypeOK
<1>3. ASSUME NEW c \in Callers, Granted(c) PROVE TypeOK'
  <2> DEFINE d == DayOf(stamp[c])
             grown == IF Counted(d) = 0
                      THEN [count |-> 1, expires |-> now + Ttl(stamp[c])]
                      ELSE [count |-> daily[d].count + 1, expires |-> daily[d].expires]
  <2>1. tokens' \in -1 .. Full /\ ts' \in -1 .. MaxTime
    <3>1. tokens' = Refilled(stamp[c]) - Cost /\ ts' = stamp[c] /\ Refilled(stamp[c]) >= Cost
      BY <1>3 DEF Granted
    <3>2. QED
      BY <1>2, <3>1, FullBounds
  <2>2. daily' \in [AllDays -> [count : 0 .. DailyCap, expires : Nat]]
    <3>1. daily[d] \in [count : 0 .. DailyCap, expires : Nat] /\ now \in Nat
      BY <1>2 DEF TypeOK
    <3>2. Counted(d) < DailyCap
      BY <1>3 DEF Granted
    <3>3. Counted(d) # 0 => daily[d].count < DailyCap
      BY <3>2 DEF Counted
    <3>4. grown \in [count : 0 .. DailyCap, expires : Nat]
      BY <1>2, <3>1, <3>3
    <3>5. daily' = [daily EXCEPT ![d] = grown]
      BY <1>3 DEF Granted
    <3>6. daily \in [AllDays -> [count : 0 .. DailyCap, expires : Nat]]
      BY DEF TypeOK
    <3> HIDE DEF grown
    <3>7. QED
      BY <3>4, <3>5, <3>6
  <2>3. /\ times' \in Seq(0 .. MaxTime)
        /\ seen' \in [Callers -> {-1} \cup DOMAIN times' \cup {0}]
    <3>1. now \in 0 .. MaxTime /\ times' = Append(times, now) /\ seen' = seen
      BY <1>3 DEF Granted, Leave, AnswerLost, TypeOK
    <3>2. QED
      BY <3>1, SeenGrows
  <2>4. /\ pc' \in {pc, [pc EXCEPT ![c] = "idle"]}
        /\ UNCHANGED <<now, stamp, began, waited, wake>>
    BY <1>3 DEF Granted, Leave, AnswerLost
  <2>5. QED
    BY <2>1, <2>2, <2>3, <2>4 DEF TypeOK
<1>4. ASSUME NEW c \in Callers, DayExhausted(c) \/ Abandoned(c) PROVE TypeOK'
  BY <1>4 DEF DayExhausted, Abandoned, Leave, TypeOK
<1>5. ASSUME NEW c \in Callers, SlowDown(c) PROVE TypeOK'
  <2>1. tokens' \in -1 .. Full /\ ts' \in -1 .. MaxTime
    <3>1. tokens' = Refilled(stamp[c]) /\ ts' = stamp[c]
      BY <1>5 DEF SlowDown
    <3>2. QED
      BY <1>2, <3>1, FullBounds
  <2> DEFINE advice == Larger(1, Advice(Refilled(stamp[c])))
  <2>2. advice \in Nat
    <3>1. Refilled(stamp[c]) \in Int
      BY <1>2, FullBounds
    <3>2. QED
      BY <3>1, AdviceInt
  <2>3. UNCHANGED <<now, daily, times>>
    BY <1>5 DEF SlowDown
  <2>4. CASE Leave(c) \/ AnswerLost
    BY <2>1, <2>3, <2>4 DEF Leave, AnswerLost, TypeOK
  <2>5. CASE ~(Leave(c) \/ AnswerLost)
    <3>1. /\ waited[c] + advice <= MaxWait
          /\ pc' = [pc EXCEPT ![c] = "sleeping"]
          /\ wake' = [wake EXCEPT ![c] = now + advice]
          /\ waited' = [waited EXCEPT ![c] = @ + advice]
          /\ seen' = [seen EXCEPT ![c] = Len(times)]
          /\ UNCHANGED <<stamp, began>>
      BY <1>5, <2>5 DEF SlowDown
    <3> HIDE DEF advice
    <3>2. now + advice \in Nat /\ waited[c] + advice \in 0 .. MaxWait
      BY <2>2, <3>1 DEF TypeOK
    <3>3. seen' \in [Callers -> {-1} \cup DOMAIN times' \cup {0}]
      BY <2>3, <3>1 DEF TypeOK
    <3>4. /\ wake' \in [Callers -> Nat] /\ waited' \in [Callers -> 0 .. MaxWait]
          /\ pc' \in [Callers -> {"idle", "asked", "sleeping"}]
      BY <3>1, <3>2 DEF TypeOK
    <3>5. QED
      BY <2>1, <2>3, <3>1, <3>3, <3>4 DEF TypeOK
  <2>6. QED
    BY <2>4, <2>5
<1>6. ASSUME Tick PROVE TypeOK'
  BY <1>6 DEF Tick, TypeOK
<1>7. ASSUME UNCHANGED vars PROVE TypeOK'
  BY <1>7 DEF vars, TypeOK
<1>8. QED
  BY <1>1, <1>3, <1>4, <1>5, <1>6, <1>7 DEF Next

(* Tokens, counts, stamps and sleeps keep to their ranges: the bucket is    *)
(* never negative nor overfull, no sleep in all is longer than              *)
(* max_wait_seconds, whatever the clocks of the callers.                    *)
THEOREM TypeCorrect == Spec => []TypeOK
  BY TypeInit, TypeNext, PTL DEF Spec
--------------------------------------------------------------------------------
(* A script runs soon after its caller read the clock, and a caller is held *)
(* up by its sleeps and, at most once per tick slept, by a script.          *)
HeldUp(c) == waited[c] * (1 + Lag)

OnTime ==
  \A c \in Callers :
    /\ pc[c] = "asked" => /\ stamp[c] <= now /\ now <= stamp[c] + Lag
                          /\ stamp[c] - began[c] <= HeldUp(c)
    /\ pc[c] = "sleeping" => now <= wake[c] /\ wake[c] - began[c] <= HeldUp(c)

(* No caller is inside acquire at the start.                                *)
LEMMA OnTimeInit == Init => OnTime
  BY DEF Init, OnTime

(* A sleep of w ticks and the script before it hold a caller up for at most *)
(* w * (1 + Lag) ticks.                                                     *)
LEMMA SleepAndScript ==
  ASSUME NEW u \in Nat, NEW w \in Nat \ {0}
  PROVE  u * (1 + Lag) + Lag + w <= (u + w) * (1 + Lag)
<1>1. (u + w) * (1 + Lag) = u * (1 + Lag) + w * (1 + Lag)
  OBVIOUS
<1>2. w * (1 + Lag) = w + w * Lag /\ w * Lag >= Lag
  OBVIOUS
<1>3. u * (1 + Lag) \in Nat /\ w * Lag \in Nat
  OBVIOUS
<1> QED BY <1>1, <1>2, <1>3

(* Every step keeps to that account.                                        *)
LEMMA OnTimeNext == TypeOK /\ OnTime /\ [Next]_vars => OnTime'
<1> SUFFICES ASSUME TypeOK, OnTime, [Next]_vars PROVE OnTime'
  OBVIOUS
<1> USE DEF callervars, redisvars
<1>0. ASSUME NEW c \in Callers
      PROVE  /\ now \in Nat /\ stamp[c] \in Nat /\ began[c] \in Nat /\ waited[c] \in Nat
             /\ wake[c] \in Nat /\ pc[c] \in {"idle", "asked", "sleeping"}
             /\ HeldUp(c) \in Nat
  BY DEF TypeOK, HeldUp
<1>1. ASSUME NEW c \in Callers, Acquire(c) \/ Retry(c) PROVE OnTime'
  <2>1. now' = now /\ wake' = wake
    BY <1>1 DEF Acquire, Retry
  <2>2. pc'[c] = "asked" /\ stamp'[c] = now
    BY <1>1 DEF Acquire, Retry, TypeOK
  <2>3. now - began'[c] <= HeldUp(c)'
    <3>1. CASE Acquire(c)
      <4>1. began'[c] = now /\ waited'[c] = 0
        BY <3>1 DEF Acquire, TypeOK
      <4>2. QED
        BY <1>0, <4>1 DEF HeldUp
    <3>2. CASE Retry(c)
      <4>1. pc[c] = "sleeping" /\ now = wake[c] /\ began' = began /\ waited' = waited
        BY <3>2 DEF Retry
      <4>2. QED
        BY <4>1 DEF OnTime, HeldUp
    <3>3. QED
      BY <1>1, <3>1, <3>2
  <2>4. \A k \in Callers \ {c} : /\ pc'[k] = pc[k] /\ stamp'[k] = stamp[k]
                                 /\ waited'[k] = waited[k] /\ began'[k] = began[k]
    BY <1>1 DEF Acquire, Retry, TypeOK
  <2>5. \A k \in Callers \ {c} : HeldUp(k)' = HeldUp(k)
    BY <2>4 DEF HeldUp
  <2>6. QED
    BY <1>0, <2>1, <2>2, <2>3, <2>4, <2>5 DEF OnTime
<1>2. ASSUME NEW c \in Callers, Granted(c) \/ DayExhausted(c) \/ Abandoned(c) PROVE OnTime'
  <2>1. now' = now /\ (Leave(c) \/ AnswerLost)
    BY <1>2 DEF Granted, DayExhausted, Abandoned
  <2>2. QED
    BY <2>1 DEF Leave, AnswerLost, OnTime, HeldUp, TypeOK
<1>3. ASSUME NEW c \in Callers, SlowDown(c) PROVE OnTime'
  <2> DEFINE advice == Larger(1, Advice(Refilled(stamp[c])))
  <2>1. advice \in Nat \ {0}
    <3>1. Refilled(stamp[c]) \in 0 .. Full
      BY <1>0, RefilledBounds DEF TypeOK
    <3>2. Refilled(stamp[c]) \in Int
      BY <3>1, FullBounds
    <3>3. QED
      BY <3>2, AdviceInt
  <2>2. pc[c] = "asked" /\ now' = now
    BY <1>3 DEF SlowDown
  <2>3. CASE Leave(c) \/ AnswerLost
    BY <2>2, <2>3 DEF Leave, AnswerLost, OnTime, HeldUp, TypeOK
  <2>4. CASE ~(Leave(c) \/ AnswerLost)
    <3>1. /\ pc' = [pc EXCEPT ![c] = "sleeping"]
          /\ wake' = [wake EXCEPT ![c] = now + advice]
          /\ waited' = [waited EXCEPT ![c] = @ + advice]
          /\ UNCHANGED <<stamp, began>>
      BY <1>3, <2>4 DEF SlowDown
    <3> HIDE DEF advice
    <3>2. /\ pc'[c] = "sleeping" /\ wake'[c] = now + advice /\ waited'[c] = waited[c] + advice
          /\ began'[c] = began[c]
      BY <3>1 DEF TypeOK
    <3>3. now <= stamp[c] + Lag /\ stamp[c] - began[c] <= HeldUp(c)
      BY <2>2 DEF OnTime
    <3>4. HeldUp(c) + Lag + advice <= HeldUp(c)'
      BY <1>0, <2>1, <3>2, SleepAndScript DEF HeldUp
    <3>5. HeldUp(c)' \in Int
      BY <1>0, <2>1, <3>2 DEF HeldUp
    <3>6. wake'[c] - began'[c] <= HeldUp(c)' /\ now' <= wake'[c]
      BY <1>0, <2>1, <2>2, <3>2, <3>3, <3>4, <3>5
    <3>7. \A k \in Callers \ {c} : /\ pc'[k] = pc[k] /\ wake'[k] = wake[k] /\ stamp'[k] = stamp[k]
                                   /\ waited'[k] = waited[k] /\ began'[k] = began[k]
      BY <3>1 DEF TypeOK
    <3>8. \A k \in Callers \ {c} : HeldUp(k)' = HeldUp(k)
      BY <3>7 DEF HeldUp
    <3>9. QED
      BY <2>2, <3>2, <3>6, <3>7, <3>8 DEF OnTime
  <2>5. QED
    BY <2>3, <2>4
<1>4. ASSUME Tick PROVE OnTime'
  <2>1. /\ now' = now + 1 /\ UNCHANGED <<pc, stamp, began, waited, wake>>
        /\ \A c \in Callers : pc[c] = "asked" => now < stamp[c] + Lag
        /\ \A c \in Callers : pc[c] = "sleeping" => now < wake[c]
    BY <1>4 DEF Tick
  <2>2. \A c \in Callers : HeldUp(c)' = HeldUp(c)
    BY <2>1 DEF HeldUp
  <2>3. QED
    BY <1>0, <2>1, <2>2 DEF OnTime
<1>5. ASSUME UNCHANGED vars PROVE OnTime'
  BY <1>5 DEF vars, OnTime, HeldUp
<1>6. QED
  BY <1>1, <1>2, <1>3, <1>4, <1>5 DEF Next

(* acquire holds its job up for max_wait_seconds at most and for what its   *)
(* own scripts take, however many other callers take the token it was       *)
(* waiting for.                                                             *)
THEOREM AcquireBoundedHolds == Spec => []AcquireBounded
<1>1. TypeOK /\ OnTime => AcquireBounded
  <2> SUFFICES ASSUME TypeOK, OnTime, NEW c \in Callers, pc[c] # "idle"
               PROVE  now - began[c] <= MaxWait + (MaxWait + 1) * Lag
    BY DEF AcquireBounded
  <2>1. /\ now \in Nat /\ began[c] \in Nat /\ waited[c] \in 0 .. MaxWait
        /\ wake[c] \in Nat /\ stamp[c] \in Nat
    BY DEF TypeOK
  <2>2. HeldUp(c) \in Nat /\ HeldUp(c) <= MaxWait * (1 + Lag)
    BY <2>1 DEF HeldUp
  <2>3. pc[c] \in {"asked", "sleeping"}
    BY DEF TypeOK
  <2>7. now - began[c] <= HeldUp(c) + Lag
    BY <2>1, <2>2, <2>3 DEF OnTime
  <2>4. MaxWait * (1 + Lag) + Lag = MaxWait + (MaxWait + 1) * Lag
    OBVIOUS
  <2>5. MaxWait * (1 + Lag) \in Nat
    OBVIOUS
  <2>6. QED
    BY <2>1, <2>2, <2>4, <2>5, <2>7
<1>2. QED
  BY <1>1, OnTimeInit, OnTimeNext, TypeCorrect, PTL DEF Spec

--------------------------------------------------------------------------------
(* The ledger of the bucket: whatever stretch of calls up to now one takes, *)
(* they and what the bucket still holds were paid for by a full bucket and  *)
(* the refill since the first of them.                                      *)
Paid(i) == (Len(times) - i + 1) * Cost + Refilled(now) <= Full + (now - times[i]) * Refill

Ledger ==
  /\ ts <= now
  /\ tokens = -1 => times = << >>
  /\ \A i \in DOMAIN times : times[i] <= now /\ Paid(i)
  /\ BucketLaw

(* No call was granted at the start.                                        *)
LEMMA LedgerInit == Init => Ledger
  BY DEF Init, Ledger, BucketLaw

(* A tick refills what one tick refills, or less when the bucket is full.   *)
LEMMA RefillSteps ==
  ASSUME NEW t \in Nat, tokens \in 0 .. Full, ts \in -1 .. t
  PROVE  Refilled(t + 1) <= Refilled(t) + Refill
<1>1. Larger(0, t - ts) = t - ts /\ Larger(0, (t + 1) - ts) = t - ts + 1
  BY DEF Larger
<1>2. (t - ts + 1) * Refill = (t - ts) * Refill + Refill
  OBVIOUS
<1>3. QED
  BY <1>1, <1>2, FullBounds DEF Refilled, Smaller

(* Right after a script the bucket holds what the script left in it.        *)
LEMMA RefilledAtOnce ==
  ASSUME tokens' \in 0 .. Full, now \in Nat, ts' = now, now' = now
  PROVE  Refilled(now)' = tokens'
<1>1. Larger(0, now - ts') * Refill = 0
  BY DEF Larger
<1>2. QED
  BY <1>1, FullBounds DEF Refilled, Smaller

(* With exact clocks a script runs at the time its caller read.             *)
LEMMA AtOnce ==
  ASSUME Lag = 0, TypeOK, OnTime, NEW c \in Callers, pc[c] = "asked"
  PROVE  stamp[c] = now
<1>1. stamp[c] \in Nat /\ now \in Nat /\ stamp[c] <= now /\ now <= stamp[c] + 0
  BY DEF TypeOK, OnTime
<1>2. QED
  BY <1>1

(* A fact about sums, kept apart from the products it is used on.           *)
LEMMA LessOfSum ==
  ASSUME NEW a \in Int, NEW r \in Int, NEW b \in Int, NEW g \in Int, a + r <= b + g, r >= 0
  PROVE  a <= b + g
  OBVIOUS

(* Every step keeps the ledger.                                             *)
LEMMA LedgerNext == Lag = 0 /\ TypeOK /\ OnTime /\ Ledger /\ [Next]_vars => Ledger'
<1> SUFFICES ASSUME Lag = 0, TypeOK, OnTime, Ledger, [Next]_vars PROVE Ledger'
  OBVIOUS
<1>0. /\ now \in 0 .. MaxTime /\ now \in Nat /\ tokens \in -1 .. Full /\ ts \in -1 .. MaxTime
      /\ Full \in Nat /\ Full >= Cost /\ Refilled(now) \in 0 .. Full
      /\ times \in Seq(0 .. MaxTime) /\ Len(times) \in Nat
      /\ \A i \in DOMAIN times : i \in 1 .. Len(times) /\ times[i] \in Nat
  <2>1. /\ now \in 0 .. MaxTime /\ tokens \in -1 .. Full /\ ts \in -1 .. MaxTime
        /\ times \in Seq(0 .. MaxTime)
    BY DEF TypeOK
  <2>2. /\ Len(times) \in Nat
        /\ \A i \in DOMAIN times : i \in 1 .. Len(times) /\ times[i] \in 0 .. MaxTime
    BY <2>1
  <2>3. Refilled(now) \in 0 .. Full
    BY <2>1, RefilledBounds
  <2>4. QED
    BY <2>1, <2>2, <2>3, FullBounds
<1>1. ASSUME NEW c \in Callers, Granted(c) PROVE Ledger'
  <2>1. /\ stamp[c] = now /\ now' = now /\ ts' = now
        /\ tokens' = Refilled(now) - Cost /\ Refilled(now) >= Cost
        /\ times' = Append(times, now)
    BY <1>1, AtOnce DEF Granted
  <2>2. tokens' \in 0 .. Full /\ tokens' # -1
    BY <1>0, <2>1
  <2>3. Refilled(now)' = Refilled(now) - Cost
    BY <1>0, <2>1, <2>2, RefilledAtOnce
  <2>4. /\ Len(times') = Len(times) + 1 /\ DOMAIN times' = 1 .. (Len(times) + 1)
        /\ \A i \in DOMAIN times : times'[i] = times[i]
        /\ times'[Len(times) + 1] = now
    BY <1>0, <2>1
  <2>5. ASSUME NEW i \in DOMAIN times' PROVE times'[i] <= now' /\ Paid(i)'
    <3>1. CASE i \in DOMAIN times
      <4>1. times[i] <= now /\ Paid(i) /\ times'[i] = times[i] /\ i \in Nat
        BY <1>0, <2>4, <3>1 DEF Ledger
      <4>2. (Len(times') - i + 1) * Cost = (Len(times) - i + 1) * Cost + Cost
        BY <1>0, <2>4, <4>1
      <4>3. (Len(times) - i + 1) * Cost \in Int /\ (now - times[i]) * Refill \in Int
        BY <1>0, <3>1, <4>1
      <4>4. (Len(times') - i + 1) * Cost + (Refilled(now) - Cost)
              <= Full + (now - times[i]) * Refill
        BY <1>0, <4>1, <4>2, <4>3 DEF Paid
      <4>5. QED
        BY <2>1, <2>3, <4>1, <4>4 DEF Paid
    <3>2. CASE i = Len(times) + 1
      <4>1. (Len(times') - i + 1) * Cost = Cost /\ (now - times'[i]) * Refill = 0
        BY <1>0, <2>4, <3>2
      <4>2. Cost + (Refilled(now) - Cost) <= Full + 0
        BY <1>0
      <4>3. QED
        BY <1>0, <2>1, <2>3, <2>4, <3>2, <4>1, <4>2 DEF Paid
    <3>3. QED
      BY <1>0, <2>4, <3>1, <3>2
  <2>6. BucketLaw'
    <3> SUFFICES ASSUME NEW i \in DOMAIN times', NEW k \in DOMAIN times', i <= k
                 PROVE  (k - i + 1) * Cost <= Full + (times'[k] - times'[i] + Lag) * Refill
      BY DEF BucketLaw
    <3>1. CASE k \in DOMAIN times
      <4>1. i \in DOMAIN times
        BY <1>0, <2>4, <3>1
      <4>2. QED
        BY <2>4, <3>1, <4>1 DEF Ledger, BucketLaw
    <3>2. CASE k = Len(times')
      <4>1. Paid(i)' /\ times'[k] = now /\ times'[i] \in Nat /\ i \in Nat
        BY <1>0, <2>4, <2>5, <3>2
      <4>2. Refilled(now)' >= 0 /\ Refilled(now)' \in Int
        BY <1>0, <2>1, <2>3
      <4>3. (k - i + 1) * Cost \in Int /\ (now - times'[i]) * Refill \in Int
        BY <1>0, <2>4, <3>2, <4>1
      <4>4. (k - i + 1) * Cost <= Full + (now - times'[i]) * Refill
        <5>1. (k - i + 1) * Cost + Refilled(now)' <= Full + (now - times'[i]) * Refill
          BY <2>1, <3>2, <4>1 DEF Paid
        <5>2. QED
          BY <1>0, <4>2, <4>3, <5>1, LessOfSum
      <4>5. times'[k] - times'[i] + Lag = now - times'[i]
        BY <1>0, <4>1
      <4>6. QED
        BY <4>4, <4>5
    <3>3. QED
      BY <1>0, <2>4, <3>1, <3>2
  <2>7. QED
    BY <1>0, <2>1, <2>2, <2>5, <2>6 DEF Ledger
<1>2. ASSUME NEW c \in Callers, SlowDown(c) PROVE Ledger'
  <2>1. /\ stamp[c] = now /\ now' = now /\ ts' = now /\ tokens' = Refilled(now) /\ times' = times
    BY <1>2, AtOnce DEF SlowDown
  <2>2. Refilled(now)' = Refilled(now)
    BY <1>0, <2>1, RefilledAtOnce
  <2>3. BucketLaw'
    BY <2>1 DEF Ledger, BucketLaw
  <2>4. QED
    BY <1>0, <2>1, <2>2, <2>3 DEF Ledger, Paid
<1>3. ASSUME Tick PROVE Ledger'
  <2>1. now' = now + 1 /\ UNCHANGED <<tokens, ts, times>>
    BY <1>3 DEF Tick, redisvars
  <2>2. ASSUME NEW i \in DOMAIN times PROVE times[i] <= now + 1 /\ Paid(i)'
    <3>1. tokens \in 0 .. Full /\ ts \in -1 .. now
      BY <1>0 DEF Ledger
    <3>2. Refilled(now)' <= Refilled(now) + Refill
      <4>1. Refilled(now + 1) <= Refilled(now) + Refill
        BY <1>0, <3>1, RefillSteps
      <4>2. Refilled(now)' = Refilled(now + 1)
        BY <2>1 DEF Refilled, Larger
      <4>3. QED
        BY <4>1, <4>2
    <3>3. Refilled(now)' \in Int
      <4>1. Refilled(now + 1) \in 0 .. Full
        <5>1. now + 1 \in Nat
          BY <1>0
        <5>2. QED
          BY <1>0, <5>1, RefilledBounds
      <4>2. Refilled(now)' = Refilled(now + 1)
        BY <2>1 DEF Refilled, Larger
      <4>3. QED
        BY <1>0, <4>1, <4>2
    <3>4. times[i] <= now /\ Paid(i) /\ times[i] \in Nat
      BY <1>0 DEF Ledger
    <3>5. ((now + 1) - times[i]) * Refill = (now - times[i]) * Refill + Refill
      BY <1>0, <3>4
    <3>6. (Len(times) - i + 1) * Cost \in Int /\ (now - times[i]) * Refill \in Int
      BY <1>0, <3>4
    <3>7. (Len(times) - i + 1) * Cost + Refilled(now)' <= Full + ((now + 1) - times[i]) * Refill
      <4>1. (Len(times) - i + 1) * Cost + Refilled(now) <= Full + (now - times[i]) * Refill
        BY <3>4 DEF Paid
      <4>2. Refilled(now) \in Int
        BY <1>0
      <4> DEFINE a == (Len(times) - i + 1) * Cost
                 g == (now - times[i]) * Refill
                 h == ((now + 1) - times[i]) * Refill
                 r == Refilled(now)
                 q == Refilled(now)'
      <4>3. /\ a \in Int /\ g \in Int /\ r \in Int /\ q \in Int /\ Full \in Int
            /\ a + r <= Full + g /\ q <= r + Refill /\ h = g + Refill
        BY <1>0, <3>2, <3>3, <3>5, <3>6, <4>1, <4>2
      <4> HIDE DEF a, g, h, r, q
      <4>4. a + q <= Full + h
        BY <4>3
      <4>5. QED
        BY <4>4 DEF a, h, q
    <3>8. Paid(i)'
      <4>1. Len(times') = Len(times) /\ times'[i] = times[i] /\ now' = now + 1
        BY <2>1
      <4>2. /\ (Len(times') - i + 1) * Cost = (Len(times) - i + 1) * Cost
            /\ (now' - times'[i]) * Refill = ((now + 1) - times[i]) * Refill
        BY <4>1
      <4>3. QED
        BY <3>7, <4>2 DEF Paid
    <3>9. QED
      BY <1>0, <3>4, <3>8
  <2>3. BucketLaw'
    BY <2>1 DEF Ledger, BucketLaw
  <2>4. QED
    BY <1>0, <2>1, <2>2, <2>3 DEF Ledger
<1>4. ASSUME UNCHANGED <<now, tokens, ts, times>> PROVE Ledger'
  BY <1>4 DEF Ledger, Paid, Refilled, BucketLaw
<1>5. ASSUME NEW c \in Callers, Acquire(c) \/ Retry(c) \/ DayExhausted(c) \/ Abandoned(c)
      PROVE  UNCHANGED <<now, tokens, ts, times>>
  BY <1>5 DEF Acquire, Retry, DayExhausted, Abandoned, redisvars
<1>6. QED
  BY <1>1, <1>2, <1>3, <1>4, <1>5 DEF Next, vars, redisvars

(* With exact clocks the calls of any stretch of time are at most a full    *)
(* bucket and what was refilled meanwhile, for any number of callers and    *)
(* processes that share the bucket.                                         *)
THEOREM BucketLawHolds == ASSUME Lag = 0 PROVE Spec => []BucketLaw
<1>1. Ledger => BucketLaw
  BY DEF Ledger
<1>2. QED
  BY <1>1, LedgerInit, LedgerNext, OnTimeInit, OnTimeNext, TypeCorrect, PTL DEF Spec
--------------------------------------------------------------------------------
(* The hours of a day in which no script of the day before can still run    *)
(* and the key of the day has not expired.                                  *)
Hours(d) == d * DayLength + Lag .. (d + 1) * DayLength - Second

CallsOn(d) == {i \in DOMAIN times : times[i] \in Hours(d)}

(* Until they are over the key of a day counts all its calls, at least, and *)
(* once it counts anything it outlives them.                                *)
Tally ==
  \A d \in AllDays :
    /\ Cardinality(CallsOn(d)) <= DailyCap
    /\ now <= (d + 1) * DayLength - Second =>
         /\ Cardinality(CallsOn(d)) <= daily[d].count
         /\ daily[d].count > 0 => daily[d].expires > (d + 1) * DayLength - Second

(* The calls of a day are finitely many.                                    *)
LEMMA CallsOnFinite ==
  ASSUME TypeOK, NEW d
  PROVE  IsFiniteSet(CallsOn(d)) /\ Cardinality(CallsOn(d)) \in Nat
<1>1. DOMAIN times = 1 .. Len(times) /\ Len(times) \in Nat
  BY DEF TypeOK
<1>2. IsFiniteSet(1 .. Len(times))
  BY <1>1, FS_Interval
<1>3. CallsOn(d) \in SUBSET (1 .. Len(times))
  BY <1>1 DEF CallsOn
<1>4. IsFiniteSet(CallsOn(d))
  BY <1>2, <1>3, FS_Subset
<1>5. QED
  BY <1>4, FS_CardinalityType

(* No call was granted at the start.                                        *)
LEMMA TallyInit == Init => Tally
<1> SUFFICES ASSUME Init, NEW d \in AllDays
             PROVE  daily[d].count = 0 /\ Cardinality(CallsOn(d)) = 0
  BY DEF Tally
<1>1. CallsOn(d) = {} /\ daily[d].count = 0
  BY DEF Init, CallsOn
<1>2. QED
  BY <1>1, FS_EmptySet

(* Whole seconds are cut off, never more than one.                          *)
LEMMA SecondsLeft ==
  ASSUME NEW x \in Nat
  PROVE  Larger(1, x \div Second) * Second > x - Second
<1>1. x < (x \div Second + 1) * Second
  OBVIOUS
<1>2. x \div Second \in Nat /\ Larger(1, x \div Second) \in Nat
      /\ Larger(1, x \div Second) >= x \div Second
  BY DEF Larger
<1>3. (x \div Second + 1) * Second = (x \div Second) * Second + Second
  BY <1>2
<1>4. Larger(1, x \div Second) * Second >= (x \div Second) * Second
  BY <1>2
<1> DEFINE whole == (x \div Second) * Second
           cut == Larger(1, x \div Second) * Second
<1>5. whole \in Nat /\ cut \in Nat
  BY <1>2
<1>6. x < whole + Second /\ cut >= whole
  BY <1>1, <1>3, <1>4
<1> HIDE DEF whole, cut
<1>7. cut > x - Second
  BY <1>5, <1>6
<1>8. QED
  BY <1>7 DEF cut

(* The key a script starts outlives the hours of the day it was sent on.    *)
LEMMA KeyLasts ==
  ASSUME now \in Nat, NEW t \in Nat, t <= now
  PROVE  now + Ttl(t) \in Nat /\ now + Ttl(t) > (DayOf(t) + 1) * DayLength - Second
<1> DEFINE left == (DayOf(t) + 1) * DayLength - t
           cut == Larger(1, left \div Second) * Second
<1>1. DayOf(t) \in Nat /\ left \in Nat
  BY DayBounds
<1>2. Ttl(t) = cut
  BY DEF Ttl
<1> HIDE DEF left
<1>3. left \div Second \in Nat
  BY <1>1
<1>4. Larger(1, left \div Second) \in Nat
  BY <1>3 DEF Larger
<1>5. cut \in Nat /\ cut > left - Second
  <2>1. Larger(1, left \div Second) * Second > left - Second
    BY <1>1, SecondsLeft
  <2>2. Larger(1, left \div Second) * Second \in Nat
    BY <1>4
  <2>3. QED
    BY <2>1, <2>2
<1> HIDE DEF cut
<1>6. (DayOf(t) + 1) * DayLength \in Nat /\ left = (DayOf(t) + 1) * DayLength - t
  BY <1>1 DEF left
<1>7. QED
  BY <1>1, <1>2, <1>5, <1>6

(* A call in the hours of a day was sent on that day.                       *)
LEMMA SentOnItsDay ==
  ASSUME NEW d \in Nat, NEW t \in Nat, NEW n \in Hours(d), t <= n, n <= t + Lag
  PROVE  DayOf(t) = d
<1>1. d * DayLength \in Nat /\ (d + 1) * DayLength = d * DayLength + DayLength
  OBVIOUS
<1>2. d * DayLength <= t /\ t < (d + 1) * DayLength
  BY <1>1 DEF Hours
<1>3. DayOf(t) \in Nat /\ DayOf(t) * DayLength <= t /\ t < (DayOf(t) + 1) * DayLength
  BY DayBounds
<1>4. DayOf(t) < d + 1 /\ d < DayOf(t) + 1
  BY <1>2, <1>3
<1>5. QED
  BY <1>3, <1>4

(* Every granted call is counted on the day it was sent.                    *)
LEMMA TallyNext == TypeOK /\ OnTime /\ Tally /\ [Next]_vars => Tally'
<1> SUFFICES ASSUME TypeOK, OnTime, Tally, [Next]_vars PROVE Tally'
  OBVIOUS
<1> DEFINE End(d) == (d + 1) * DayLength - Second
<1>0. /\ now \in 0 .. MaxTime /\ now \in Nat /\ times \in Seq(0 .. MaxTime) /\ Len(times) \in Nat
      /\ daily \in [AllDays -> [count : 0 .. DailyCap, expires : Nat]]
      /\ AllDays' = AllDays /\ AllDays \subseteq Nat
      /\ \A d \in Nat : End(d) \in Int
  BY DEF TypeOK, AllDays, DayOf
<1>1. ASSUME NEW c \in Callers, Granted(c) PROVE Tally'
  <2>1. stamp[c] \in 0 .. MaxTime /\ stamp[c] <= now /\ now <= stamp[c] + Lag
    BY <1>1 DEF Granted, OnTime, TypeOK
  <2> PICK day \in AllDays : day = DayOf(stamp[c])
    BY <2>1, DayInRange
  <2>2. stamp[c] \in Nat /\ day \in Nat
    BY <1>0, <2>1
  <2>3. /\ Counted(day) < DailyCap /\ now' = now /\ times' = Append(times, now)
        /\ daily' = [daily EXCEPT ![day] =
                       IF Counted(day) = 0
                       THEN [count |-> 1, expires |-> now + Ttl(stamp[c])]
                       ELSE [count |-> @.count + 1, expires |-> @.expires]]
    BY <1>1 DEF Granted
  <2>4. now + Ttl(stamp[c]) \in Nat /\ now + Ttl(stamp[c]) > End(day)
    <3>1. stamp[c] <= now
      BY <2>1
    <3>2. /\ now + Ttl(stamp[c]) \in Nat
          /\ now + Ttl(stamp[c]) > (DayOf(stamp[c]) + 1) * DayLength - Second
      BY <1>0, <2>2, <3>1, KeyLasts
    <3>3. QED
      BY <3>2
  <2>5. \A d \in AllDays : now \in Hours(d) => d = day
    BY <1>0, <2>1, <2>2, SentOnItsDay
  <2>6. /\ DOMAIN times = 1 .. Len(times) /\ DOMAIN times' = 1 .. (Len(times) + 1)
        /\ \A i \in DOMAIN times : times'[i] = times[i]
        /\ times'[Len(times) + 1] = now
    BY <1>0, <2>3
  <2>7. ASSUME NEW d
        PROVE  CallsOn(d)' = IF now \in Hours(d) THEN CallsOn(d) \cup {Len(times) + 1}
                                                ELSE CallsOn(d)
    <3>1. \A i \in DOMAIN times' : i \in DOMAIN times \/ i = Len(times) + 1
      BY <1>0, <2>6
    <3>2. DOMAIN times \subseteq DOMAIN times' /\ Len(times) + 1 \in DOMAIN times'
      BY <1>0, <2>6
    <3>3. CallsOn(d)' = {i \in DOMAIN times' : times'[i] \in Hours(d)}
      BY DEF CallsOn, Hours
    <3>4. QED
      BY <2>6, <3>1, <3>2, <3>3 DEF CallsOn
  <2>8. ASSUME NEW d, now \in Hours(d)
        PROVE  Cardinality(CallsOn(d)') = Cardinality(CallsOn(d)) + 1
    <3>1. Len(times) + 1 \notin CallsOn(d)
      BY <1>0, <2>6 DEF CallsOn
    <3>2. QED
      BY <2>7, <2>8, <3>1, CallsOnFinite, FS_AddElement
  <2>9. ASSUME NEW d \in AllDays, d # day
        PROVE  daily'[d] = daily[d] /\ CallsOn(d)' = CallsOn(d)
    BY <1>0, <2>3, <2>5, <2>7, <2>9
  <2>10. ASSUME now <= End(day)
         PROVE  /\ Counted(day) = daily[day].count
                /\ daily'[day].count = daily[day].count + 1
                /\ daily'[day].expires > End(day)
    <3>1. daily[day].count \in Nat /\ daily[day].expires \in Nat
      BY <1>0, <2>2
    <3>2. daily[day].count > 0 => daily[day].expires > End(day)
      BY <2>2, <2>10 DEF Tally
    <3>3. Counted(day) = daily[day].count
      BY <1>0, <2>2, <2>10, <3>1, <3>2 DEF Counted
    <3>4. CASE Counted(day) = 0
      <4>1. daily'[day] = [count |-> 1, expires |-> now + Ttl(stamp[c])]
        BY <1>0, <2>2, <2>3, <3>4
      <4>2. QED
        BY <2>4, <3>3, <3>4, <4>1
    <3>5. CASE Counted(day) # 0
      <4>1. daily'[day] = [count |-> daily[day].count + 1, expires |-> daily[day].expires]
        BY <1>0, <2>2, <2>3, <3>5
      <4>2. QED
        BY <3>1, <3>2, <3>3, <3>5, <4>1
    <3>6. QED
      BY <3>4, <3>5
  <2>11. /\ Cardinality(CallsOn(day)') <= DailyCap
         /\ now <= End(day) => /\ Cardinality(CallsOn(day)') <= daily'[day].count
                               /\ daily'[day].expires > End(day)
    <3>1. /\ Cardinality(CallsOn(day)) <= DailyCap
          /\ now <= End(day) => Cardinality(CallsOn(day)) <= daily[day].count
      BY <2>2 DEF Tally
    <3>2. Cardinality(CallsOn(day)) \in Nat /\ daily[day].count \in Nat
      BY <1>0, <2>2, CallsOnFinite
    <3>3. CASE now \in Hours(day)
      <4>1. now <= End(day)
        BY <1>0, <2>2, <3>3 DEF Hours
      <4>2. Cardinality(CallsOn(day)') = Cardinality(CallsOn(day)) + 1
        BY <2>8, <3>3
      <4>3. Counted(day) < DailyCap
        BY <2>3
      <4>4. QED
        BY <2>10, <3>1, <3>2, <4>1, <4>2, <4>3
    <3>4. CASE now \notin Hours(day)
      <4>1. CallsOn(day)' = CallsOn(day)
        BY <2>7, <3>4
      <4>2. QED
        BY <2>10, <3>1, <3>2, <4>1
    <3>5. QED
      BY <3>3, <3>4
  <2>12. ASSUME NEW d \in AllDays
         PROVE  /\ Cardinality(CallsOn(d)') <= DailyCap
                /\ now <= End(d) =>
                     /\ Cardinality(CallsOn(d)') <= daily'[d].count
                     /\ daily'[d].count > 0 => daily'[d].expires > End(d)
    <3>1. CASE d = day
      BY <2>11, <3>1
    <3>2. CASE d # day
      BY <2>9, <3>2 DEF Tally
    <3>3. QED
      BY <3>1, <3>2
  <2>13. QED
    BY <1>0, <2>3, <2>12 DEF Tally
<1>2. ASSUME now' \in {now, now + 1}, UNCHANGED <<daily, times>> PROVE Tally'
  <2>1. \A d : CallsOn(d)' = CallsOn(d)
    BY <1>2 DEF CallsOn, Hours
  <2>2. \A d \in AllDays : now' <= End(d) => now <= End(d)
    BY <1>0, <1>2
  <2>3. QED
    BY <1>0, <1>2, <2>1, <2>2 DEF Tally
<1>3. ASSUME NEW c \in Callers,
             Acquire(c) \/ Retry(c) \/ DayExhausted(c) \/ SlowDown(c) \/ Abandoned(c)
      PROVE  UNCHANGED <<now, daily, times>>
  BY <1>3 DEF Acquire, Retry, DayExhausted, SlowDown, Abandoned, redisvars
<1>4. ASSUME Tick \/ UNCHANGED vars
      PROVE  now' \in {now, now + 1} /\ UNCHANGED <<daily, times>>
  BY <1>4 DEF Tick, vars, redisvars
<1>5. QED
  BY <1>1, <1>2, <1>3, <1>4 DEF Next

(* No day sees more calls than the daily cap, across midnight and the       *)
(* expiry of keys: what a late script or an expiry cut to whole seconds can *)
(* add falls within Lag after midnight or the last second before it.        *)
THEOREM DailyCapKeptHolds == Spec => []DailyCapKept
<1>1. Tally => DailyCapKept
  BY DEF Tally, CallsOn, Hours, DailyCapKept
<1>2. QED
  BY <1>1, TallyInit, TallyNext, OnTimeInit, OnTimeNext, TypeCorrect, PTL DEF Spec

(* With exact clocks and an expiry that is not cut the hours of a day are   *)
(* the whole day.                                                           *)
THEOREM DailyCapOfExactClocks ==
  ASSUME Lag = 0, Second = 1
  PROVE  Spec => [](\A d \in AllDays :
                      Cardinality({i \in DOMAIN times : DayOf(times[i]) = d}) <= DailyCap)
<1> DEFINE Kept == \A d \in AllDays :
                     Cardinality({i \in DOMAIN times : DayOf(times[i]) = d}) <= DailyCap
<1>1. TypeOK /\ Tally => Kept
  <2> SUFFICES ASSUME TypeOK, Tally, NEW d \in AllDays
               PROVE  Cardinality({i \in DOMAIN times : DayOf(times[i]) = d}) <= DailyCap
    OBVIOUS
  <2>1. ASSUME NEW i \in DOMAIN times PROVE DayOf(times[i]) = d <=> times[i] \in Hours(d)
    <3>1. times[i] \in Nat /\ d \in Nat
      BY DEF TypeOK, AllDays
    <3>2. DayOf(times[i]) \in Nat /\ DayOf(times[i]) * DayLength <= times[i]
          /\ times[i] < (DayOf(times[i]) + 1) * DayLength
      BY <3>1, DayBounds
    <3>3. ASSUME DayOf(times[i]) = d PROVE times[i] \in Hours(d)
      <4>1. d * DayLength \in Nat /\ (d + 1) * DayLength \in Nat
        BY <3>1
      <4>2. QED
        BY <3>1, <3>2, <3>3, <4>1 DEF Hours
    <3>4. ASSUME times[i] \in Hours(d) PROVE DayOf(times[i]) = d
      BY <3>1, <3>4, SentOnItsDay
    <3>5. QED
      BY <3>3, <3>4
  <2>2. {i \in DOMAIN times : DayOf(times[i]) = d} = CallsOn(d)
    BY <2>1 DEF CallsOn
  <2>3. QED
    BY <2>2 DEF Tally
<1>2. QED
  BY <1>1, TallyInit, TallyNext, OnTimeInit, OnTimeNext, TypeCorrect, PTL DEF Spec
--------------------------------------------------------------------------------
(* Whoever sleeps while nobody is granted a call finds its token when it    *)
(* wakes: for the clock it will send, or has sent, the bucket holds one.    *)
Rested ==
  \A c \in Callers : seen[c] = Len(times) =>
    /\ pc[c] = "sleeping" => Refilled(wake[c]) >= Cost
    /\ pc[c] = "asked" => Refilled(stamp[c]) >= Cost

(* Nobody sleeps at the start.                                              *)
LEMMA RestedInit == Init => Rested
  BY DEF Init, Rested

(* The advice is rounded up.                                                *)
LEMMA AdviceCovers ==
  ASSUME NEW u \in Int, u < Cost
  PROVE  u + Larger(1, Advice(u)) * Refill >= Cost
<1>1. Cost - u + (Refill - 1) \in Nat
  OBVIOUS
<1>2. ASSUME NEW y \in Nat PROVE y < (y \div Refill + 1) * Refill
  OBVIOUS
<1>3. Cost - u + Refill - 1 < (Advice(u) + 1) * Refill
  BY <1>1, <1>2 DEF Advice
<1>4. Advice(u) \in Int /\ Larger(1, Advice(u)) \in Int /\ Larger(1, Advice(u)) >= Advice(u)
  BY AdviceInt DEF Larger
<1>5. (Advice(u) + 1) * Refill = Advice(u) * Refill + Refill
  BY <1>4
<1>6. Larger(1, Advice(u)) * Refill >= Advice(u) * Refill
  BY <1>4
<1>7. Advice(u) * Refill \in Int /\ Larger(1, Advice(u)) * Refill \in Int
  BY <1>4
<1>8. QED
  BY <1>3, <1>5, <1>6, <1>7

(* What the script finds in a bucket left with so many tokens at time last. *)
Bucket(held, last, t) ==
  IF held = -1 THEN Full ELSE Smaller(Full, held + Larger(0, t - last) * Refill)

LEMMA BucketBounds ==
  ASSUME NEW held \in -1 .. Full, NEW last \in -1 .. MaxTime, NEW t \in Nat
  PROVE  Bucket(held, last, t) \in 0 .. Full /\ Bucket(held, last, t) \in Int
<1>1. Larger(0, t - last) \in Nat
  BY DEF Larger
<1>2. Larger(0, t - last) * Refill \in Nat
  BY <1>1
<1>3. QED
  BY <1>2, FullBounds DEF Bucket, Smaller

(* A refused call takes nothing from the bucket, whatever clock it sends:   *)
(* one behind ts sets ts back, so that later clocks find more, not less.    *)
LEMMA RefusalTakesNothing ==
  ASSUME NEW held \in -1 .. Full, NEW last \in -1 .. MaxTime, NEW s \in 0 .. MaxTime,
         NEW t \in Nat
  PROVE  Bucket(Bucket(held, last, s), s, t) >= Bucket(held, last, t)
<1> DEFINE a == Larger(0, s - last)
           b == Larger(0, t - s)
           e == Larger(0, t - last)
           rs == Bucket(held, last, s)
           rt == Bucket(held, last, t)
           rn == Bucket(Bucket(held, last, s), s, t)
<1>1. a \in Nat /\ b \in Nat /\ e \in Nat /\ e <= a + b
  BY DEF Larger
<1>2. rs \in 0 .. Full /\ rt \in 0 .. Full /\ Full \in Nat
  <2>1. s \in Nat
    OBVIOUS
  <2>2. rs \in 0 .. Full /\ rt \in 0 .. Full
    BY <2>1, BucketBounds
  <2>3. QED
    BY <2>2, FullBounds
<1>3. /\ rs = IF held = -1 THEN Full ELSE Smaller(Full, held + a * Refill)
      /\ rt = IF held = -1 THEN Full ELSE Smaller(Full, held + e * Refill)
  BY DEF Bucket
<1>4. rs # -1
  BY <1>2
<1>5. rn = Smaller(Full, rs + b * Refill)
  BY <1>4 DEF Bucket
<1> HIDE DEF a, b, e, rs, rt, rn
<1> DEFINE ar == a * Refill
           br == b * Refill
           er == e * Refill
<1>6. ar \in Nat /\ br \in Nat /\ er \in Nat
  BY <1>1
<1>7. er <= ar + br
  <2>1. e * Refill <= (a + b) * Refill
    BY <1>1
  <2>2. (a + b) * Refill = a * Refill + b * Refill
    BY <1>1
  <2>3. QED
    BY <2>1, <2>2
<1>8. /\ rs = IF held = -1 THEN Full ELSE Smaller(Full, held + ar)
      /\ rt = IF held = -1 THEN Full ELSE Smaller(Full, held + er)
      /\ rn = Smaller(Full, rs + br)
  BY <1>3, <1>5
<1> HIDE DEF ar, br, er
<1>9. rn >= rt
  BY <1>2, <1>6, <1>7, <1>8 DEF Smaller
<1>10. QED
  BY <1>9 DEF rn, rt

(* The advised wait refills what is missing.                                *)
LEMMA AdviceRefills ==
  ASSUME NEW u \in 0 .. Full, u < Cost, NEW s \in Nat, NEW w \in Nat,
         w >= s + Larger(1, Advice(u))
  PROVE  Bucket(u, s, w) >= Cost
<1> DEFINE advice == Larger(1, Advice(u))
           slept == Larger(0, w - s)
<1>1. Full \in Nat /\ Full >= Cost /\ u \in Int /\ u # -1
  BY FullBounds
<1>2. Bucket(u, s, w) = Smaller(Full, u + slept * Refill)
  BY <1>1 DEF Bucket
<1>3. advice \in Nat /\ u + advice * Refill >= Cost
  BY <1>1, AdviceInt, AdviceCovers
<1>4. w >= s + advice
  OBVIOUS
<1> HIDE DEF advice
<1>5. slept \in Nat /\ slept >= advice
  BY <1>3, <1>4 DEF Larger
<1> HIDE DEF slept
<1> DEFINE earned == slept * Refill
           due == advice * Refill
<1>6. earned \in Nat /\ due \in Nat /\ earned >= due
  BY <1>3, <1>5
<1>7. u + due >= Cost /\ Bucket(u, s, w) = Smaller(Full, u + earned)
  BY <1>2, <1>3
<1> HIDE DEF earned, due
<1>8. QED
  BY <1>1, <1>6, <1>7 DEF Smaller

(* Every step keeps the promise of the advice.                              *)
LEMMA RestedNext == TypeOK /\ OnTime /\ Rested /\ [Next]_vars => Rested'
<1> SUFFICES ASSUME TypeOK, OnTime, Rested, [Next]_vars,
                    NEW k \in Callers, seen'[k] = Len(times')
             PROVE  /\ pc'[k] = "sleeping" => Bucket(tokens', ts', wake'[k]) >= Cost
                    /\ pc'[k] = "asked" => Bucket(tokens', ts', stamp'[k]) >= Cost
  BY DEF Rested, Refilled, Bucket
<1> DEFINE Fine == /\ pc'[k] = "sleeping" => Bucket(tokens', ts', wake'[k]) >= Cost
                   /\ pc'[k] = "asked" => Bucket(tokens', ts', stamp'[k]) >= Cost
<1>10. ASSUME seen[k] = Len(times)
       PROVE  /\ pc[k] = "sleeping" => Bucket(tokens, ts, wake[k]) >= Cost
              /\ pc[k] = "asked" => Bucket(tokens, ts, stamp[k]) >= Cost
  BY <1>10 DEF Rested, Refilled, Bucket
<1>0. /\ now \in Nat /\ tokens \in -1 .. Full /\ ts \in -1 .. MaxTime
      /\ times \in Seq(0 .. MaxTime) /\ Len(times) \in Nat
      /\ \A c \in Callers : stamp[c] \in Nat /\ wake[c] \in Nat
      /\ pc \in [Callers -> {"idle", "asked", "sleeping"}]
  BY DEF TypeOK
<1>1. seen[k] \in Int /\ seen[k] <= Len(times)
  <2>1. DOMAIN times = 1 .. Len(times)
    BY <1>0
  <2>2. seen[k] \in {-1} \cup DOMAIN times \cup {0}
    BY DEF TypeOK
  <2>3. QED
    BY <1>0, <2>1, <2>2
<1>2. CASE /\ pc'[k] = pc[k] /\ seen'[k] = seen[k] /\ wake'[k] = wake[k] /\ stamp'[k] = stamp[k]
           /\ UNCHANGED <<tokens, ts, times>>
  BY <1>2, <1>10
<1>3. ASSUME NEW c \in Callers, Acquire(c) PROVE Fine
  <2>1. k # c
    BY <1>0, <1>3 DEF Acquire, TypeOK
  <2>2. QED
    BY <1>2, <1>3, <2>1 DEF Acquire, TypeOK, redisvars
<1>4. ASSUME NEW c \in Callers, Retry(c) PROVE Fine
  <2>1. CASE k # c
    BY <1>2, <1>4, <2>1 DEF Retry, TypeOK, redisvars
  <2>2. CASE k = c
    <3>1. /\ pc[k] = "sleeping" /\ stamp'[k] = wake[k] /\ pc'[k] = "asked"
          /\ UNCHANGED <<tokens, ts, times, seen>>
      BY <1>4, <2>2 DEF Retry, TypeOK, redisvars
    <3>2. QED
      BY <1>10, <3>1
  <2>3. QED
    BY <2>1, <2>2
<1>5. ASSUME NEW c \in Callers, Granted(c) PROVE FALSE
  <2>1. seen' = seen /\ times' = Append(times, now)
    BY <1>5 DEF Granted, Leave, AnswerLost, callervars
  <2>2. Len(times') = Len(times) + 1
    BY <1>0, <2>1
  <2>3. QED
    BY <1>0, <1>1, <2>1, <2>2
<1>6. ASSUME NEW c \in Callers, DayExhausted(c) \/ Abandoned(c) PROVE Fine
  <2>1. CASE k # c
    BY <1>2, <1>6, <2>1 DEF DayExhausted, Abandoned, Leave, TypeOK, redisvars
  <2>2. CASE k = c
    BY <1>6, <2>2 DEF DayExhausted, Abandoned, Leave, TypeOK
  <2>3. QED
    BY <2>1, <2>2
<1>7. ASSUME NEW c \in Callers, SlowDown(c) PROVE Fine
  <2> DEFINE u == Bucket(tokens, ts, stamp[c])
             advice == Larger(1, Advice(u))
  <2>1. Refilled(stamp[c]) = u
    BY DEF Refilled, Bucket
  <2>2. /\ pc[c] = "asked" /\ ts' = stamp[c] /\ tokens' = u /\ times' = times /\ u < Cost
    BY <1>7, <2>1 DEF SlowDown
  <2>3. \/ Leave(c) \/ AnswerLost
        \/ /\ pc' = [pc EXCEPT ![c] = "sleeping"]
           /\ wake' = [wake EXCEPT ![c] = now + advice]
           /\ seen' = [seen EXCEPT ![c] = Len(times)]
           /\ UNCHANGED stamp
    BY <1>7, <2>1 DEF SlowDown
  <2>4. stamp[c] \in 0 .. MaxTime /\ stamp[c] \in Nat /\ stamp[c] <= now
    BY <2>2 DEF OnTime, TypeOK
  <2>5. u \in 0 .. Full /\ u \in Int
    BY <1>0, <2>4, BucketBounds
  <2>6. advice \in Nat
    BY <2>5, AdviceInt
  <2>7. now + advice \in Nat /\ now + advice >= stamp[c] + advice
    BY <1>0, <2>4, <2>6
  <2>8. Bucket(tokens', ts', now + advice) >= Cost
    BY <2>2, <2>4, <2>5, <2>7, AdviceRefills
  <2>9. ASSUME NEW t \in Nat, Bucket(tokens, ts, t) >= Cost
        PROVE  Bucket(tokens', ts', t) >= Cost
    <3>1. Bucket(tokens', ts', t) >= Bucket(tokens, ts, t)
      BY <1>0, <2>2, <2>4, RefusalTakesNothing
    <3>2. Bucket(tokens, ts, t) \in Int
      BY <1>0, BucketBounds
    <3>3. tokens' \in -1 .. Full /\ ts' \in -1 .. MaxTime
      BY <2>2, <2>4, <2>5
    <3>4. Bucket(tokens', ts', t) \in Int
      BY <3>3, BucketBounds
    <3>5. QED
      BY <2>9, <3>1, <3>2, <3>4
  <2> HIDE DEF u, advice
  <2>10. CASE k # c
    <3>1. pc'[k] = pc[k] /\ wake'[k] = wake[k] /\ seen'[k] = seen[k] /\ stamp'[k] = stamp[k]
      BY <2>3, <2>10 DEF Leave, AnswerLost, callervars, TypeOK
    <3>2. stamp[k] \in Nat /\ wake[k] \in Nat
      BY <1>0
    <3>3. QED
      BY <1>10, <2>2, <2>9, <3>1, <3>2
  <2>11. CASE k = c /\ Leave(c)
    BY <2>11 DEF Leave, TypeOK
  <2>12. CASE k = c /\ AnswerLost
    <3>1. pc'[k] = "asked" /\ stamp'[k] = stamp[k] /\ seen'[k] = seen[k]
      BY <2>2, <2>12 DEF AnswerLost, callervars
    <3>2. QED
      BY <1>10, <2>2, <2>4, <2>9, <2>12, <3>1
  <2>13. CASE k = c /\ ~Leave(c) /\ ~AnswerLost
    <3>1. pc'[k] = "sleeping" /\ wake'[k] = now + advice
      BY <2>3, <2>13 DEF TypeOK
    <3>2. QED
      BY <2>8, <3>1
  <2>14. QED
    BY <2>10, <2>11, <2>12, <2>13
<1>8. ASSUME Tick \/ UNCHANGED vars PROVE Fine
  BY <1>2, <1>8 DEF Tick, vars, callervars, redisvars
<1>9. QED
  BY <1>3, <1>4, <1>5, <1>6, <1>7, <1>8 DEF Next

(* The advised sleep is enough, however late the scripts run: a caller is   *)
(* told to sleep again only after another call was granted while it slept,  *)
(* or its own without it knowing.                                           *)
THEOREM AdviceSufficesHolds == Spec => AdviceSuffices
<1>1. ASSUME TypeOK, Rested, [Next]_vars
      PROVE  [\A c \in Callers : waited'[c] > waited[c] => seen[c] # Len(times)]_vars
  <2> SUFFICES ASSUME Next, NEW k \in Callers, waited'[k] > waited[k], seen[k] = Len(times)
               PROVE  FALSE
    BY <1>1
  <2>1. waited[k] \in Nat /\ stamp[k] \in Nat
    BY <1>1 DEF TypeOK
  <2>2. ASSUME NEW c \in Callers, SlowDown(c), k = c PROVE FALSE
    <3>1. pc[k] = "asked" /\ Refilled(stamp[k]) < Cost
      BY <2>2 DEF SlowDown
    <3>2. Refilled(stamp[k]) >= Cost
      BY <1>1, <3>1 DEF Rested
    <3>3. Refilled(stamp[k]) \in 0 .. Full
      BY <1>1, <2>1, RefilledBounds DEF TypeOK
    <3>4. QED
      BY <3>1, <3>2, <3>3, FullBounds
  <2>3. ASSUME NEW c \in Callers, SlowDown(c), k # c PROVE waited'[k] = waited[k]
    BY <1>1, <2>3 DEF SlowDown, Leave, AnswerLost, callervars, TypeOK
  <2>4. ASSUME NEW c \in Callers, Acquire(c) PROVE waited'[k] = waited[k] \/ waited'[k] = 0
    BY <1>1, <2>4 DEF Acquire, TypeOK
  <2>5. ASSUME NEW c \in Callers, Retry(c) \/ Granted(c) \/ DayExhausted(c) \/ Abandoned(c)
        PROVE  waited'[k] = waited[k]
    BY <2>5 DEF Retry, Granted, DayExhausted, Abandoned, Leave, AnswerLost, callervars
  <2>6. ASSUME Tick PROVE waited'[k] = waited[k]
    BY <2>6 DEF Tick, callervars
  <2>7. QED
    BY <2>1, <2>2, <2>3, <2>4, <2>5, <2>6 DEF Next
<1>2. QED
  BY <1>1, RestedInit, RestedNext, OnTimeInit, OnTimeNext, TypeCorrect,
     PTL DEF Spec, AdviceSuffices
================================================================================
