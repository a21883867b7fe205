------------------------------ MODULE RateLimiter ------------------------------
(***************************************************************************)
(* GeminiRateLimiter: coroutines (of one or several processes) share a      *)
(* token bucket and a daily counter in Redis.  acquire reads the clock,     *)
(* sends it with the Lua script, and sleeps and tries again as advised.     *)
(* The script is atomic; reading the clock and running it is not.           *)
(*                                                                         *)
(* Time is in ticks (a tick stands for the script's millisecond).  Tokens   *)
(* are counted in units so that a tick refills Refill units and a call      *)
(* costs Cost units: the script's fractions without its floating point.     *)
(***************************************************************************)
EXTENDS Integers, Sequences, FiniteSets

CONSTANTS
  Callers,    \* coroutines inside acquire
  Capacity,   \* capacity of the bucket, in calls
  Refill,     \* units a tick refills
  Cost,       \* units of one call
  MaxWait,    \* max_wait_seconds, in ticks
  DailyCap,   \* daily_cap
  DayLength,  \* ticks from one KST midnight to the next
  Second,     \* ticks of a second, the resolution of EXPIRE
  Lag,        \* a script runs within so many ticks after its clock was read
  MaxTime     \* bound of the clock

ASSUME LimiterAssumption ==
  /\ {Capacity, Refill, Cost, DailyCap, DayLength, Second} \subseteq Nat \ {0}
  /\ {MaxWait, Lag, MaxTime} \subseteq Nat

VARIABLES
  now,     \* the clock
  pc,      \* pc[c]: idle, asked (script under way), sleeping
  stamp,   \* stamp[c]: the clock as c read it, sent with its script
  began,   \* began[c]: when acquire was entered
  waited,  \* waited[c]: sum of the sleeps of this acquire
  wake,    \* wake[c]: when the sleep of c ends
  tokens,  \* gemini:tokens, field tokens, in units (-1: no such key)
  ts,      \* gemini:tokens, field ts
  daily,   \* daily[d]: gemini:daily:<d>, a count and when it expires
  times,   \* history: when each call was granted, answered or not
  seen     \* history: Len(times) when c went to sleep (-1: it did not sleep yet)

callervars == <<pc, stamp, began, waited, wake, seen>>
redisvars == <<tokens, ts, daily>>
vars == <<now, callervars, redisvars, times>>

DayOf(t) == t \div DayLength

AllDays == 0 .. DayOf(MaxTime)

Full == Capacity * Cost

Smaller(a, b) == IF a <= b THEN a ELSE b

Larger(a, b) == IF a >= b THEN a ELSE b

--------------------------------------------------------------------------------
Init ==
  /\ now = 0
  /\ pc = [c \in Callers |-> "idle"]
  /\ stamp = [c \in Callers |-> 0]
  /\ began = [c \in Callers |-> 0]
  /\ waited = [c \in Callers |-> 0]
  /\ wake = [c \in Callers |-> 0]
  /\ seen = [c \in Callers |-> -1]
  /\ tokens = -1
  /\ ts = -1
  /\ daily = [d \in AllDays |-> [count |-> 0, expires |-> 0]]
  /\ times = << >>

(* acquire is entered: the clock is read, the script sent.                  *)
Acquire(c) ==
  /\ pc[c] = "idle"
  /\ pc' = [pc EXCEPT ![c] = "asked"]
  /\ stamp' = [stamp EXCEPT ![c] = now]
  /\ began' = [began EXCEPT ![c] = now]
  /\ waited' = [waited EXCEPT ![c] = 0]
  /\ seen' = [seen EXCEPT ![c] = -1]
  /\ UNCHANGED <<now, wake, redisvars, times>>

(* The sleep is over: the loop reads the clock again.                       *)
Retry(c) ==
  /\ pc[c] = "sleeping"
  /\ now = wake[c]
  /\ pc' = [pc EXCEPT ![c] = "asked"]
  /\ stamp' = [stamp EXCEPT ![c] = now]
  /\ UNCHANGED <<now, began, waited, wake, seen, redisvars, times>>
--------------------------------------------------------------------------------
(* The script, with the clock and the day the caller sent.  Its answer can  *)
(* be lost with the connection: the Redis client then sends the same script *)
(* again, as often as it is set to, and the caller notices nothing.         *)

(* The counter of the day of that clock; an expired key counts nothing.     *)
Counted(d) == IF now < daily[d].expires THEN daily[d].count ELSE 0

(* Tokens after the refill up to time t; a missing bucket is full, a clock  *)
(* behind ts refills nothing.                                               *)
Refilled(t) ==
  IF tokens = -1 THEN Full ELSE Smaller(Full, tokens + Larger(0, t - ts) * Refill)

(* _seconds_until_kst_midnight: whole seconds, at least one.                *)
Ttl(t) ==
  LET left == (DayOf(t) + 1) * DayLength - t
  IN Larger(1, left \div Second) * Second

(* Mutant: the wait is rounded down.                                        *)
AdviceFloor(u) == (Cost - u) \div Refill

(* The advised wait, rounded up.                                            *)
Advice(u) == (Cost - u + Refill - 1) \div Refill

Leave(c) ==
  /\ pc' = [pc EXCEPT ![c] = "idle"]
  /\ UNCHANGED <<stamp, began, waited, wake, seen>>

AnswerLost == UNCHANGED callervars

(* Mutant: every call starts the key of the day anew.                       *)
GrantedUncounted(c) ==
  /\ pc[c] = "asked"
  /\ Counted(DayOf(stamp[c])) < DailyCap
  /\ Refilled(stamp[c]) >= Cost
  /\ tokens' = Refilled(stamp[c]) - Cost
  /\ ts' = stamp[c]
  /\ daily' = [daily EXCEPT ![DayOf(stamp[c])] =
                 [count |-> 1, expires |-> now + Ttl(stamp[c])]]
  /\ times' = Append(times, now)
  /\ Leave(c) \/ AnswerLost
  /\ UNCHANGED now

(* ok: a token and a count are taken; the first count of a key sets its     *)
(* expiry.                                                                  *)
Granted(c) ==
  /\ pc[c] = "asked"
  /\ Counted(DayOf(stamp[c])) < DailyCap
  /\ Refilled(stamp[c]) >= Cost
  /\ tokens' = Refilled(stamp[c]) - Cost
  /\ ts' = stamp[c]
  /\ daily' = [daily EXCEPT ![DayOf(stamp[c])] =
                 IF Counted(DayOf(stamp[c])) = 0
                 THEN [count |-> 1, expires |-> now + Ttl(stamp[c])]
                 ELSE [count |-> @.count + 1, expires |-> @.expires]]
  /\ times' = Append(times, now)
  /\ Leave(c) \/ AnswerLost
  /\ UNCHANGED now

(* rpd: GeminiQuotaError("gemini_rpd_exceeded"), nothing is taken.          *)
DayExhausted(c) ==
  /\ pc[c] = "asked"
  /\ Counted(DayOf(stamp[c])) >= DailyCap
  /\ Leave(c)
  /\ UNCHANGED <<now, redisvars, times>>

(* Mutant: only the last sleep is remembered.                               *)
SlowDownForgetful(c) ==
  LET advice == Larger(1, Advice(Refilled(stamp[c])))
  IN /\ pc[c] = "asked"
     /\ Counted(DayOf(stamp[c])) < DailyCap
     /\ Refilled(stamp[c]) < Cost
     /\ tokens' = Refilled(stamp[c])
     /\ ts' = stamp[c]
     /\ advice <= MaxWait
     /\ pc' = [pc EXCEPT ![c] = "sleeping"]
     /\ wake' = [wake EXCEPT ![c] = now + advice]
     /\ waited' = [waited EXCEPT ![c] = advice]
     /\ seen' = [seen EXCEPT ![c] = Len(times)]
     /\ UNCHANGED <<now, stamp, began, daily, times>>

(* Mutant: the script notes the tokens of a refused call but not its time.  *)
SlowDownKeepsTs(c) ==
  LET advice == Larger(1, Advice(Refilled(stamp[c])))
  IN /\ pc[c] = "asked"
     /\ Counted(DayOf(stamp[c])) < DailyCap
     /\ Refilled(stamp[c]) < Cost
     /\ tokens' = Refilled(stamp[c])
     /\ \/ AnswerLost
        \/ waited[c] + advice > MaxWait /\ Leave(c)
        \/ /\ waited[c] + advice <= MaxWait
           /\ pc' = [pc EXCEPT ![c] = "sleeping"]
           /\ wake' = [wake EXCEPT ![c] = now + advice]
           /\ waited' = [waited EXCEPT ![c] = @ + advice]
           /\ seen' = [seen EXCEPT ![c] = Len(times)]
           /\ UNCHANGED <<stamp, began>>
     /\ UNCHANGED <<now, ts, daily, times>>

(* wait: the refill is noted, nothing is taken; the caller sleeps, or       *)
(* raises gemini_rpm_exceeded when that would be too much in total.         *)
SlowDown(c) ==
  LET advice == Larger(1, Advice(Refilled(stamp[c])))
  IN /\ pc[c] = "asked"
     /\ Counted(DayOf(stamp[c])) < DailyCap
     /\ Refilled(stamp[c]) < Cost
     /\ tokens' = Refilled(stamp[c])
     /\ ts' = stamp[c]
     /\ \/ AnswerLost
        \/ waited[c] + advice > MaxWait /\ Leave(c)
        \/ /\ waited[c] + advice <= MaxWait
           /\ pc' = [pc EXCEPT ![c] = "sleeping"]
           /\ wake' = [wake EXCEPT ![c] = now + advice]
           /\ waited' = [waited EXCEPT ![c] = @ + advice]
           /\ seen' = [seen EXCEPT ![c] = Len(times)]
           /\ UNCHANGED <<stamp, began>>
     /\ UNCHANGED <<now, daily, times>>

(* Redis cannot be reached and acquire raises, or its job is cancelled while*)
(* it waits for the script or sleeps.  What the script took stays taken.    *)
Abandoned(c) ==
  /\ pc[c] # "idle"
  /\ Leave(c)
  /\ UNCHANGED <<now, redisvars, times>>
--------------------------------------------------------------------------------
(* Time passes unless a script or a timer is due.                           *)
Tick ==
  /\ now < MaxTime
  /\ \A c \in Callers : pc[c] = "asked" => now < stamp[c] + Lag
  /\ \A c \in Callers : pc[c] = "sleeping" => now < wake[c]
  /\ now' = now + 1
  /\ UNCHANGED <<callervars, redisvars, times>>

Next ==
  \/ \E c \in Callers : \/ Acquire(c) \/ Retry(c)
                        \/ Granted(c) \/ DayExhausted(c) \/ SlowDown(c)
                        \/ Abandoned(c)
  \/ Tick

Spec == Init /\ [][Next]_vars
--------------------------------------------------------------------------------
TypeOK ==
  /\ now \in 0 .. MaxTime
  /\ pc \in [Callers -> {"idle", "asked", "sleeping"}]
  /\ stamp \in [Callers -> 0 .. MaxTime] /\ began \in [Callers -> 0 .. MaxTime]
  /\ waited \in [Callers -> 0 .. MaxWait]
  /\ wake \in [Callers -> Nat]
  /\ tokens \in -1 .. Full
  /\ ts \in -1 .. MaxTime
  /\ daily \in [AllDays -> [count : 0 .. DailyCap, expires : Nat]]
  /\ times \in Seq(0 .. MaxTime)
  /\ seen \in [Callers -> {-1} \cup DOMAIN times \cup {0}]

(* The bucket's law: however the callers interleave, poll and wait, the     *)
(* calls of any stretch of time are at most a full bucket and what was      *)
(* refilled meanwhile (capacity and refill of the module's docstring).  A   *)
(* script that runs late may answer for the time its clock was read.        *)
BucketLaw ==
  \A i, k \in DOMAIN times :
    i <= k => (k - i + 1) * Cost <= Full + (times[k] - times[i] + Lag) * Refill

(* No day sees more calls than the daily cap, across midnight and the       *)
(* expiry of the day's key: from when no script of the day before can still *)
(* run until the key may expire, whole seconds before the next midnight.    *)
DailyCapKept ==
  \A d \in AllDays :
    Cardinality({i \in DOMAIN times :
      times[i] \in d * DayLength + Lag .. (d + 1) * DayLength - Second}) <= DailyCap

(* acquire does not hold up its job for longer than max_wait_seconds in     *)
(* all, however often other callers take the token it was waiting for, but  *)
(* for the time its scripts themselves take.                                *)
AcquireBounded ==
  \A c \in Callers : pc[c] # "idle" => now - began[c] <= MaxWait + (MaxWait + 1) * Lag

(* The advised sleep is enough: a caller is sent to sleep again only if     *)
(* another call was granted while it slept, or its own without it knowing.  *)
AdviceSuffices ==
  [][\A c \in Callers : waited'[c] > waited[c] => seen[c] # Len(times)]_vars
================================================================================
