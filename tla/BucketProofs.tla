----------------------------- MODULE BucketProofs ----------------------------
(***************************************************************************)
(* The rate limit holds for every rate, capacity and sequence of requests. *)
(* The argument: what has been granted since the mark and what is left in  *)
(* the bucket never exceed a full bucket and the inflow since the mark;    *)
(* before the first refill after the mark nothing has been granted.        *)
(* Then the same bucket access by access, as one thread uses it.           *)
(***************************************************************************)
EXTENDS TokenBucket, TLAPS

Accounted ==
    /\ last < mark => since = 0
    /\ last >= mark => since + tokens <= Capacity + Rate * (last - mark)

IInv == TypeOK /\ Accounted

\* Inflow adds up over adjacent stretches of time, and is never negative.
LEMMA Inflow ==
    ASSUME NEW r \in Nat, NEW i \in Nat, NEW j \in Nat, NEW k \in Nat, i <= j, j <= k
    PROVE  /\ r * (k - i) = r * (k - j) + r * (j - i)
           /\ r * (k - j) = (k - j) * r
           /\ r * (k - j) \in Nat
<1>1. PICK a \in Nat : a = k - j
  OBVIOUS
<1>2. PICK b \in Nat : b = j - i
  OBVIOUS
<1>3. k - i = a + b
  BY <1>1, <1>2
<1>4. r * (a + b) = r * a + r * b /\ r * a = a * r /\ r * a \in Nat
  OBVIOUS
<1>5. QED BY <1>1, <1>2, <1>3, <1>4

\* A refill keeps the bucket within its capacity and within the account.
LEMMA LevelBounds ==
    ASSUME IInv
    PROVE  /\ Level \in Nat
           /\ Level <= Capacity
           /\ since + Level <= Capacity + Rate * (now - mark)
<1> USE BucketAssumption DEF IInv, TypeOK, Accounted
<1>1. (now - last) * Rate \in Nat
  BY Inflow
<1>2. Level \in Nat /\ Level <= Capacity /\ Level <= tokens + (now - last) * Rate
  BY <1>1 DEF Level
<1>3. CASE last < mark
  BY <1>2, <1>3, Inflow
<1>4. CASE last >= mark
  <2>1. Rate * (now - mark) = (now - last) * Rate + Rate * (last - mark)
    BY <1>4, Inflow
  <2>2. Rate * (last - mark) \in Nat
    BY <1>4, Inflow
  <2>3. QED BY <1>1, <1>2, <1>4, <2>1, <2>2
<1>5. QED BY <1>2, <1>3, <1>4

\* A sleep is a whole number of ticks.
LEMMA WaitTyped ==
    ASSUME NEW n \in Int
    PROVE  Wait(n) \in Nat
<1>1. CASE n <= 0
  BY <1>1 DEF Wait
<1>2. CASE n > 0
  <2>1. (n + Rate - 1) \in Nat /\ Rate \in Nat \ {0}
    BY <1>2, BucketAssumption
  <2>2. \A a \in Nat, b \in Nat \ {0} : a \div b \in Nat
    OBVIOUS
  <2>3. QED BY <1>2, <2>1, <2>2 DEF Wait
<1>3. QED BY <1>1, <1>2

\* A new bucket is accounted for.
LEMMA BucketInit == Init => IInv
BY BucketAssumption DEF Init, IInv, TypeOK, Accounted

\* Every step keeps the account.
LEMMA BucketNext == IInv /\ [Next]_vars => IInv'
<1> SUFFICES ASSUME IInv, [Next]_vars PROVE IInv'
  OBVIOUS
<1> USE BucketAssumption DEF IInv, TypeOK, Accounted
\* Granting and refusing both refill first.
<1>1. ASSUME NEW n \in Nat, Take(n) \/ Refuse(n), UNCHANGED <<now, wakeAt, mark>>
      PROVE  Accounted' /\ tokens' \in 0..Capacity /\ last' \in 0..now /\ since' \in Nat
             /\ outcome' \in {"granted", "refused"}
  BY <1>1, LevelBounds DEF Take, Refuse
<1>2. ASSUME NEW n \in Requests, Call(n) PROVE IInv'
  <2>1. CASE TryAcquire(n)
    BY <1>1, <1>2, <2>1 DEF TryAcquire
  <2>2. CASE Overdraw(n) \/ Acquire(n)
    BY <1>2, <2>2 DEF Overdraw, Acquire
  <2>3. QED BY <1>2, <2>1, <2>2 DEF Call
<1>3. CASE Attempt
  BY <1>1, <1>3 DEF Attempt
<1>4. CASE Doze
  <2>1. Accounted' /\ tokens' \in 0..Capacity /\ last' \in 0..now
    BY <1>4, LevelBounds DEF Doze
  <2>2. wakeAt' \in Nat
    BY <1>4, LevelBounds, WaitTyped DEF Doze
  <2>3. QED BY <1>4, <2>1, <2>2 DEF Doze
<1>5. CASE Wake
  BY <1>5 DEF Wake
<1>6. CASE Tick
  BY <1>6 DEF Tick
<1>7. CASE Watch
  <2>1. last < now \/ last = now
    OBVIOUS
  <2>2. Rate * (now - now) = 0
    OBVIOUS
  <2>3. QED BY <1>7, <2>1, <2>2 DEF Watch
<1>8. CASE UNCHANGED vars
  BY <1>8 DEF vars
<1>9. QED BY <1>2, <1>3, <1>4, <1>5, <1>6, <1>7, <1>8 DEF Next, Advance

\* For every rate, capacity and sequence of calls: no window of time sees more
\* granted than a full bucket and the window's inflow.
THEOREM RateLimit == Spec => []WindowBounded
<1>1. IInv => WindowBounded
  <2> SUFFICES ASSUME IInv PROVE WindowBounded
    OBVIOUS
  <2>1. since + Level <= Capacity + Rate * (now - mark) /\ Level \in Nat
    BY LevelBounds
  <2>2. Rate * (now - mark) \in Nat
    BY Inflow, BucketAssumption DEF IInv, TypeOK, Accounted
  <2>3. QED BY <2>1, <2>2, BucketAssumption DEF WindowBounded, IInv, TypeOK
<1>2. QED BY <1>1, BucketInit, BucketNext, PTL DEF Spec

\* For every instance: the level stays between nothing and a full bucket, neither the
\* last refill nor the mark is ahead of the clock, and no amount is negative.
THEOREM BucketTyped == Spec => []TypeOK
<1>1. IInv => TypeOK
  BY DEF IInv
<1>2. QED BY <1>1, BucketInit, BucketNext, PTL DEF Spec

(***************************************************************************)
(* The length of a sleep.  While a call sleeps its bucket is untouched, so *)
(* the sleep still ends where it was set to end: as many ticks after the   *)
(* last refill as the shortfall needs.                                     *)
(***************************************************************************)
Sleeping ==
    /\ pc # "idle" => want <= Capacity
    /\ pc = "asleep" => wakeAt = last + Wait(want - tokens)

\* Wait is the number of ticks rounded up, neither more nor less.
LEMMA WaitExact ==
    ASSUME NEW n \in Int, NEW d \in Nat
    PROVE  d >= Wait(n) <=> d * Rate >= n
<1> USE BucketAssumption
<1>1. CASE n <= 0
  <2>1. d * Rate >= 0
    BY \A x, y \in Nat : x * y >= 0
  <2>2. QED BY <1>1, <2>1 DEF Wait
<1>2. CASE n > 0
  <2> DEFINE q == (n + Rate - 1) \div Rate
  <2>1. /\ q \in Int
        /\ Rate * q <= n + Rate - 1
        /\ n + Rate - 1 < Rate * q + Rate
    <3>1. \A a \in Int, r \in Nat \ {0} :
            /\ a \div r \in Int
            /\ r * (a \div r) <= a
            /\ a < r * (a \div r) + r
      OBVIOUS
    <3>2. n + Rate - 1 \in Int
      OBVIOUS
    <3>3. QED BY <3>1, <3>2
  <2> HIDE DEF q
  <2>2. ASSUME d >= q PROVE d * Rate >= n
    <3>1. d * Rate = Rate * q + Rate * (d - q) /\ Rate * (d - q) >= 0
      <4>1. \A r \in Nat, x, y \in Int : x >= y => x * r = r * y + r * (x - y) /\ r * (x - y) >= 0
        OBVIOUS
      <4>2. QED BY <2>1, <2>2, <4>1
    <3>2. QED BY <2>1, <3>1
  <2>3. ASSUME d < q PROVE d * Rate < n
    <3>1. d * Rate + Rate <= Rate * q
      <4>1. \A r \in Nat, x, y \in Int : x < y => x * r + r <= r * y
        OBVIOUS
      <4>2. QED BY <2>1, <2>3, <4>1
    <3>2. QED BY <2>1, <3>1
  <2>4. QED BY <1>2, <2>1, <2>2, <2>3 DEF Wait, q
<1>3. QED BY <1>1, <1>2

\* Every step keeps the end of a sleep where it was set.
LEMMA SleepingNext == IInv /\ Sleeping /\ [Next]_vars => Sleeping'
<1> SUFFICES ASSUME IInv, Sleeping, [Next]_vars PROVE Sleeping'
  OBVIOUS
<1> USE DEF IInv, TypeOK, Sleeping
<1>1. ASSUME NEW n \in Requests, Call(n) PROVE Sleeping'
  BY <1>1 DEF Call, TryAcquire, Overdraw, Acquire
<1>2. CASE Attempt
  BY <1>2 DEF Attempt
<1>3. CASE Doze
  BY <1>3 DEF Doze
<1>4. CASE Wake \/ Tick \/ Watch
  BY <1>4 DEF Wake, Tick, Watch
<1>5. CASE UNCHANGED vars
  BY <1>5 DEF vars
<1>6. QED BY <1>1, <1>2, <1>3, <1>4, <1>5 DEF Next, Advance

\* For every rate, capacity and request: a sleep is over exactly when what was
\* missing has flowed in, not a tick earlier and not a tick later.
THEOREM SleepIsExact == Spec => []SleepExact
<1>1. IInv /\ Sleeping => SleepExact
  <2> SUFFICES ASSUME IInv, Sleeping, pc = "asleep"
               PROVE  now >= wakeAt <=> Level >= want
    BY DEF SleepExact
  <2> DEFINE d == now - last
  <2>1. d \in Nat /\ want - tokens \in Int /\ want <= Capacity /\ Capacity \in Nat
    BY BucketAssumption DEF IInv, TypeOK, Accounted, Sleeping
  <2>2. now >= wakeAt <=> d >= Wait(want - tokens)
    BY WaitTyped, <2>1 DEF IInv, TypeOK, Accounted, Sleeping
  <2>3. now >= wakeAt <=> d * Rate >= want - tokens
    BY <2>1, <2>2, WaitExact
  <2>4. d * Rate \in Nat
    BY <2>1, BucketAssumption, \A x, y \in Nat : x * y \in Nat
  <2>5. Level >= want <=> tokens + d * Rate >= want
    BY <2>1, <2>4 DEF Level, IInv, TypeOK
  <2>6. QED BY <2>1, <2>3, <2>4, <2>5 DEF IInv, TypeOK
<1>2. Init => Sleeping
  BY DEF Init, Sleeping
<1>3. QED BY <1>1, <1>2, BucketInit, BucketNext, SleepingNext, PTL DEF Spec

(***************************************************************************)
(* The same bucket one access of an attribute at a time, with any delay    *)
(* between two accesses: what the clock said may be long ago when the      *)
(* level it leads to is written.  One thread keeps to the rate all the     *)
(* same; the run shared_bucket shows that two do not.                      *)
(***************************************************************************)
CONSTANT Thread
VARIABLES at, asks, dozing, clock, value, granted

Shared == INSTANCE SharedBucket WITH pc <- at, want <- asks

OneThread == \A s, t \in Thread : s = t

SharedTyped ==
    /\ now \in Nat /\ tokens \in 0..Capacity /\ last \in 0..now /\ granted \in Nat
    /\ at \in [Thread -> {"idle", "clock", "elapsed", "level", "fill", "stamp", "check",
                          "take", "subtract"}]
    /\ asks \in [Thread -> Nat]
    /\ dozing \in [Thread -> BOOLEAN]
    /\ clock \in [Thread -> 0..now]
    /\ value \in [Thread -> Int]

\* What the thread's locals say of the bucket, by where it is.
Knows(t) ==
    /\ at[t] \in {"elapsed", "level", "fill", "stamp"} => last <= clock[t]
    /\ at[t] = "level" => value[t] = clock[t] - last
    /\ at[t] = "fill" => /\ value[t] \in 0..Capacity
                        /\ granted + value[t] <= Capacity + Rate * clock[t]
    /\ at[t] = "stamp" => granted + tokens <= Capacity + Rate * clock[t]
    /\ at[t] # "stamp" => granted + tokens <= Capacity + Rate * last
    /\ at[t] \in {"take", "subtract"} => asks[t] <= tokens
    /\ at[t] = "subtract" => value[t] = tokens

LoneInv == SharedTyped /\ \A t \in Thread : Knows(t)

\* More time, more inflow.
LEMMA InflowGrows ==
    ASSUME NEW r \in Nat, NEW i \in Nat, NEW j \in Nat, i <= j
    PROVE  /\ r * i \in Nat /\ r * j \in Nat /\ r * i <= r * j
           /\ r * j = r * i + (j - i) * r
           /\ (j - i) * r \in Nat
<1>1. PICK d \in Nat : d = j - i
  OBVIOUS
<1>2. j = i + d
  BY <1>1
<1>3. r * (i + d) = r * i + r * d /\ r * d = d * r /\ r * d \in Nat /\ r * i \in Nat
  OBVIOUS
<1>4. QED BY <1>1, <1>2, <1>3

LEMMA LoneInit == Shared!Init => LoneInv
BY BucketAssumption DEF Shared!Init, LoneInv, SharedTyped, Knows

\* Each step of the only thread keeps it; so does the passing of time.
LEMMA LoneStep ==
    ASSUME OneThread, LoneInv, NEW t \in Thread, Shared!Step(t)
    PROVE  LoneInv'
<1> USE BucketAssumption DEF LoneInv, SharedTyped, Shared!At, Shared!Goto
<1>1. \A s \in Thread : s = t
  BY DEF OneThread
<1>2. Knows(t)
  OBVIOUS
<1>3. SharedTyped' /\ Knows(t)' => LoneInv'
  BY <1>1
<1>4. CASE Shared!Begin(t)
  BY <1>2, <1>3, <1>4 DEF Shared!Begin, Knows
<1>5. CASE Shared!ReadClock(t)
  BY <1>2, <1>3, <1>5 DEF Shared!ReadClock, Knows
<1>6. CASE Shared!ReadLast(t)
  BY <1>2, <1>3, <1>6 DEF Shared!ReadLast, Knows
<1>7. CASE Shared!ReadLevel(t)
  <2>1. /\ at[t] = "level" /\ last <= clock[t] /\ value[t] = clock[t] - last
        /\ granted + tokens <= Capacity + Rate * last
    BY <1>2, <1>7 DEF Shared!ReadLevel, Knows
  <2>2. PICK k \in Nat : k = clock[t]
    OBVIOUS
  <2>3. PICK flown \in Nat : flown = (k - last) * Rate
    BY <2>1, <2>2, InflowGrows
  <2>4. Rate * k = Rate * last + flown /\ Rate * k \in Nat /\ Rate * last \in Nat
    BY <2>1, <2>2, <2>3, InflowGrows
  <2>5. value'[t] = Shared!Least(Capacity, tokens + flown)
    BY <1>7, <2>1, <2>2, <2>3 DEF Shared!ReadLevel
  <2>6. /\ value'[t] \in 0..Capacity
        /\ granted + value'[t] <= Capacity + Rate * k
    BY <2>1, <2>4, <2>5 DEF Shared!Least
  <2>7. /\ UNCHANGED <<now, tokens, last, asks, dozing, clock, granted>>
        /\ at' = [at EXCEPT ![t] = "fill"]
        /\ value' = [value EXCEPT ![t] = value'[t]]
    BY <1>7 DEF Shared!ReadLevel
  <2>8. SharedTyped'
    BY <2>6, <2>7
  <2>9. Knows(t)'
    BY <1>2, <2>1, <2>2, <2>6, <2>7 DEF Knows
  <2>10. QED BY <1>3, <2>8, <2>9
<1>8. CASE Shared!WriteLevel(t)
  BY <1>2, <1>3, <1>8 DEF Shared!WriteLevel, Knows
<1>9. CASE Shared!WriteLast(t)
  BY <1>2, <1>3, <1>9 DEF Shared!WriteLast, Knows
<1>10. CASE Shared!Check(t)
  BY <1>2, <1>3, <1>10 DEF Shared!Check, Knows
<1>11. CASE Shared!Refuse(t)
  BY <1>2, <1>3, <1>11 DEF Shared!Refuse, Knows
<1>12. CASE Shared!Doze(t)
  BY <1>2, <1>3, <1>12 DEF Shared!Doze, Knows
<1>13. CASE Shared!ReadTokens(t)
  BY <1>2, <1>3, <1>13 DEF Shared!ReadTokens, Knows
<1>14. CASE Shared!WriteTokens(t)
  BY <1>2, <1>3, <1>14 DEF Shared!WriteTokens, Knows
<1>15. QED BY <1>4, <1>5, <1>6, <1>7, <1>8, <1>9, <1>10, <1>11, <1>12, <1>13, <1>14
           DEF Shared!Step

LEMMA LoneNext == OneThread /\ LoneInv /\ [Shared!Next]_(Shared!vars) => LoneInv'
<1> SUFFICES ASSUME OneThread, LoneInv, [Shared!Next]_(Shared!vars) PROVE LoneInv'
  OBVIOUS
<1>1. CASE UNCHANGED Shared!vars
  BY <1>1 DEF Shared!vars, LoneInv, SharedTyped, Knows
<1>2. CASE Shared!Tick
  BY <1>2 DEF Shared!Tick, LoneInv, SharedTyped, Knows
<1>3. QED BY <1>1, <1>2, LoneStep DEF Shared!Next

\* For every rate, capacity and sequence of requests of one thread, however long it is
\* held up between two accesses: the bucket grants no more than a full bucket and
\* what has flowed in since it was made (ratelimit.py:5-6).
THEOREM LoneThreadKeepsRate ==
    ASSUME OneThread, Thread # {}
    PROVE  Shared!Spec => []Shared!IssueBounded
<1>1. LoneInv => Shared!IssueBounded
  <2> SUFFICES ASSUME LoneInv PROVE granted <= Capacity + Rate * now
    BY DEF Shared!IssueBounded
  <2> USE BucketAssumption DEF LoneInv, SharedTyped
  <2>1. PICK t \in Thread : Knows(t)
    OBVIOUS
  <2>2. PICK k \in Nat : /\ k <= now
                         /\ granted + tokens <= Capacity + Rate * k
    BY <2>1 DEF Knows
  <2>3. Rate * k \in Nat /\ Rate * now \in Nat /\ Rate * k <= Rate * now
    BY <2>2, InflowGrows
  <2>4. QED BY <2>2, <2>3
<1>2. QED BY <1>1, LoneInit, LoneNext, PTL DEF Shared!Spec
==============================================================================
