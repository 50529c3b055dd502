----------------------------- MODULE TokenBucket -----------------------------
(***************************************************************************)
(* ingestion/ratelimit.py: the token bucket every fetch waits at, used by  *)
(* one thread, with time passing between any two of its steps.             *)
(*                                                                         *)
(* Amounts are in units, Token units to a token, so that a rate below one  *)
(* token a second is a natural number; time is in the clock's ticks, and a *)
(* sleep wakes at the first tick that is not too early, or later.  The      *)
(* clock is monotonic, so `elapsed` is never negative, and refilling with  *)
(* no time elapsed changes nothing.                                        *)
(***************************************************************************)
EXTENDS Integers

CONSTANTS
    Token,          \* units in one token
    Rate,           \* units added per tick
    CapacityGiven,  \* the constructor's `capacity` argument, or ...
    NoCapacity,     \* ... its absence
    Requests,       \* amounts callers ask for
    MaxTime         \* bound on the time at which calls begin

Capacity == IF CapacityGiven = NoCapacity THEN Rate ELSE CapacityGiven

ASSUME BucketAssumption ==
    /\ Token \in Nat \ {0}
    /\ Rate \in Nat \ {0}
    /\ Capacity \in Nat
    /\ Requests \subseteq Nat \ {0}
    /\ MaxTime \in Nat

VARIABLES
    now,        \* the clock
    tokens,     \* TokenBucket._tokens
    last,       \* TokenBucket._last
    pc,         \* where the call under way is
    want,       \* what it asks for
    wakeAt,     \* when its sleep is over
    outcome,    \* what the last call came to
    mark,       \* an instant from which grants are counted (history)
    since       \* units granted since then (history)

vars == <<now, tokens, last, pc, want, wakeAt, outcome, mark, since>>

\* What _refill makes of the bucket at this instant.  (Fault: not capped.)
UncappedLevel == tokens + (now - last) * Rate
Level ==
    LET refilled == tokens + (now - last) * Rate
    IN  IF refilled > Capacity THEN Capacity ELSE refilled

\* try_acquire: refill, then take what is asked for if it is there.
\* (Fault: the check is forgotten.)
TakeAnyway(n) ==
    /\ tokens' = Level - n
    /\ last' = now
    /\ since' = since + n
    /\ outcome' = "granted"

Take(n) ==
    /\ n <= Level
    /\ tokens' = Level - n
    /\ last' = now
    /\ since' = since + n
    /\ outcome' = "granted"

Refuse(n) ==
    /\ n > Level
    /\ tokens' = Level
    /\ last' = now
    /\ outcome' = "refused"
    /\ UNCHANGED since

TryAcquire(n) ==
    /\ pc = "idle"
    /\ now <= MaxTime
    /\ Take(n) \/ Refuse(n)
    /\ want' = n
    /\ UNCHANGED <<now, pc, wakeAt, mark>>

\* acquire: more than the bucket can ever hold is an error ...
Overdraw(n) ==
    /\ pc = "idle"
    /\ now <= MaxTime
    /\ n > Capacity
    /\ want' = n
    /\ outcome' = "raised"
    /\ UNCHANGED <<now, tokens, last, pc, wakeAt, mark, since>>

\* Fault: a request for more than the bucket can hold is let through.
AcquireAnything(n) ==
    /\ pc = "idle"
    /\ now <= MaxTime
    /\ pc' = "trying"
    /\ want' = n
    /\ outcome' = "none"
    /\ UNCHANGED <<now, tokens, last, wakeAt, mark, since>>

Acquire(n) ==
    /\ pc = "idle"
    /\ now <= MaxTime
    /\ n <= Capacity
    /\ pc' = "trying"
    /\ want' = n
    /\ outcome' = "none"
    /\ UNCHANGED <<now, tokens, last, wakeAt, mark, since>>

\* ... anything else is tried, ...
Attempt ==
    /\ pc = "trying"
    /\ \/ Take(want) /\ pc' = "idle"
       \/ Refuse(want) /\ pc' = "short"
    /\ UNCHANGED <<now, want, wakeAt, mark>>

\* The ticks in which n units flow in; none when nothing is missing.
\* (Fault: the whole amount is waited for, not what is missing.)
WaitForAll(n) == (want + Rate - 1) \div Rate
Wait(n) == IF n <= 0 THEN 0 ELSE (n + Rate - 1) \div Rate

\* ... and slept for, the clock having been read again.
Doze ==
    /\ pc = "short"
    /\ tokens' = Level
    /\ last' = now
    /\ wakeAt' = now + Wait(want - Level)
    /\ pc' = "asleep"
    /\ UNCHANGED <<now, want, outcome, mark, since>>

Wake ==
    /\ pc = "asleep"
    /\ now >= wakeAt
    /\ pc' = "trying"
    /\ UNCHANGED <<now, tokens, last, want, wakeAt, outcome, mark, since>>

\* Time passes; a sleep runs to its end even past the bound, and the longest
\* one, for a full bucket, is over by the horizon.
Horizon == MaxTime + Wait(Capacity)
Tick ==
    /\ now < MaxTime \/ (pc = "asleep" /\ now < wakeAt /\ now < Horizon)
    /\ now' = now + 1
    /\ UNCHANGED <<tokens, last, pc, want, wakeAt, outcome, mark, since>>

\* An observer begins to count.
Watch ==
    /\ mark' = now
    /\ since' = 0
    /\ UNCHANGED <<now, tokens, last, pc, want, wakeAt, outcome>>

Init ==
    /\ now = 0
    /\ tokens = Capacity
    /\ last = 0
    /\ pc = "idle"
    /\ want = 0
    /\ wakeAt = 0
    /\ outcome = "none"
    /\ mark = 0
    /\ since = 0

Call(n) == TryAcquire(n) \/ Overdraw(n) \/ Acquire(n)
Advance == Attempt \/ Doze \/ Wake

Next == (\E n \in Requests : Call(n)) \/ Advance \/ Tick \/ Watch

Spec == Init /\ [][Next]_vars

\* Time passes, and the thread in acquire is scheduled.
FairSpec == Spec /\ WF_vars(Advance) /\ WF_vars(Tick)

TypeOK ==
    /\ {now, want, wakeAt, since} \subseteq Nat
    /\ tokens \in 0..Capacity
    /\ {last, mark} \subseteq 0..now
    /\ pc \in {"idle", "trying", "short", "asleep"}
    /\ outcome \in {"none", "granted", "refused", "raised"}

\* The limit a source bans for exceeding: in no window of time, wherever it
\* begins, is more granted than one full bucket and what flowed in since
\* (ratelimit.py:3-4).
WindowBounded == since <= Capacity + Rate * (now - mark)

\* "Sleep exactly long enough for the shortfall to refill" (ratelimit.py:80):
\* while a call sleeps, its sleep is over just when the bucket could serve it.
SleepExact == pc = "asleep" => (now >= wakeAt <=> Level >= want)

\* A call of acquire that has begun is served: its sleeps do add up to the
\* shortfall, and it does not loop for an amount that cannot come.
AcquireReturns == pc = "trying" ~> outcome = "granted"

\* "`acquire` blocks until a token is available" (ratelimit.py:9-10): asking for
\* one token is never an error.
OneTokenAcquirable == outcome = "raised" => want > Token
==============================================================================
