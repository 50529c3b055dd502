---------------------------- MODULE SharedBucket -----------------------------
(***************************************************************************)
(* ingestion/ratelimit.py: one token bucket shared by threads, which may   *)
(* be switched between any two reads and writes of its attributes.  The    *)
(* bucket takes no lock.  Time passes meanwhile; amounts are in tokens and *)
(* the clock's ticks.  What a thread does while it sleeps is module        *)
(* TokenBucket's: here it may wake at any time.                            *)
(***************************************************************************)
EXTENDS Integers

CONSTANTS
    Thread,
    Rate, Capacity, \* natural numbers, Rate not zero
    Requests,       \* amounts callers ask for
    MaxTime         \* bound on the clock

VARIABLES
    now,        \* the clock
    tokens,     \* TokenBucket._tokens
    last,       \* TokenBucket._last
    pc,         \* where each thread is
    want,       \* what it asks for
    dozing,     \* whether it is in the _refill of acquire's loop
    clock,      \* its local `now`
    value,      \* its local `elapsed`, then the level it computes from _tokens
    granted     \* units granted so far (history)

vars == <<now, tokens, last, pc, want, dozing, clock, value, granted>>

Least(a, b) == IF a < b THEN a ELSE b

At(t, label) == pc[t] = label
Goto(t, label) == pc' = [pc EXCEPT ![t] = label]

\* A call of try_acquire, by a caller or by the loop of acquire.
Begin(t) ==
    /\ At(t, "idle")
    /\ \E n \in Requests : want' = [want EXCEPT ![t] = n]
    /\ dozing' = [dozing EXCEPT ![t] = FALSE]
    /\ Goto(t, "clock")
    /\ UNCHANGED <<now, tokens, last, clock, value, granted>>

(***************************************************************************)
(* _refill, one access at a time.                                          *)
(***************************************************************************)
ReadClock(t) ==
    /\ At(t, "clock")
    /\ clock' = [clock EXCEPT ![t] = now]
    /\ Goto(t, "elapsed")
    /\ UNCHANGED <<now, tokens, last, want, dozing, value, granted>>

ReadLast(t) ==
    /\ At(t, "elapsed")
    /\ value' = [value EXCEPT ![t] = clock[t] - last]
    /\ Goto(t, IF clock[t] > last THEN "level" ELSE "check")
    /\ UNCHANGED <<now, tokens, last, want, dozing, clock, granted>>

ReadLevel(t) ==
    /\ At(t, "level")
    /\ value' = [value EXCEPT ![t] = Least(Capacity, tokens + @ * Rate)]
    /\ Goto(t, "fill")
    /\ UNCHANGED <<now, tokens, last, want, dozing, clock, granted>>

WriteLevel(t) ==
    /\ At(t, "fill")
    /\ tokens' = value[t]
    /\ Goto(t, "stamp")
    /\ UNCHANGED <<now, last, want, dozing, clock, value, granted>>

WriteLast(t) ==
    /\ At(t, "stamp")
    /\ last' = clock[t]
    /\ Goto(t, "check")
    /\ UNCHANGED <<now, tokens, want, dozing, clock, value, granted>>

(***************************************************************************)
(* The check and the subtraction.                                          *)
(***************************************************************************)
Check(t) ==
    /\ At(t, "check")
    /\ ~dozing[t]
    /\ tokens >= want[t]
    /\ Goto(t, "take")
    /\ UNCHANGED <<now, tokens, last, want, dozing, clock, value, granted>>

\* try_acquire returns False, and acquire, which has not raised for more than the
\* capacity, refills before it computes its sleep.
Refuse(t) ==
    /\ At(t, "check")
    /\ ~dozing[t]
    /\ tokens < want[t]
    /\ \/ Goto(t, "idle") /\ UNCHANGED dozing
       \/ want[t] <= Capacity /\ Goto(t, "clock") /\ dozing' = [dozing EXCEPT ![t] = TRUE]
    /\ UNCHANGED <<now, tokens, last, want, clock, value, granted>>

\* The loop of acquire sleeps and calls try_acquire again.
Doze(t) ==
    /\ At(t, "check")
    /\ dozing[t]
    /\ dozing' = [dozing EXCEPT ![t] = FALSE]
    /\ Goto(t, "clock")
    /\ UNCHANGED <<now, tokens, last, want, clock, value, granted>>

ReadTokens(t) ==
    /\ At(t, "take")
    /\ value' = [value EXCEPT ![t] = tokens]
    /\ Goto(t, "subtract")
    /\ UNCHANGED <<now, tokens, last, want, dozing, clock, granted>>

WriteTokens(t) ==
    /\ At(t, "subtract")
    /\ tokens' = value[t] - want[t]
    /\ granted' = granted + want[t]
    /\ Goto(t, "idle")
    /\ UNCHANGED <<now, last, want, dozing, clock, value>>

Tick ==
    /\ now < MaxTime
    /\ now' = now + 1
    /\ UNCHANGED <<tokens, last, pc, want, dozing, clock, value, granted>>

Init ==
    /\ now = 0
    /\ tokens = Capacity
    /\ last = 0
    /\ pc = [t \in Thread |-> "idle"]
    /\ want = [t \in Thread |-> 0]
    /\ dozing = [t \in Thread |-> FALSE]
    /\ clock = [t \in Thread |-> 0]
    /\ value = [t \in Thread |-> 0]
    /\ granted = 0

Step(t) ==
    \/ Begin(t) \/ ReadClock(t) \/ ReadLast(t) \/ ReadLevel(t) \/ WriteLevel(t)
    \/ WriteLast(t) \/ Check(t) \/ Refuse(t) \/ Doze(t) \/ ReadTokens(t) \/ WriteTokens(t)

Next == Tick \/ \E t \in Thread : Step(t)

Spec == Init /\ [][Next]_vars

\* The bucket is "the choke point: one place decides whether a request may proceed
\* right now" (ratelimit.py:5-6): however long its users are held up between two
\* accesses, no more is granted than one full bucket and what has flowed in since it
\* was made.  One user keeps to it (module TokenBucket); two do not.
IssueBounded == granted <= Capacity + Rate * now
==============================================================================
