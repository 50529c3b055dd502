------------------------------- MODULE Review --------------------------------
(***************************************************************************)
(* resolver/funnel.py: the escalation queue behind the Resolvers.  The     *)
(* operator keeps one queue, which outlives the process, and hands it to   *)
(* every Resolver built; a Resolver takes it with `queue or                *)
(* EscalationQueue()`, and an EscalationQueue is false while it is empty.  *)
(***************************************************************************)
EXTENDS SequencesExt, FiniteSets

CONSTANTS
    Resolver,
    Column,         \* columns with no confident meaning
    Earlier,        \* what the operator's queue may hold from before
    MaxEscalations  \* bound on escalations

VARIABLES
    handed,     \* the operator's queue
    uses,       \* the queue each Resolver has, none before it is built
    own,        \* the EscalationQueue it made, if it did
    filed,      \* what it has escalated since it was built (history)
    escalations \* escalations so far

vars == <<handed, uses, own, filed, escalations>>

\* The constructor.
Build(r) ==
    /\ uses[r] = "none"
    /\ uses' = [uses EXCEPT ![r] = IF handed = <<>> THEN "own" ELSE "handed"]
    /\ UNCHANGED <<handed, own, filed, escalations>>

\* Tier 3 of resolve, with enqueue.
Escalate(r, c) ==
    /\ escalations < MaxEscalations
    /\ escalations' = escalations + 1
    /\ filed' = [filed EXCEPT ![r] = @ \cup {c}]
    /\ \/ /\ uses[r] = "handed"
          /\ handed' = Append(handed, c)
          /\ UNCHANGED own
       \/ /\ uses[r] = "own"
          /\ own' = [own EXCEPT ![r] = Append(@, c)]
          /\ UNCHANGED handed
    /\ UNCHANGED uses

\* The process stops; what it held in memory is gone.
Restart ==
    /\ \E r \in Resolver : uses[r] # "none"
    /\ uses' = [r \in Resolver |-> "none"]
    /\ own' = [r \in Resolver |-> <<>>]
    /\ filed' = [r \in Resolver |-> {}]
    /\ UNCHANGED <<handed, escalations>>

Init ==
    /\ handed \in Earlier
    /\ uses = [r \in Resolver |-> "none"]
    /\ own = [r \in Resolver |-> <<>>]
    /\ filed = [r \in Resolver |-> {}]
    /\ escalations = 0

Next ==
    \/ Restart
    \/ \E r \in Resolver : Build(r) \/ \E c \in Column : Escalate(r, c)

Spec == Init /\ [][Next]_vars

\* "A durable queue drops in behind the same shape" (funnel.py:56-57): with one,
\* what a Resolver escalated is in it.
DurableQueueGetsAll == \A r \in Resolver : filed[r] \subseteq Range(handed)
==============================================================================
