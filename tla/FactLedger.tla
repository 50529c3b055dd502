----------------------------- MODULE FactLedger ------------------------------
(***************************************************************************)
(* What ingestion promises its caller: a growing body of facts, and a      *)
(* ledger that names an item only while every fact of the item is there.   *)
(* Losing ledger entries is allowed (the work is then done again); losing  *)
(* a fact, or recording an item whose facts are not all there, is not.     *)
(***************************************************************************)
CONSTANTS Client, Item, Fact, Needs

VARIABLES facts, ledger

Init ==
    /\ facts = {}
    /\ ledger = [c \in Client |-> {}]

Learn ==
    /\ facts' \in SUBSET Fact
    /\ facts \subseteq facts'
    /\ UNCHANGED ledger

Record(c, item) ==
    /\ Needs[item] \subseteq facts
    /\ \/ ledger' = [ledger EXCEPT ![c] = @ \cup {item}]
       \/ ledger' = [d \in Client |-> ledger[d] \cup {item}]
    /\ UNCHANGED facts

Forget(c) ==
    /\ ledger' = [ledger EXCEPT ![c] = {}]
    /\ UNCHANGED facts

Next ==
    \/ Learn
    \/ \E c \in Client : Forget(c) \/ \E item \in Item : Record(c, item)

Spec == Init /\ [][Next]_<<facts, ledger>>
==============================================================================
