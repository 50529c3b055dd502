------------------------------- MODULE Funnel --------------------------------
(***************************************************************************)
(* resolver/funnel.py and resolver/suggest.py: the tiers a column can exit *)
(* at, the escalation queue, and the write-back of a human's decision.     *)
(*                                                                         *)
(* A decision takes one read of the store for the alias index and, when it *)
(* misses, another one for the metric terms; a confirmation takes an edge  *)
(* upsert, a read and a write.  Other processes run between those calls.   *)
(***************************************************************************)
EXTENDS Packs, FiniteSetsExt

CONSTANTS
    Item,       \* work items, the sources' units of ingestion
    NameOf,     \* case-folded name of each column
    LocalPart,  \* case-folded metric key after its namespace
    Score,      \* similarity of a column name and a term, in percent
    Threshold,  \* suggestions below it are not confident enough
    KeyRank,    \* lexical position of each metric key, the suggester's tie-break
    NoMetric,   \* the metric of an outcome that has none
    NoColumn    \* the column of a confirmation when none is under way

ASSUME FunnelAssumption ==
    /\ NameOf \in [Column -> Name]
    /\ LocalPart \in [Metric -> Name]
    /\ Score \in [Name -> [Name -> Nat]]
    /\ Threshold \in Nat
    /\ KeyRank \in [Metric -> Nat]
    /\ \A m, n \in Metric : m # n => KeyRank[m] # KeyRank[n]
    /\ NoMetric \notin Metric
    /\ NoColumn \notin Column

Observation == [column : Column, has_dictionary : BOOLEAN]

Tier == {"AUTO_LINKED", "DOCUMENTED", "SUGGESTED", "ESCALATED"}
\* `item` is bookkeeping: the work item whose bundle held the column.
Outcome == [item : Item, column : Column, tier : Tier, metric : Metric \cup {NoMetric}]
Resolution(item, x, tier, m) ==
    [item |-> item, column |-> x, tier |-> tier, metric |-> m]

VARIABLES
    queue,      \* Resolver.queue: escalations, oldest first
    confirming, \* the confirmation under way: column, metric, aliases read
    accepted,   \* column and metric pairs a human has accepted (history)
    learned     \* column and metric pairs whose confirmation returned (history)

funnelVars == <<queue, confirming, accepted, learned>>

(***************************************************************************)
(* Tier 1: the alias index.                                                *)
(***************************************************************************)
\* Fault: a confident suggestion taken for a rule.
FuzzyHit(name, m) == m \in Catalog /\ Score[name][LocalPart[m]] >= Threshold
Hit(name, m) == m \in Claimants(name)
Miss(name) == Claimants(name) = {}

(***************************************************************************)
(* Tier 2: the similarity suggester.  A metric is scored by its best term; *)
(* the ranking is by score, then by metric key.                            *)
(***************************************************************************)
Terms(m) == aliases[m] \cup {LocalPart[m]}
Rating(name, m) == Max({Score[name][t] : t \in Terms(m)})
Candidates(name) == {m \in Catalog : Rating(name, m) > 0}
Outranks(name, m, n) ==
    \/ Rating(name, m) > Rating(name, n)
    \/ Rating(name, m) = Rating(name, n) /\ KeyRank[m] < KeyRank[n]

\* The first suggestion, when it is confident enough: one metric or none.
Suggested(name) ==
    {m \in Candidates(name) :
        /\ Rating(name, m) >= Threshold
        /\ \A n \in Candidates(name) \ {m} : Outranks(name, m, n)}

\* Tier 3.  Nothing removes an entry and nothing looks for an equal one.
\* (Fault: the escalation is reported but not filed.)
ForgetEscalation(c, r) == queue' = queue
Enqueue(c, r) == queue' = [queue EXCEPT ![c] = Append(@, r)]

(***************************************************************************)
(* A human's answers.                                                      *)
(***************************************************************************)
Confirmation == [column : Column, metric : Metric, read : SUBSET Name]
NoConfirmation == [column |-> NoColumn, metric |-> NoMetric, read |-> {}]

\* confirm, first call: the MEASURES edge.
ConfirmLink(c, x, m) ==
    /\ At(c, "idle")
    /\ UpsertEdge(Measures(x, m))
    /\ confirming' = [confirming EXCEPT ![c] = [column |-> x, metric |-> m, read |-> {}]]
    /\ accepted' = accepted \cup {<<x, m>>}
    /\ Goto(c, "confirm")
    /\ UNCHANGED <<nodes, labels, aliases, subtypes, edgeTypes, catalog, queue, learned>>

\* add_metric_alias reads the list ...
ReadAliases(c) ==
    /\ At(c, "confirm")
    /\ confirming' = [confirming EXCEPT ![c].read = aliases[confirming[c].metric]]
    /\ Goto(c, "learn")
    /\ UNCHANGED <<graphVars, subtypes, edgeTypes, catalog, queue, accepted, learned>>

\* ... and writes back what it read with the new name added; the upsert would
\* create the metric if it did not exist.
WriteAliases(c) ==
    /\ At(c, "learn")
    /\ LET conf == confirming[c]
       IN  /\ UpsertNode(MetricNode(conf.metric))
           /\ PutAliases(conf.metric, conf.read \cup {NameOf[conf.column]})
           /\ learned' = learned \cup {<<conf.column, conf.metric>>}
    /\ confirming' = [confirming EXCEPT ![c] = NoConfirmation]
    /\ Goto(c, "idle")
    /\ UNCHANGED <<edges, labels, subtypes, edgeTypes, catalog, queue, accepted>>

\* The answer to an escalation: a metric outside every pack.
DefineMetric(c, m) ==
    /\ At(c, "idle")
    /\ queue[c] # <<>>
    /\ UpsertNode(MetricNode(m))
    /\ UNCHANGED <<edges, labels, aliases, packVars, funnelVars>>

ConfirmStep(c) == ReadAliases(c) \/ WriteAliases(c)

FunnelInit ==
    /\ queue = [c \in Client |-> <<>>]
    /\ confirming = [c \in Client |-> NoConfirmation]
    /\ accepted = {}
    /\ learned = {}

FunnelTypeOK ==
    /\ queue \in [Client -> Seq(Outcome)]
    /\ confirming \in [Client -> Confirmation \cup {NoConfirmation}]
    /\ accepted \subseteq Column \X Metric
    /\ learned \subseteq Column \X Metric
    /\ \A c \in Client : pc[c] \in {"confirm", "learn"} <=> confirming[c] # NoConfirmation
==============================================================================
