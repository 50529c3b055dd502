------------------------------ MODULE Platform -------------------------------
(***************************************************************************)
(* The whole system: processes that load packs, ingest and take a human's  *)
(* answers, over one store, with the failures the deployment can have.     *)
(*                                                                         *)
(* "InMemory": one process, whose store dies with it; an exception can     *)
(* only come out of the source.  "Neo4j": several processes over one       *)
(* server, and any call to the server can raise as well; a process can     *)
(* stop between two calls and lose everything it holds in memory.          *)
(***************************************************************************)
EXTENDS Pipeline, SequencesExt

CONSTANTS
    MaxFailures,    \* bound on exceptions and crashes
    MaxAnswers      \* bound on the different answers humans give

ASSUME PlatformAssumption ==
    /\ MaxFailures \in Nat
    /\ MaxAnswers \in Nat
    /\ IsFiniteSet(Client)
    /\ Backend = "InMemory" => Cardinality(Client) = 1 /\ Ledger # "shared"

VARIABLE failures       \* exceptions and crashes so far

vars == <<graphVars, packVars, funnelVars, pipelineVars, failures>>

\* Columns whose outcome asks a human for an answer, as far as c was told.
Awaiting(c) ==
    {r.column : r \in {q \in delivered[c] \cup Range(queue[c]) :
                            q.tier \in {"SUGGESTED", "ESCALATED"}}}

(***************************************************************************)
(* What a caller may ask of an idle process.                               *)
(***************************************************************************)
LoadPack(c) ==
    /\ \E p \in Pack : BeginLoadPack(c, p)
    /\ UNCHANGED <<funnelVars, pipelineVars, failures>>

Answer(c) ==
    /\ \/ \E x \in Awaiting(c), m \in Catalog :
            /\ Cardinality(accepted \cup {<<x, m>>}) <= MaxAnswers
            /\ ConfirmLink(c, x, m)
       \/ \E m \in Metric : DefineMetric(c, m)
    /\ UNCHANGED <<pipelineVars, failures>>

Ingest(c) == StartRun(c) /\ UNCHANGED failures

Request(c) == LoadPack(c) \/ Answer(c) \/ Ingest(c)

(***************************************************************************)
(* The calls under way.                                                    *)
(***************************************************************************)
Work(c) ==
    \/ LoadPackStep(c) /\ UNCHANGED <<funnelVars, pipelineVars, failures>>
    \/ ConfirmStep(c) /\ UNCHANGED <<pipelineVars, failures>>
    \/ RunStep(c) /\ UNCHANGED failures

(***************************************************************************)
(* Failures.                                                               *)
(***************************************************************************)
\* The next thing c does may be a call to the source (discover, which enumerates
\* lazily, fetch or parse) or to a server, and it raises.
MayRaise(c) ==
    \/ pc[c] = "run"
    \/ Backend = "Neo4j"
         /\ \/ pc[c] = "pack" /\ catalog[c] # NothingLeft
            \/ pc[c] \in {"confirm", "learn"}
            \/ pc[c] = "load" /\ ~Loaded(c)
    \/ Ledger = "shared" /\ Loaded(c)

Fail(c) ==
    /\ failures < MaxFailures
    /\ MayRaise(c)
    /\ failures' = failures + 1
    /\ AbandonCall(c)
    /\ UNCHANGED <<graphVars, subtypes, edgeTypes, queue, accepted, learned,
                   done, delivered>>

Crash(c) ==
    /\ failures < MaxFailures
    /\ Backend = "Neo4j"
    /\ failures' = failures + 1
    /\ AbandonCall(c)
    /\ subtypes' = [subtypes EXCEPT ![c] = {}]
    /\ edgeTypes' = [edgeTypes EXCEPT ![c] = {}]
    /\ queue' = [queue EXCEPT ![c] = <<>>]
    /\ done' = [done EXCEPT ![c] = IF Ledger = "shared" THEN @ ELSE {}]
    /\ delivered' = [delivered EXCEPT ![c] = {}]
    /\ UNCHANGED <<graphVars, accepted, learned>>

Init == GraphInit /\ PacksInit /\ FunnelInit /\ PipelineInit /\ failures = 0

Next == \E c \in Client : Request(c) \/ Work(c) \/ Fail(c) \/ Crash(c)

Spec == Init /\ [][Next]_vars

\* A call that has begun keeps executing; nobody is obliged to begin one.
FairSpec == Spec /\ \A c \in Client : WF_vars(Work(c))

TypeOK == /\ GraphTypeOK
          /\ PacksTypeOK
          /\ FunnelTypeOK
          /\ PipelineTypeOK
          /\ failures \in 0..MaxFailures

(***************************************************************************)
(* What a bundle asks of the graph.                                        *)
(***************************************************************************)
\* ParsedBundle.iter_columns.
IterColumns(b) ==
    b.columns \o FlattenSeq([i \in DOMAIN b.entities |-> b.entities[i].columns])

Observes(b, x) ==
    \/ \E i \in DOMAIN b.columns : b.columns[i].column = x
    \/ \E i \in DOMAIN b.entities : Owns(b.entities[i], x)

NodesOf(b) ==
    {DocumentNode(d.uri) : d \in Range(b.documents)}
      \cup {EntityNode(e.uid) : e \in Range(b.entities)}
      \cup {ColumnNode(x) : x \in {y \in Column : Observes(b, y)}}

DocumentLinksOf(b) == UNION {Range(DocumentLinks(d)) : d \in Range(b.documents)}
RelationsOf(b) == {Relates(r) : r \in Range(b.relations)}

\* The dict store keeps every edge; Neo4j only those whose endpoints are known
\* to be there when the edge is written: the bundle's own entities are.
EdgesOf(b) ==
    IF Backend = "InMemory"
      THEN DocumentLinksOf(b) \cup RelationsOf(b)
      ELSE {e \in RelationsOf(b) : {e.src, e.dst} \subseteq NodesOf(b)}

IsLoaded(item) == NodesOf(Bundle[item]) \subseteq nodes /\ EdgesOf(Bundle[item]) \subseteq edges

\* The entity that owns x when the entity loop is over: the last one listing it.
OwnersOf(b, x) ==
    {b.entities[i].uid : i \in {j \in DOMAIN b.entities :
        /\ Owns(b.entities[j], x)
        /\ \A k \in DOMAIN b.entities : k > j => ~Owns(b.entities[k], x)}}

\* Where a load stands: each element of the bundle is still to be written or is
\* in the graph.
ColumnsReach(c, observations) ==
    \A o \in observations : o \in Range(load[c].columns) \/ ColumnNode(o.column) \in nodes

DocumentsReach(c, b) ==
    \A d \in Range(b.documents) :
        \/ d \in Range(load[c].documents)
        \/ /\ DocumentNode(d.uri) \in nodes
           /\ Backend = "InMemory" =>
                Range(DocumentLinks(d)) \subseteq edges \cup Range(load[c].links)

EntitiesReach(c, b) ==
    \A e \in Range(b.entities) :
        \/ e \in Range(load[c].entities)
        \/ EntityNode(e.uid) \in nodes /\ ColumnsReach(c, Range(e.columns))

RelationsReach(c, b) ==
    \A r \in Range(b.relations) :
        r \in Range(load[c].relations) \/ Relates(r) \in edges \/ Relates(r) \notin EdgesOf(b)

Keeps(c, b) ==
    /\ DocumentsReach(c, b)
    /\ ColumnsReach(c, Range(b.columns))
    /\ EntitiesReach(c, b)
    /\ RelationsReach(c, b)

(***************************************************************************)
(* Properties.                                                             *)
(***************************************************************************)
\* An item in the ledger has been loaded in full: whatever failed, crashed or
\* ran beside it, each node of its bundle and each edge the store can hold is
\* in the graph.  Skipping the item later is therefore harmless
\* (pipeline.py:8-10).
DoneMeansLoaded ==
    \A c \in Client : \A i \in done[c] : IsLoaded(i)

\* The same for an item that is being loaded, at every step of load_bundle:
\* nothing of its bundle drops out of the loops before it is in the graph.
LoadKeepsAll == \A c \in Client : pc[c] = "load" => Keeps(c, Bundle[Current(c)])

\* A run that returns leaves every discovered item in its ledger, and with it
\* all its facts in the graph: no item is passed over silently.
RunReturnsComplete ==
    [][\A c \in Client : FinishRun(c) =>
        \A i \in Range(Discovered) : i \in done[c] /\ IsLoaded(i)]_vars

\* A resolution reported as AUTO_LINKED can be read back with resolve_column:
\* the metric, and through it the entity that owns the column.
LinkedAsReported ==
    \A c \in Client : \A r \in delivered[c] \cup Range(report[c]) :
        r.tier = "AUTO_LINKED" =>
            /\ r.metric \in ResolvedMetrics(r.column)
            /\ OwnersOf(Bundle[r.item], r.column) \subseteq ResolvedEntities(r.column, r.metric)

\* The names that may ever have been a rule for m: listed by a pack that validates,
\* or written back by a confirmation that returned.  What an invalid pack lists, or
\* a confirmation cut short would have added, is none.
SeedsOf(m) ==
    LET Definitions == UNION {Range(PackDef[p].metrics) : p \in {q \in Pack : Valid(q)}}
    IN  UNION {d.aliases : d \in {f \in Definitions : f.metric = m}}
RulesOf(m) == SeedsOf(m) \cup {NameOf[x] : x \in {y \in Column : <<y, m>> \in learned}}

\* No column is linked by a guess: a MEASURES edge was accepted by a human or
\* follows a rule for the column's name, and a metric APPLIES_TO an entity only
\* through a column of that entity that measures it.
LinksJustified ==
    /\ \A x \in Column, m \in Metric :
         Measures(x, m) \in edges => <<x, m>> \in accepted \/ NameOf[x] \in RulesOf(m)
    /\ \A m \in Metric, e \in Entity :
         AppliesTo(m, e) \in edges =>
            \E i \in Item, x \in Column : /\ e \in OwnersOf(Bundle[i], x)
                                          /\ m \in ResolvedMetrics(x)

\* A suggestion is never linked (funnel.py:10-12), not even when the metric learned
\* the name between the index that missed it and the terms read next, so that it
\* scores full marks: a MEASURES edge appears when a human accepts it, or in a load
\* that reports that column as AUTO_LINKED to that metric.
LinkedOnlyAsReported ==
    [][\A x \in Column, m \in Metric : Measures(x, m) \in edges' \ edges =>
         \/ <<x, m>> \in accepted'
         \/ \E c \in Client : \E r \in Range(load[c].resolutions) :
              load'[c] # load[c] /\ r = Resolution(Current(c), x, "AUTO_LINKED", m)]_vars

\* Every column of an item enters the funnel once and leaves at one tier: when
\* its load is over the outcomes are those of its iter_columns, in order
\* (funnel.py:4-5), and they stand together in the report, so that an item is
\* never in it twice or in part.
Columns(s) == [k \in DOMAIN s |-> s[k].column]
InOneBlock(s, item) ==
    LET outcomes == {k \in DOMAIN s : s[k].item = item}
        columns == IterColumns(Bundle[item])
    IN  \E n \in 0..Len(s) :
            /\ outcomes = (n + 1)..(n + Len(columns))
            /\ \A k \in DOMAIN columns : s[n + k].column = columns[k].column
ResolvedOnce ==
    \A c \in Client :
        /\ Loaded(c) =>
             Columns(load[c].resolutions) = Columns(IterColumns(Bundle[Current(c)]))
        /\ \A r \in Range(report[c]) : InOneBlock(report[c], r.item)

\* What a process reported as escalated is in its queue, waiting for a human.
EscalatedIsQueued ==
    \A c \in Client :
        \A r \in delivered[c] \cup Range(report[c]) \cup Range(load[c].resolutions) :
            r.tier = "ESCALATED" => r \in Range(queue[c])

\* A subtype label or a specialised edge is written only by a process that has
\* itself loaded a pack allowing it; what another process allows is no excuse.
OnlyAllowListed ==
    [][/\ \A e \in Entity, s \in Subtype :
            s \in labels'[e] \ labels[e] =>
                \E c \in Client : load'[c] # load[c] /\ s \in subtypes[c]
       /\ \A e \in edges' \ edges :
            e.rel \in RelationType =>
                \E c \in Client : load'[c] # load[c] /\ e.rel \in edgeTypes[c]]_vars

\* An escalation is filed once: ingesting again does not ask again.
FiledOnce ==
    \A c \in Client : \A i, j \in DOMAIN queue[c] : queue[c][i] = queue[c][j] => i = j

\* What a caller has been given, or is about to be, of the outcomes of item i.
HasOutcomes(c, i) ==
    \A x \in Column : Observes(Bundle[i], x) =>
        \E r \in delivered[c] \cup Range(report[c]) : r.item = i /\ r.column = x

\* What pipeline.py:54-55 comes to (for ledgers of their own): a done item whose
\* outcomes the caller neither has nor will get lost them to an exception of the very
\* run that loaded it, with that run's report; one in a later run takes nothing of it.
OutcomesLostByRaise ==
    \A c \in Client : \A i \in done'[c] : ~HasOutcomes(c, i)' =>
        \/ i \in done[c] /\ ~HasOutcomes(c, i)
        \/ /\ Fail(c) \/ RejectRelation(c)
           /\ \E r \in Range(report[c]) : r.item = i
OutcomesLostWithReport == [][OutcomesLostByRaise]_vars

\* The write-back loop: once a confirmation has returned, the confirmed name is
\* a rule of the metric, unless a pack lists aliases for that metric (loading it
\* again replaces the list).
ConfirmedStays ==
    \A x \in Column, m \in Metric :
        <<x, m>> \in learned /\ SeedsOf(m) = {} => NameOf[x] \in aliases[m]

(***************************************************************************)
(* What the repository's texts say, and the code does not do.              *)
(***************************************************************************)
\* "The loader creates a (:Document)-[:DESCRIBES]->(:Entity) edge for each"
\* (ir.py:77-78): in particular for each entity of the same bundle, once the
\* item is done.
DescribedEntitiesLinked ==
    \A c \in Client : \A i \in done[c] :
        \A d \in Range(Bundle[i].documents), e \in Range(Bundle[i].entities) :
            e.uid \in Range(d.describes) => Describes(d.uri, e.uid) \in edges

\* "So the pack's rule set grows in the graph" (loader.py:17-18): no step takes
\* an alias from a metric.
RuleSetGrows == [][\A m \in Metric : aliases[m] \subseteq aliases'[m]]_vars

\* "Returns the resolution outcome per column so the caller can act on tier-2
\* suggestions and tier-3 escalations" (pipeline.py:54-55): when no run is under
\* way, the caller has been given the outcomes of the items that are done.
OutcomesDelivered ==
    \A c \in Client : pc[c] # "run" /\ pc[c] # "load" =>
        \A i \in done[c], x \in Column : Observes(Bundle[i], x) =>
            \E r \in delivered[c] : r.item = i /\ r.column = x

(***************************************************************************)
(* Liveness and refinement.                                                *)
(***************************************************************************)
\* A call that has begun comes back, with a result or an exception.
CallReturns == \A c \in Client : pc[c] # "idle" ~> pc[c] = "idle"

\* Resumption: if the operator runs the ingestion again and again, whatever else is
\* asked of the process in between, runs cut short by exceptions and crashes still
\* get through the source.  An item that no rejected relation stands in the way of,
\* its own or one of an item before it, ends in the ledger for good.
Loadable(c, item) ==
    \A r \in Range(Bundle[item].relations) : Allowed(c, r.type)
EventuallyDone ==
    \A c \in Client : \A k \in DOMAIN Discovered :
        SF_vars(Ingest(c)) /\ <>[](\A j \in 1..k : Loadable(c, Discovered[j]))
          => <>[](Discovered[k] \in done[c])

\* Ingestion implements the growing ledger of FactLedger.
Facts(ns, es) == ({"node"} \X ns) \cup ({"edge"} \X es)
Abstract == INSTANCE FactLedger WITH
    Fact <- Facts(NodeId, EdgeId),
    Needs <- [i \in Item |-> Facts(NodesOf(Bundle[i]), EdgesOf(Bundle[i]))],
    facts <- Facts(nodes, edges), ledger <- done
AbstractSpec == Abstract!Spec
==============================================================================
