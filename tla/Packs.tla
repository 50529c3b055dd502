-------------------------------- MODULE Packs --------------------------------
(***************************************************************************)
(* packs/loader.py: loading a pack into one process.  The allow-lists it   *)
(* registers live in that process's GraphClient; the metric catalog and    *)
(* the benchmarks go to the shared store, one upsert per call.             *)
(***************************************************************************)
EXTENDS Graph

CONSTANTS
    Client,         \* processes, each with its own GraphClient and Resolver
    Pack,           \* the packs an operator may load
    PackDef,        \* what each pack declares
    Namespace,      \* metric-key namespaces
    NamespaceOf     \* namespace prefix of each metric key

ASSUME NamespaceAssumption == NamespaceOf \in [Metric -> Namespace]

MetricDef == [metric : Metric, aliases : SUBSET Name]

ASSUME PackAssumption ==
    PackDef \in [Pack -> [namespaces : SUBSET Namespace,
                          subtypes : SUBSET Subtype,
                          edge_types : SUBSET RelationType,
                          metrics : Seq(MetricDef),
                          benchmarks : Seq(Benchmark)]]

VARIABLES
    pc,         \* the call each process is executing
    subtypes,   \* GraphClient._entity_subtypes
    edgeTypes,  \* GraphClient._pack_edge_types
    catalog     \* what load_pack still has to upsert

packVars == <<pc, subtypes, edgeTypes, catalog>>

NothingLeft == [metrics |-> <<>>, benchmarks |-> <<>>]

At(c, call) == pc[c] = call
Goto(c, call) == pc' = [pc EXCEPT ![c] = call]

\* Pack.validate: every metric is in the pack's namespace or the shared one.
\* (The field `namespaces` holds both.)
Valid(p) == \A i \in DOMAIN PackDef[p].metrics :
                NamespaceOf[PackDef[p].metrics[i].metric] \in PackDef[p].namespaces

\* Validation precedes every write: an invalid pack raises and changes nothing.
BeginLoadPack(c, p) ==
    /\ At(c, "idle")
    /\ Valid(p)
    /\ subtypes' = [subtypes EXCEPT ![c] = @ \cup PackDef[p].subtypes]
    /\ edgeTypes' = [edgeTypes EXCEPT ![c] = @ \cup PackDef[p].edge_types]
    /\ catalog' = [catalog EXCEPT ![c] = [metrics |-> PackDef[p].metrics,
                                          benchmarks |-> PackDef[p].benchmarks]]
    /\ Goto(c, "pack")
    /\ UNCHANGED graphVars

\* A definition without aliases leaves the stored list alone; one with aliases
\* replaces it.  (ClobberedAliases is a fault for the checks, as are the other
\* definitions said to be faults in these modules: no action uses them.)
ClobberedAliases(def) == def.aliases
SeededAliases(def) ==
    IF def.aliases = {} THEN aliases[def.metric] ELSE def.aliases

UpsertMetric(c) ==
    /\ At(c, "pack")
    /\ catalog[c].metrics # <<>>
    /\ LET def == Head(catalog[c].metrics)
       IN  /\ UpsertNode(MetricNode(def.metric))
           /\ PutAliases(def.metric, SeededAliases(def))
    /\ catalog' = [catalog EXCEPT ![c].metrics = Tail(@)]
    /\ UNCHANGED <<edges, labels, pc, subtypes, edgeTypes>>

UpsertBenchmark(c) ==
    /\ At(c, "pack")
    /\ catalog[c].metrics = <<>>
    /\ catalog[c].benchmarks # <<>>
    /\ UpsertNode(BenchmarkNode(Head(catalog[c].benchmarks)))
    /\ catalog' = [catalog EXCEPT ![c].benchmarks = Tail(@)]
    /\ UNCHANGED <<edges, labels, aliases, pc, subtypes, edgeTypes>>

EndLoadPack(c) ==
    /\ At(c, "pack")
    /\ catalog[c] = NothingLeft
    /\ Goto(c, "idle")
    /\ UNCHANGED <<graphVars, subtypes, edgeTypes, catalog>>

LoadPackStep(c) == UpsertMetric(c) \/ UpsertBenchmark(c) \/ EndLoadPack(c)

PacksInit ==
    /\ pc = [c \in Client |-> "idle"]
    /\ subtypes = [c \in Client |-> {}]
    /\ edgeTypes = [c \in Client |-> {}]
    /\ catalog = [c \in Client |-> NothingLeft]

PacksTypeOK ==
    /\ pc \in [Client -> {"idle", "pack", "confirm", "learn", "run", "load"}]
    /\ subtypes \in [Client -> SUBSET Subtype]
    /\ edgeTypes \in [Client -> SUBSET RelationType]
    /\ catalog \in [Client -> [metrics : Seq(MetricDef), benchmarks : Seq(Benchmark)]]
==============================================================================
