-------------------------------- MODULE Graph --------------------------------
(***************************************************************************)
(* The core ontology as graph/client.py writes it through graph/store.py.  *)
(* Every operation below is ONE store call: a dict update in               *)
(* InMemoryGraphStore, one autocommitted Cypher statement in               *)
(* Neo4jGraphStore.  Calls of different processes interleave only between  *)
(* store calls.                                                            *)
(*                                                                         *)
(* Kept of a node: that it exists, an entity's pack subtypes, a metric's   *)
(* aliases.  Kept of an edge: its identity (type, endpoints, role).  The   *)
(* properties that only describe a node or an edge (titles, formulas,      *)
(* sample values, provenance) never steer a write and are left out.        *)
(***************************************************************************)
EXTENDS Naturals, Sequences, FiniteSets

CONSTANTS
    Document, Column, Metric, Entity, Benchmark, \* identity keys, per label
    Subtype,        \* second labels an entity may carry
    RelationType,   \* pack-specialised entity-to-entity edge types
    Role,           \* roles that are part of an entity-to-entity edge's identity
    NoRole,         \* the role of a spine edge, which has none
    Name,           \* case-folded column names and metric terms
    Backend         \* which GraphStore is behind the client

ASSUME BackendAssumption == Backend \in {"InMemory", "Neo4j"}
ASSUME RoleAssumption == NoRole \notin Role

VARIABLES
    nodes,      \* identity of every node in the store
    edges,      \* identity of every relationship in the store
    labels,     \* pack subtypes of each entity
    aliases     \* case-folded aliases of each metric

graphVars == <<nodes, edges, labels, aliases>>

(***************************************************************************)
(* Identity.  A node is keyed by its base label and key properties, so     *)
(* equal keys under different labels are different nodes.                  *)
(***************************************************************************)
DocumentNode(d) == <<"Document", d>>
ColumnNode(x) == <<"Column", x>>
MetricNode(m) == <<"Metric", m>>
EntityNode(e) == <<"Entity", e>>
BenchmarkNode(b) == <<"Benchmark", b>>

NodeId == ({"Document"} \X Document) \cup ({"Column"} \X Column)
            \cup ({"Metric"} \X Metric) \cup ({"Entity"} \X Entity)
            \cup ({"Benchmark"} \X Benchmark)

Spine == {"MEASURES", "APPLIES_TO", "DEFINED_IN", "DESCRIBES"}
EdgeType == Spine \cup {"RELATED_TO"} \cup RelationType
EdgeId == [rel : EdgeType, role : Role \cup {NoRole}, src : NodeId, dst : NodeId]

SpineEdge(rel, src, dst) == [rel |-> rel, role |-> NoRole, src |-> src, dst |-> dst]
Measures(x, m) == SpineEdge("MEASURES", ColumnNode(x), MetricNode(m))
AppliesTo(m, e) == SpineEdge("APPLIES_TO", MetricNode(m), EntityNode(e))
DefinedIn(m, d) == SpineEdge("DEFINED_IN", MetricNode(m), DocumentNode(d))
Describes(d, e) == SpineEdge("DESCRIBES", DocumentNode(d), EntityNode(e))
Relates(r) == [rel |-> r.type, role |-> r.role,
               src |-> EntityNode(r.subject), dst |-> EntityNode(r.object)]

(***************************************************************************)
(* Writes.  Nodes are MERGEd on their key, so a second upsert adds         *)
(* nothing.  An edge is MERGEd by the dict store whatever its endpoints,   *)
(* but Neo4j MATCHes both endpoints first: with one of them absent the     *)
(* statement matches no row and quietly writes nothing.                    *)
(***************************************************************************)
UpsertNode(n) == nodes' = nodes \cup {n}

Stored(e) == Backend = "InMemory" \/ (e.src \in nodes /\ e.dst \in nodes)
\* Fault: a dict store that would MATCH its endpoints, as Neo4j does.
UpsertMatchedEdge(e) ==
    edges' = edges \cup {x \in {e} : e.src \in nodes /\ e.dst \in nodes}
UpsertEdge(e) == edges' = edges \cup {x \in {e} : Stored(x)}

\* Labels only accumulate: SET n:Label, or _labels.update.
AddLabels(e, subs) == labels' = [labels EXCEPT ![e] = @ \cup subs]

\* `aliases` is an ordinary property: SET n += replaces the whole list.
PutAliases(m, names) == aliases' = [aliases EXCEPT ![m] = names]

(***************************************************************************)
(* Reads.                                                                  *)
(***************************************************************************)
\* Neighbours whose own node exists: the dict store skips dangling edges.
OutNeighbors(n, rel) ==
    {e.dst : e \in {x \in edges : x.rel = rel /\ x.src = n /\ x.dst \in nodes}}

Catalog == {m \in Metric : MetricNode(m) \in nodes}

\* The metrics an alias index could return for a name.  When several claim it
\* the index keeps the last one scanned; the scan order is the store's own
\* (unspecified in Neo4j) and any of them may be the one.
Claimants(name) == {m \in Catalog : name \in aliases[m]}

\* resolve_column: the metrics a caller reads back for a column, and the
\* entities it reads back for each of them.
ResolvedMetrics(x) ==
    {m \in Metric : /\ ColumnNode(x) \in nodes
                    /\ MetricNode(m) \in OutNeighbors(ColumnNode(x), "MEASURES")}

ResolvedEntities(x, m) ==
    {e \in Entity : /\ m \in ResolvedMetrics(x)
                    /\ EntityNode(e) \in OutNeighbors(MetricNode(m), "APPLIES_TO")}

GraphInit ==
    /\ nodes = {}
    /\ edges = {}
    /\ labels = [e \in Entity |-> {}]
    /\ aliases = [m \in Metric |-> {}]

GraphTypeOK ==
    /\ nodes \subseteq NodeId
    /\ edges \subseteq EdgeId
    /\ labels \in [Entity -> SUBSET Subtype]
    /\ aliases \in [Metric -> SUBSET Name]
==============================================================================
