---------------------------- MODULE StoreParity ------------------------------
(***************************************************************************)
(* graph/store.py, both stores side by side, driven by the same calls of   *)
(* graph/client.py.                                                        *)
(*                                                                         *)
(* The dict store finds a node by its base label and the key it was FIRST  *)
(* written with.  Neo4j finds it by the labels and property values it has  *)
(* NOW: MERGE and MATCH look at the current ones, and SET may change them. *)
(* A composite key (system, table, name) is one property here, and what a  *)
(* node holds besides its key is the property `note`.  _clean drops the    *)
(* properties a call leaves unset, so they keep the value they have.       *)
(***************************************************************************)
EXTENDS Naturals, Sequences, FiniteSets

CONSTANTS
    Uid, MetricKey, Triple, DocumentUri, BenchmarkKey,   \* identity keys
    Note,               \* values of other properties
    Unset,              \* the value of a property that is not there
    Attributes,         \* what the free `attributes` of a label's nodes may set
    EntitySubtype,      \* the subtypes the loaded packs allow
    PackEdgeType,       \* the specialised edge types they allow
    Role, NoRole,
    MaxCalls            \* bound on the calls made

CoreLabel == {"Entity", "Metric", "Column", "Document", "Benchmark", "Party"}
KeyProperty == [Entity |-> "uid", Party |-> "uid", Metric |-> "metric_key",
                Column |-> "triple", Document |-> "uri", Benchmark |-> "benchmark_key"]
Key == [Entity |-> Uid, Party |-> Uid, Metric |-> MetricKey,
        Column |-> Triple, Document |-> DocumentUri, Benchmark |-> BenchmarkKey]
Property == {KeyProperty[l] : l \in CoreLabel} \cup {"note"}
Value == (UNION {Key[l] : l \in CoreLabel}) \cup Note \cup {Unset}

\* The spine: what each relationship type connects (model.py:16-23).
Spine == [MEASURES |-> <<"Column", "Metric">>, APPLIES_TO |-> <<"Metric", "Entity">>,
          DEFINED_IN |-> <<"Metric", "Document">>,
          BENCHMARKED_AGAINST |-> <<"Metric", "Benchmark">>,
          COMPUTED_FROM |-> <<"Metric", "Metric">>, DESCRIBES |-> <<"Document", "Entity">>,
          HAS_ROLE |-> <<"Party", "Entity">>, RELATED_TO |-> <<"Entity", "Entity">>]
RelType == DOMAIN Spine

\* CORE_CONSTRAINTS, in order (model.py:175-182).
CoreConstraints == <<"Entity", "Metric", "Document", "Benchmark", "Party", "Column">>

\* The labels whose upsert passes a dict of the caller's on to the store.
FreeLabel == {"Entity", "Metric", "Benchmark", "Party"}

ASSUME ParityAssumption ==
    /\ Unset \notin (UNION {Key[l] : l \in CoreLabel}) \cup Note
    /\ Attributes \in [FreeLabel -> SUBSET [Property -> Value]]
    /\ NoRole \notin Role
    /\ MaxCalls \in Nat

Labels == CoreLabel \cup EntitySubtype
Identity == UNION {{l} \X Key[l] : l \in CoreLabel}

VARIABLES
    held,       \* InMemoryGraphStore._nodes: the record under each identity, if any
    heldEdges,  \* InMemoryGraphStore._edges
    nodes,      \* Neo4j's nodes, each with an element id of its own
    edges,      \* Neo4j's relationships, between element ids
    constrained,\* the labels whose constraint Neo4j has
    anchored,   \* edges written while both of their ends were there (history)
    calls       \* calls made so far

vars == <<held, heldEdges, nodes, edges, constrained, anchored, calls>>

NoNode == [props |-> [p \in Property |-> Unset], labels |-> {}]

(***************************************************************************)
(* What an upsert makes of a record.                                       *)
(***************************************************************************)
Fresh(l, k) == [props |-> [p \in Property |-> IF p = KeyProperty[l] THEN k ELSE Unset],
                labels |-> {l}]

\* Fault: `SET n = $set_props`.
Replaced(n, attributes, extra) == [props |-> attributes, labels |-> n.labels \cup extra]
Updated(n, attributes, extra) ==
    [props |-> [p \in Property |-> IF attributes[p] = Unset THEN n.props[p]
                                                            ELSE attributes[p]],
     labels |-> n.labels \cup extra]

\* InMemoryGraphStore.upsert_node.  (Fault: a new record lacks its base label.)
Bare(l, k) == IF held[<<l, k>>] = NoNode THEN [Fresh(l, k) EXCEPT !.labels = {}]
                                         ELSE held[<<l, k>>]
Existing(l, k) == IF held[<<l, k>>] = NoNode THEN Fresh(l, k) ELSE held[<<l, k>>]
HoldNode(l, k, attributes, extra) ==
    [held EXCEPT ![<<l, k>>] = Updated(Existing(l, k), attributes, extra)]

\* MATCH (n:l {key: k}).
Matching(l, k) == {n \in nodes : l \in n.labels /\ n.props[KeyProperty[l]] = k}

Created(l, k) ==
    LET nth == Cardinality({n \in nodes : n.id[1] = l /\ n.id[2] = k})
    IN  [id |-> <<l, k, nth>>, props |-> Fresh(l, k).props, labels |-> {l}]

\* MERGE (n:l {key: k}) SET n += attributes SET n:extra.
\* (Fault: CREATE instead of MERGE.)
CreateNode(l, k, attributes, extra) ==
    LET n == Created(l, k)
    IN  nodes \cup {[id |-> n.id, props |-> Updated(n, attributes, extra).props,
                     labels |-> n.labels \cup extra]}
MergeNode(l, k, attributes, extra) ==
    LET found == IF Matching(l, k) = {} THEN {Created(l, k)} ELSE Matching(l, k)
    IN  (nodes \ found)
          \cup {[id |-> n.id, props |-> Updated(n, attributes, extra).props,
                 labels |-> n.labels \cup extra] : n \in found}

\* The constraint of a label: one node to a key; a Column has its key (NODE KEY).
Obeys(l, ns) ==
    /\ \A n, m \in ns :
         /\ n # m
         /\ l \in n.labels \cap m.labels
         /\ n.props[KeyProperty[l]] # Unset
         => n.props[KeyProperty[l]] # m.props[KeyProperty[l]]
    /\ l = "Column" => \A n \in ns : l \in n.labels => n.props[KeyProperty[l]] # Unset

Called == calls < MaxCalls /\ calls' = calls + 1

\* A statement that would break a constraint raises and changes nothing.
UpsertNode(l, k, attributes, extra) ==
    LET merged == MergeNode(l, k, attributes, extra)
    IN  /\ Called
        /\ held' = HoldNode(l, k, attributes, extra)
        /\ nodes' = IF \A m \in constrained : Obeys(m, merged) THEN merged ELSE nodes
        /\ UNCHANGED <<heldEdges, edges, constrained, anchored>>

\* MATCH (s) MATCH (d) MERGE (s)-[r:rel {role}]->(d).
\* (Fault: the role is not part of the pattern, and the first one stays.)
MergeAnyRole(rel, src, dst, role) ==
    edges \cup {e \in {[rel |-> rel, src |-> s.id, dst |-> d.id, role |-> role] :
                        s \in Matching(src[1], src[2]), d \in Matching(dst[1], dst[2])} :
                    \A f \in edges : <<f.rel, f.src, f.dst>> # <<e.rel, e.src, e.dst>>}
MergeEdge(rel, src, dst, role) ==
    edges \cup {[rel |-> rel, src |-> s.id, dst |-> d.id, role |-> role] :
                    s \in Matching(src[1], src[2]), d \in Matching(dst[1], dst[2])}

UpsertEdge(rel, src, dst, role) ==
    LET edge == [rel |-> rel, src |-> src, dst |-> dst, role |-> role]
    IN  /\ Called
        /\ heldEdges' = heldEdges \cup {edge}
        /\ edges' = MergeEdge(rel, src, dst, role)
        /\ anchored' = IF held[src] # NoNode /\ held[dst] # NoNode
                         THEN anchored \cup {edge} ELSE anchored
        /\ UNCHANGED <<held, nodes, constrained>>

(***************************************************************************)
(* GraphClient.                                                            *)
(***************************************************************************)
Notes == {[p \in Property |-> IF p = "note" THEN v ELSE Unset] : v \in Note \cup {Unset}}

\* One statement to a constraint, IF NOT EXISTS; one the data does not satisfy
\* raises, and those after it are not reached.
InitSchema ==
    /\ Called
    /\ constrained' = constrained \cup
         {CoreConstraints[i] : i \in {j \in DOMAIN CoreConstraints :
                                    \A h \in 1..j : Obeys(CoreConstraints[h], nodes)}}
    /\ UNCHANGED <<held, heldEdges, nodes, edges, anchored>>

UpsertEntity ==
    \E uid \in Uid, a \in Attributes["Entity"] :
        \/ UpsertNode("Entity", uid, a, {})
        \/ \E subtype \in EntitySubtype : UpsertNode("Entity", uid, a, {subtype})
\* The formula, unit and definitions of a metric are among its attributes.
UpsertMetric ==
    \E k \in MetricKey, a \in Attributes["Metric"] : UpsertNode("Metric", k, a, {})
UpsertColumn == \E k \in Triple, a \in Notes : UpsertNode("Column", k, a, {})
UpsertDocument == \E k \in DocumentUri, a \in Notes : UpsertNode("Document", k, a, {})
UpsertBenchmark ==
    \E k \in BenchmarkKey, a \in Attributes["Benchmark"] : UpsertNode("Benchmark", k, a, {})
UpsertParty == \E uid \in Uid, a \in Attributes["Party"] : UpsertNode("Party", uid, a, {})

\* The eight typed links; a role is part of the identity where there is one.
Link(rel) ==
    \E k \in Key[Spine[rel][1]], l \in Key[Spine[rel][2]] :
    \E role \in IF rel \in {"HAS_ROLE", "RELATED_TO"} THEN Role ELSE {NoRole} :
        UpsertEdge(rel, <<Spine[rel][1], k>>, <<Spine[rel][2], l>>, role)

\* relate_entities with a type a loaded pack allows.
RelateSpecialised ==
    \E rel \in PackEdgeType, k \in Uid, l \in Uid, role \in Role :
        UpsertEdge(rel, <<"Entity", k>>, <<"Entity", l>>, role)

Upsert == \/ UpsertEntity \/ UpsertMetric \/ UpsertColumn
          \/ UpsertDocument \/ UpsertBenchmark \/ UpsertParty

Init ==
    /\ held = [i \in Identity |-> NoNode]
    /\ heldEdges = {}
    /\ nodes = {}
    /\ edges = {}
    /\ constrained = {}
    /\ anchored = {}
    /\ calls = 0

Next == InitSchema \/ Upsert \/ (\E rel \in RelType : Link(rel)) \/ RelateSpecialised

Spec == Init /\ [][Next]_vars

(***************************************************************************)
(* Reads: get_node, nodes_by_label and out_neighbors of each store, without *)
(* the order of a list.                                                    *)
(***************************************************************************)
Record(n) == [props |-> n.props, labels |-> n.labels]

HeldNode(l, k) == {held[<<l, k>>]} \ {NoNode}
MatchedNode(l, k) == {Record(n) : n \in Matching(l, k)}

HeldByLabel(l) == UNION {HeldNode(l, k) : k \in Key[l]}
MatchedByLabel(l) == {Record(n) : n \in {m \in nodes : l \in m.labels}}

HeldNeighbors(l, k, rel, among) ==
    {<<held[e.dst], e.role>> :
        e \in {f \in among : f.rel = rel /\ f.src = <<l, k>> /\ held[f.dst] # NoNode}}
MatchedNeighbors(l, k, rel) ==
    UNION {{<<Record(d), e.role>> : d \in {n \in nodes : n.id = e.dst}} :
             e \in {f \in edges : f.rel = rel /\ f.src \in {n.id : n \in Matching(l, k)}}}

TypeOK ==
    /\ held \in [Identity -> [props : [Property -> Value], labels : SUBSET Labels]]
    /\ \A i \in Identity : i[1] \in held[i].labels \/ held[i] = NoNode
    /\ \A n, m \in nodes : n.id = m.id => n = m
    /\ \A e \in edges : {e.src, e.dst} \subseteq {n.id : n \in nodes}
    /\ anchored \subseteq heldEdges
    /\ constrained \subseteq CoreLabel
    /\ calls \in 0..MaxCalls

(***************************************************************************)
(* Properties.                                                             *)
(***************************************************************************)
\* The tests run on the dict store and stand for the other one ("faithful to
\* MERGE-on-key semantics", store.py:91): both answer get_node and
\* nodes_by_label alike, whatever was written in whatever order.
SameNodes ==
    \A l \in CoreLabel :
        /\ \A k \in Key[l] : HeldNode(l, k) = MatchedNode(l, k)
        /\ HeldByLabel(l) = MatchedByLabel(l)

\* They answer out_neighbors alike for the edges that were written, at least
\* once, when both of their ends were there; Neo4j has no others.
SameNeighbors ==
    \A l \in CoreLabel : \A k \in Key[l], rel \in RelType \cup PackEdgeType :
        HeldNeighbors(l, k, rel, anchored) = MatchedNeighbors(l, k, rel)

\* What the client passes to upsert_node.
AttributesOf(l) == IF l \in FreeLabel THEN Attributes[l] ELSE Notes
ExtrasOf(l) == {{}} \cup {{s} : s \in IF l = "Entity" THEN EntitySubtype ELSE {}}

\* "Re-running with equal input is a no-op" (store.py:57): what an upsert did,
\* the same upsert does not do again, in either store, nor is it refused.
Settled(l, k, attributes, extra) ==
    LET merged == MergeNode(l, k, attributes, extra)
    IN  /\ HoldNode(l, k, attributes, extra) = held
        /\ merged = nodes
        /\ \A m \in constrained : Obeys(m, merged)
RerunIsNoOp ==
    [][held' # held =>
        \A l \in CoreLabel : \A k \in Key[l], a \in AttributesOf(l), extra \in ExtrasOf(l) :
            UpsertNode(l, k, a, extra) => Settled(l, k, a, extra)']_vars

\* init_schema is "Idempotent" (client.py:49), and may come when there is data: nothing
\* that was written without the constraints keeps it from creating all of them.
SchemaCanCome == \A l \in CoreLabel : Obeys(l, nodes)
==============================================================================
