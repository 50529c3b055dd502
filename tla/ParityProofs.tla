---------------------------- MODULE ParityProofs -----------------------------
(***************************************************************************)
(* When free attributes leave the key of their own label alone and no      *)
(* subtype is a core label, the dict store is faithful to Neo4j's MERGE on a key.     *)
(* The argument: Neo4j's nodes are then always the image of the dict, one  *)
(* node to an identity, with the same properties and labels.               *)
(***************************************************************************)
EXTENDS StoreParity, FiniteSetTheorems, TLAPS

KeysKept == \A l \in FreeLabel : \A a \in Attributes[l] : a[KeyProperty[l]] = Unset
SubtypesNew == EntitySubtype \cap CoreLabel = {}

Written(h) == {i \in Identity : h[i] # NoNode}
Copy(h, i) == [id |-> <<i[1], i[2], 0>>, props |-> h[i].props, labels |-> h[i].labels]
Image(h) == {Copy(h, i) : i \in Written(h)}

\* A record keeps the key it was first written with, and one core label.
NodeRecord == [props : [Property -> Value], labels : SUBSET Labels]
Kept(h) ==
    /\ h \in [Identity -> NodeRecord]
    /\ \A i \in Written(h) : /\ h[i].props[KeyProperty[i[1]]] = i[2]
                             /\ h[i].labels \cap CoreLabel = {i[1]}

Mirrored == Kept(held) /\ nodes = Image(held) /\ constrained \subseteq CoreLabel

\* What the calls of the client pass to upsert_node.
Argument(l, k, a, extra) ==
    /\ l \in CoreLabel /\ k \in Key[l]
    /\ a \in [Property -> Value] /\ a[KeyProperty[l]] = Unset
    /\ extra \subseteq EntitySubtype

\* The two upserts, of any store.
Start(h, l, k) == IF h[<<l, k>>] = NoNode THEN Fresh(l, k) ELSE h[<<l, k>>]
HoldIn(h, l, k, a, extra) == [h EXCEPT ![<<l, k>>] = Updated(Start(h, l, k), a, extra)]
MatchingIn(ns, l, k) == {n \in ns : l \in n.labels /\ n.props[KeyProperty[l]] = k}
CreatedIn(ns, l, k) ==
    [id |-> <<l, k, Cardinality({n \in ns : n.id[1] = l /\ n.id[2] = k})>>,
     props |-> Fresh(l, k).props, labels |-> {l}]
MergeIn(ns, l, k, a, extra) ==
    LET found == IF MatchingIn(ns, l, k) = {} THEN {CreatedIn(ns, l, k)}
                                              ELSE MatchingIn(ns, l, k)
    IN  (ns \ found)
          \cup {[id |-> n.id, props |-> Updated(n, a, extra).props,
                 labels |-> n.labels \cup extra] : n \in found}

LEMMA SameUpserts ==
    ASSUME NEW l, NEW k, NEW a, NEW extra
    PROVE  /\ HoldNode(l, k, a, extra) = HoldIn(held, l, k, a, extra)
           /\ MergeNode(l, k, a, extra) = MergeIn(nodes, l, k, a, extra)
BY DEF HoldNode, HoldIn, Existing, Start, MergeNode, MergeIn, Matching, MatchingIn,
       Created, CreatedIn

\* An identity is a core label and a key of it.
LEMMA Identities ==
    /\ \A i \in Identity : i = <<i[1], i[2]>> /\ i[1] \in CoreLabel /\ i[2] \in Key[i[1]]
    /\ \A l \in CoreLabel : \A k \in Key[l] : <<l, k>> \in Identity
<1>1. ASSUME NEW i \in Identity
      PROVE  i = <<i[1], i[2]>> /\ i[1] \in CoreLabel /\ i[2] \in Key[i[1]]
  <2>1. PICK l \in CoreLabel : i \in {l} \X Key[l]
    BY DEF Identity
  <2>2. QED BY <2>1
<1>2. ASSUME NEW l \in CoreLabel, NEW k \in Key[l] PROVE <<l, k>> \in Identity
  <2>1. <<l, k>> \in {l} \X Key[l]
    OBVIOUS
  <2>2. QED BY <2>1 DEF Identity
<1>3. QED BY <1>1, <1>2

\* Keys are values, and not the absent one.
LEMMA Keys ==
    ASSUME NEW l \in CoreLabel, NEW k \in Key[l]
    PROVE  /\ k \in Value /\ k # Unset
           /\ KeyProperty[l] \in Property /\ KeyProperty[l] # "note"
<1>1. k \in UNION {Key[m] : m \in CoreLabel}
  OBVIOUS
<1>2. KeyProperty[l] \in {KeyProperty[m] : m \in CoreLabel}
  OBVIOUS
<1>3. KeyProperty[l] # "note"
  BY DEF CoreLabel, KeyProperty
<1>4. QED BY <1>1, <1>2, <1>3, ParityAssumption DEF Value, Property

\* A first record is well-formed and not the absent one.
LEMMA FreshTyped ==
    ASSUME NEW l \in CoreLabel, NEW k \in Key[l]
    PROVE  /\ Fresh(l, k) \in NodeRecord
           /\ Fresh(l, k).props[KeyProperty[l]] = k
           /\ Fresh(l, k).labels = {l}
<1>1. Unset \in Value
  BY DEF Value
<1>2. [p \in Property |-> IF p = KeyProperty[l] THEN k ELSE Unset] \in [Property -> Value]
  BY <1>1, Keys
<1>3. {l} \subseteq Labels
  BY DEF Labels
<1>4. QED BY <1>2, <1>3, Keys DEF Fresh, NodeRecord

\* An update keeps the key and adds no core label.
LEMMA UpdatedTyped ==
    ASSUME SubtypesNew, NEW l, NEW k, NEW a, NEW extra, Argument(l, k, a, extra),
           NEW n, n.props \in [Property -> Value], n.labels \in SUBSET Labels,
           n.props[KeyProperty[l]] = k, n.labels \cap CoreLabel = {l}
    PROVE  /\ Updated(n, a, extra) \in NodeRecord
           /\ Updated(n, a, extra).props[KeyProperty[l]] = k
           /\ Updated(n, a, extra).labels = n.labels \cup extra
           /\ Updated(n, a, extra).labels \cap CoreLabel = {l}
           /\ Updated(n, a, extra) # NoNode
<1>1. KeyProperty[l] \in Property
  BY Keys DEF Argument
<1>2. [p \in Property |-> IF a[p] = Unset THEN n.props[p] ELSE a[p]] \in [Property -> Value]
  BY DEF Argument
<1>3. n.labels \cup extra \subseteq Labels
  BY DEF Argument, Labels
<1>4. (n.labels \cup extra) \cap CoreLabel = {l}
  BY DEF Argument, SubtypesNew
<1>5. QED BY <1>1, <1>2, <1>3, <1>4 DEF Updated, NodeRecord, NoNode, Argument

\* The dict stays well kept.
LEMMA HoldKept ==
    ASSUME SubtypesNew, NEW l, NEW k, NEW a, NEW extra, Argument(l, k, a, extra),
           NEW h, Kept(h)
    PROVE  /\ Kept(HoldIn(h, l, k, a, extra))
           /\ Written(HoldIn(h, l, k, a, extra)) = Written(h) \cup {<<l, k>>}
<1> DEFINE i == <<l, k>>
           s == Start(h, l, k)
           u == Updated(s, a, extra)
           g == HoldIn(h, l, k, a, extra)
<1>1. i \in Identity /\ i[1] = l /\ i[2] = k
  BY Identities DEF Argument
<1>2. /\ s.props \in [Property -> Value] /\ s.labels \in SUBSET Labels
      /\ s.props[KeyProperty[l]] = k /\ s.labels \cap CoreLabel = {l}
  <2>1. CASE h[i] = NoNode
    BY <2>1, FreshTyped DEF Start, NodeRecord, Argument
  <2>2. CASE h[i] # NoNode
    <3>1. s = h[i] /\ i \in Written(h)
      BY <1>1, <2>2 DEF Start, Written
    <3>2. QED BY <1>1, <3>1 DEF Kept, NodeRecord
  <2>3. QED BY <2>1, <2>2
<1>3. /\ u \in NodeRecord /\ u.props[KeyProperty[l]] = k
      /\ u.labels \cap CoreLabel = {l} /\ u # NoNode
  BY <1>2, UpdatedTyped
<1> HIDE DEF u
<1>4. /\ g \in [Identity -> NodeRecord]
      /\ g[i] = u
      /\ \A j \in Identity : j # i => g[j] = h[j]
  BY <1>1, <1>3 DEF HoldIn, Kept, u
<1>5. Written(g) = Written(h) \cup {i}
  BY <1>1, <1>3, <1>4 DEF Written
<1>6. Kept(g)
  BY <1>1, <1>3, <1>4, <1>5 DEF Kept, Written
<1>7. QED BY <1>5, <1>6

\* MATCH finds the image of the record under the same identity, and nothing else.
LEMMA MatchesImage ==
    ASSUME NEW h, Kept(h), NEW l \in CoreLabel, NEW k \in Key[l]
    PROVE  MatchingIn(Image(h), l, k) =
             IF h[<<l, k>>] = NoNode THEN {} ELSE {Copy(h, <<l, k>>)}
<1> DEFINE i == <<l, k>>
<1>1. i \in Identity
  BY Identities
<1>2. ASSUME NEW j \in Written(h), l \in Copy(h, j).labels,
             Copy(h, j).props[KeyProperty[l]] = k
      PROVE  j = i
  <2>1. j = <<j[1], j[2]>> /\ j[1] \in CoreLabel
    BY Identities DEF Written
  <2>2. j[1] = l
    BY <1>2 DEF Copy, Kept
  <2>3. j[2] = k
    BY <1>2, <2>2 DEF Copy, Kept
  <2>4. QED BY <2>1, <2>2, <2>3
<1>3. MatchingIn(Image(h), l, k) \subseteq {Copy(h, j) : j \in Written(h) \cap {i}}
  BY <1>2 DEF MatchingIn, Image
<1>4. ASSUME i \in Written(h) PROVE Copy(h, i) \in MatchingIn(Image(h), l, k)
  <2>1. Copy(h, i) \in Image(h)
    BY <1>4 DEF Image
  <2>2. h[i].props[KeyProperty[l]] = k /\ l \in h[i].labels
    BY <1>4 DEF Kept
  <2>3. QED BY <2>1, <2>2 DEF MatchingIn, Copy
<1>5. CASE h[i] = NoNode
  BY <1>3, <1>5 DEF Written
<1>6. CASE h[i] # NoNode
  BY <1>1, <1>3, <1>4, <1>6 DEF Written
<1>7. QED BY <1>5, <1>6

\* MERGE makes the image of what the dict makes.
LEMMA MergeImage ==
    ASSUME SubtypesNew, NEW l, NEW k, NEW a, NEW extra, Argument(l, k, a, extra),
           NEW h, Kept(h)
    PROVE  MergeIn(Image(h), l, k, a, extra) = Image(HoldIn(h, l, k, a, extra))
<1> DEFINE i == <<l, k>>
           s == Start(h, l, k)
           g == HoldIn(h, l, k, a, extra)
           base == [id |-> <<l, k, 0>>, props |-> s.props, labels |-> s.labels]
           new == [id |-> <<l, k, 0>>, props |-> Updated(base, a, extra).props,
                   labels |-> base.labels \cup extra]
           found == IF MatchingIn(Image(h), l, k) = {} THEN {CreatedIn(Image(h), l, k)}
                                                       ELSE MatchingIn(Image(h), l, k)
<1>1. i \in Identity /\ i[1] = l /\ i[2] = k
  BY Identities DEF Argument
<1>2. found = {base}
  <2>1. CASE h[i] = NoNode
    <3>1. MatchingIn(Image(h), l, k) = {}
      BY <2>1, MatchesImage DEF Argument
    <3>2. \A n \in Image(h) : ~(n.id[1] = l /\ n.id[2] = k)
      <4>1. ASSUME NEW j \in Written(h), j[1] = l, j[2] = k PROVE FALSE
        BY <2>1, <4>1, Identities DEF Written
      <4>2. QED BY <4>1 DEF Image, Copy
    <3>3. {n \in Image(h) : n.id[1] = l /\ n.id[2] = k} = {}
      BY <3>2
    <3>4. Cardinality({n \in Image(h) : n.id[1] = l /\ n.id[2] = k}) = 0
      BY <3>3, FS_EmptySet
    <3>5. CreatedIn(Image(h), l, k) = base
      <4>1. s = Fresh(l, k)
        BY <2>1 DEF Start
      <4>2. s.labels = {l}
        BY <4>1 DEF Fresh
      <4>3. QED BY <3>4, <4>1, <4>2 DEF CreatedIn
    <3>6. QED BY <3>1, <3>5
  <2>2. CASE h[i] # NoNode
    <3>1. MatchingIn(Image(h), l, k) = {Copy(h, i)}
      BY <2>2, MatchesImage DEF Argument
    <3>2. Copy(h, i) = base
      BY <1>1, <2>2 DEF Copy, Start
    <3>3. QED BY <3>1, <3>2
  <2>3. QED BY <2>1, <2>2
<1>3. MergeIn(Image(h), l, k, a, extra) = (Image(h) \ {base}) \cup {new}
  BY <1>2 DEF MergeIn
<1>4. Copy(g, i) = new
  <2>1. g[i] = Updated(s, a, extra)
    BY <1>1 DEF HoldIn, Kept
  <2>2. g[i].props = Updated(base, a, extra).props /\ g[i].labels = s.labels \cup extra
    BY <2>1 DEF Updated
  <2>3. QED BY <1>1, <2>2 DEF Copy
<1>5. \A j \in Written(h) : j # i => Copy(g, j) = Copy(h, j)
  BY <1>1 DEF HoldIn, Kept, Written, Copy
<1>6. Written(g) = Written(h) \cup {i}
  BY HoldKept
<1>7. ASSUME NEW j \in Written(h), j # i PROVE Copy(h, j) # base
  <2>1. j = <<j[1], j[2]>>
    BY Identities DEF Written
  <2>2. QED BY <1>7, <2>1 DEF Copy
<1>8. i \in Written(h) => Copy(h, i) = base
  BY <1>1 DEF Copy, Start, Written
<1>9. Image(h) \ {base} = {Copy(h, j) : j \in Written(h) \ {i}}
  BY <1>7, <1>8 DEF Image
<1>10. Image(g) = {Copy(h, j) : j \in Written(h) \ {i}} \cup {new}
  BY <1>4, <1>5, <1>6 DEF Image
<1>11. QED BY <1>3, <1>9, <1>10

\* The constraints are never in the way.
LEMMA ImageObeys ==
    ASSUME NEW h, Kept(h), NEW m \in CoreLabel
    PROVE  Obeys(m, Image(h))
<1>1. ASSUME NEW i \in Written(h), NEW j \in Written(h), Copy(h, i) # Copy(h, j),
             NEW l \in CoreLabel, l \in Copy(h, i).labels, l \in Copy(h, j).labels
      PROVE  Copy(h, i).props[KeyProperty[l]] # Copy(h, j).props[KeyProperty[l]]
  <2>1. i[1] = l /\ j[1] = l
    BY <1>1 DEF Copy, Kept
  <2>2. i[2] # j[2]
    BY <1>1, <2>1, Identities DEF Written
  <2>3. QED BY <2>1, <2>2 DEF Copy, Kept
<1>2. ASSUME NEW i \in Written(h), "Column" \in Copy(h, i).labels
      PROVE  Copy(h, i).props[KeyProperty["Column"]] # Unset
  <2>1. "Column" \in CoreLabel
    BY DEF CoreLabel
  <2>2. i[1] = "Column" /\ i[2] \in Key["Column"]
    BY <1>2, <2>1, Identities DEF Copy, Kept, Written
  <2>3. i[2] # Unset
    BY <2>1, <2>2, Keys
  <2>4. QED BY <2>2, <2>3 DEF Copy, Kept
<1>3. QED BY <1>1, <1>2 DEF Obeys, Image

\* Both stores take a call the same way.
LEMMA UpsertMirrored ==
    ASSUME SubtypesNew, Mirrored, NEW l, NEW k, NEW a, NEW extra,
           Argument(l, k, a, extra), UpsertNode(l, k, a, extra)
    PROVE  /\ Mirrored'
           /\ held' = HoldIn(held, l, k, a, extra)
           /\ Written(held) \subseteq Written(held')
<1>1. held' = HoldIn(held, l, k, a, extra)
  BY SameUpserts DEF UpsertNode
<1>2. Kept(held') /\ Written(held) \subseteq Written(held')
  BY <1>1, HoldKept DEF Mirrored
<1>3. MergeNode(l, k, a, extra) = Image(held')
  BY <1>1, SameUpserts, MergeImage DEF Mirrored
<1>4. nodes' = Image(held')
  <2>1. \A m \in constrained : Obeys(m, Image(held'))
    BY <1>2, ImageObeys DEF Mirrored
  <2>2. \A m \in constrained : Obeys(m, MergeNode(l, k, a, extra))
    BY <1>3, <2>1
  <2>3. QED BY <1>3, <2>2 DEF UpsertNode
<1>5. constrained' \subseteq CoreLabel
  BY DEF UpsertNode, Mirrored
<1>6. QED BY <1>1, <1>2, <1>4, <1>5 DEF Mirrored, Kept, Image, Written, Copy

\* The upserts of the client are such calls.
LEMMA NotesTyped ==
    ASSUME NEW l \in CoreLabel, NEW k \in Key[l], NEW a \in Notes
    PROVE  Argument(l, k, a, {})
<1>1. Note \cup {Unset} \subseteq Value
  BY DEF Value
<1>2. a \in [Property -> Value] /\ \A p \in Property : p # "note" => a[p] = Unset
  BY <1>1 DEF Notes
<1>3. QED BY <1>2, Keys DEF Argument

LEMMA FreeTyped ==
    ASSUME KeysKept, NEW l \in FreeLabel, NEW k \in Key[l], NEW a \in Attributes[l],
           NEW extra, extra \subseteq EntitySubtype
    PROVE  Argument(l, k, a, extra)
<1>1. l \in CoreLabel
  BY DEF CoreLabel, FreeLabel
<1>2. a \in [Property -> Value] /\ a[KeyProperty[l]] = Unset
  BY ParityAssumption DEF KeysKept
<1>3. QED BY <1>1, <1>2 DEF Argument

LEMMA UpsertTyped ==
    ASSUME KeysKept, Upsert
    PROVE  \E l \in CoreLabel : \E k \in Key[l] : \E a, extra :
             Argument(l, k, a, extra) /\ UpsertNode(l, k, a, extra)
<1> DEFINE Taken(l) == \E k \in Key[l] : \E a, extra :
                         Argument(l, k, a, extra) /\ UpsertNode(l, k, a, extra)
<1>1. ASSUME NEW l \in CoreLabel, \E k \in Key[l], a \in Notes : UpsertNode(l, k, a, {})
      PROVE  Taken(l)
  BY <1>1, NotesTyped
<1>2. ASSUME NEW l \in FreeLabel,
             \E k \in Key[l], a \in Attributes[l], extra \in SUBSET EntitySubtype :
                UpsertNode(l, k, a, extra)
      PROVE  Taken(l)
  BY <1>2, FreeTyped
<1>3. /\ Key["Metric"] = MetricKey /\ Key["Column"] = Triple /\ Key["Document"] = DocumentUri
      /\ Key["Benchmark"] = BenchmarkKey /\ Key["Party"] = Uid /\ Key["Entity"] = Uid
      /\ FreeLabel \subseteq CoreLabel /\ {"Column", "Document"} \subseteq CoreLabel
      /\ {"Metric", "Benchmark", "Party", "Entity"} \subseteq FreeLabel
  BY DEF Key, CoreLabel, FreeLabel
<1> HIDE DEF Taken
<1>4. CASE UpsertEntity
  <2>1. PICK k \in Uid, a \in Attributes["Entity"], extra \in SUBSET EntitySubtype :
          UpsertNode("Entity", k, a, extra)
    BY <1>4 DEF UpsertEntity
  <2>2. Taken("Entity")
    BY <1>2, <1>3, <2>1
  <2>3. QED BY <1>3, <2>2 DEF Taken
<1>5. CASE UpsertColumn \/ UpsertDocument
  <2>1. Taken("Column") \/ Taken("Document")
    BY <1>1, <1>3, <1>5 DEF UpsertColumn, UpsertDocument
  <2>2. QED BY <1>3, <2>1 DEF Taken
<1>6. CASE UpsertMetric \/ UpsertBenchmark \/ UpsertParty
  <2>1. {} \in SUBSET EntitySubtype
    OBVIOUS
  <2>2. Taken("Metric") \/ Taken("Benchmark") \/ Taken("Party")
    BY <1>2, <1>3, <1>6, <2>1 DEF UpsertMetric, UpsertBenchmark, UpsertParty
  <2>3. QED BY <1>3, <2>2 DEF Taken
<1>7. QED BY <1>4, <1>5, <1>6 DEF Upsert

\* Nothing is written.
LEMMA MirroredInit == Init => Mirrored
<1> SUFFICES ASSUME Init PROVE Mirrored
  OBVIOUS
<1>1. NoNode \in NodeRecord
  BY DEF NoNode, NodeRecord, Value
<1>2. Written(held) = {} /\ held \in [Identity -> NodeRecord]
  BY <1>1 DEF Init, Written
<1>3. QED BY <1>2 DEF Init, Mirrored, Kept, Image

(***************************************************************************)
(* Edges.  Neo4j has those that were written when both ends were there.    *)
(***************************************************************************)
Element(i) == <<i[1], i[2], 0>>
Relationship(e) ==
    [rel |-> e.rel, src |-> Element(e.src), dst |-> Element(e.dst), role |-> e.role]

EdgesMirrored ==
    /\ edges = {Relationship(e) : e \in anchored}
    /\ \A e \in anchored : e.src \in Written(held) /\ e.dst \in Written(held)

IInv == Mirrored /\ EdgesMirrored

LEMMA Matches ==
    ASSUME Mirrored, NEW i \in Identity
    PROVE  Matching(i[1], i[2]) = IF held[i] = NoNode THEN {} ELSE {Copy(held, i)}
BY Identities, MatchesImage DEF Mirrored, Matching, MatchingIn

\* A link lands in both stores, or in the dict alone.
LEMMA EdgeMirrored ==
    ASSUME IInv, NEW rel, NEW src \in Identity, NEW dst \in Identity, NEW role,
           UpsertEdge(rel, src, dst, role)
    PROVE  IInv'
<1> DEFINE edge == [rel |-> rel, src |-> src, dst |-> dst, role |-> role]
<1> USE DEF IInv
<1>1. Mirrored' /\ held' = held
  BY DEF UpsertEdge, Mirrored, Kept, Image, Written, Copy
<1>2. CASE held[src] # NoNode /\ held[dst] # NoNode
  <2>1. anchored' = anchored \cup {edge}
    BY <1>2 DEF UpsertEdge
  <2>2. Matching(src[1], src[2]) = {Copy(held, src)} /\ Matching(dst[1], dst[2]) = {Copy(held, dst)}
    BY <1>2, Matches
  <2>3. MergeEdge(rel, src, dst, role) = edges \cup {Relationship(edge)}
    BY <2>2 DEF MergeEdge, Relationship, Element, Copy
  <2>4. edges' = {Relationship(e) : e \in anchored'}
    BY <2>1, <2>3 DEF UpsertEdge, EdgesMirrored
  <2>5. \A e \in anchored' : e.src \in Written(held) /\ e.dst \in Written(held)
    BY <1>2, <2>1 DEF EdgesMirrored, Written
  <2>6. QED BY <1>1, <2>4, <2>5 DEF EdgesMirrored, Written
<1>3. CASE held[src] = NoNode \/ held[dst] = NoNode
  <2>1. Matching(src[1], src[2]) = {} \/ Matching(dst[1], dst[2]) = {}
    BY <1>3, Matches
  <2>2. MergeEdge(rel, src, dst, role) = edges
    BY <2>1 DEF MergeEdge
  <2>3. anchored' = anchored /\ edges' = edges
    BY <1>3, <2>2 DEF UpsertEdge
  <2>4. QED BY <1>1, <2>3 DEF EdgesMirrored, Written
<1>4. QED BY <1>2, <1>3

\* Every edge call of the client names two identities.
LEMMA LinkTyped ==
    ASSUME (\E rel \in RelType : Link(rel)) \/ RelateSpecialised
    PROVE  \E rel, role : \E src \in Identity, dst \in Identity : UpsertEdge(rel, src, dst, role)
<1>1. ASSUME NEW rel \in RelType, Link(rel)
      PROVE  \E role : \E src \in Identity, dst \in Identity : UpsertEdge(rel, src, dst, role)
  <2>1. Spine[rel][1] \in CoreLabel /\ Spine[rel][2] \in CoreLabel
    BY DEF RelType, Spine, CoreLabel
  <2>2. PICK k \in Key[Spine[rel][1]] : \E l \in Key[Spine[rel][2]] :
             \E role : UpsertEdge(rel, <<Spine[rel][1], k>>, <<Spine[rel][2], l>>, role)
    BY <1>1 DEF Link
  <2>3. PICK l \in Key[Spine[rel][2]] :
             \E role : UpsertEdge(rel, <<Spine[rel][1], k>>, <<Spine[rel][2], l>>, role)
    BY <2>2
  <2>4. /\ <<Spine[rel][1], k>> \in Identity
        /\ <<Spine[rel][2], l>> \in Identity
    BY <2>1, Identities
  <2>5. QED BY <2>3, <2>4
<1>2. CASE RelateSpecialised
  <2>1. \A k \in Uid : <<"Entity", k>> \in Identity
    <3>1. "Entity" \in CoreLabel /\ Key["Entity"] = Uid
      BY DEF CoreLabel, Key
    <3>2. QED BY <3>1, Identities
  <2>2. QED BY <1>2, <2>1 DEF RelateSpecialised
<1>3. QED BY <1>1, <1>2

\* Both stores begin empty.
LEMMA IInvInit == Init => IInv
BY MirroredInit DEF Init, IInv, EdgesMirrored

\* Every call keeps the image.
LEMMA IInvNext ==
    ASSUME KeysKept, SubtypesNew, IInv, [Next]_vars
    PROVE  IInv'
<1>1. CASE Upsert
  <2>1. \E l \in CoreLabel : \E k \in Key[l] : \E a, extra :
            Argument(l, k, a, extra) /\ UpsertNode(l, k, a, extra)
    BY <1>1, UpsertTyped
  <2>2. PICK l, k, a, extra : Argument(l, k, a, extra) /\ UpsertNode(l, k, a, extra)
    BY <2>1
  <2>3. Mirrored' /\ Written(held) \subseteq Written(held')
    BY <2>2, UpsertMirrored DEF IInv
  <2>4. UNCHANGED <<edges, anchored>>
    BY <2>2 DEF UpsertNode
  <2>5. QED BY <2>3, <2>4 DEF IInv, EdgesMirrored, Written
<1>2. CASE (\E rel \in RelType : Link(rel)) \/ RelateSpecialised
  BY <1>2, LinkTyped, EdgeMirrored
<1>3. CASE InitSchema \/ UNCHANGED vars
  <2>1. UNCHANGED <<held, nodes, edges, anchored>>
    BY <1>3 DEF InitSchema, vars
  <2>2. constrained' \subseteq CoreLabel
    <3>1. \A i \in DOMAIN CoreConstraints : CoreConstraints[i] \in CoreLabel
      BY DEF CoreConstraints, CoreLabel
    <3>2. QED BY <1>3, <3>1 DEF InitSchema, vars, IInv, Mirrored
  <2>3. QED BY <2>1, <2>2 DEF IInv, Mirrored, Kept, Image, Written, Copy, EdgesMirrored
<1>4. QED BY <1>1, <1>2, <1>3 DEF Next

(***************************************************************************)
(* The theorems.                                                           *)
(***************************************************************************)
\* A second equal upsert finds nothing to change.
LEMMA HoldTwice ==
    ASSUME SubtypesNew, NEW l, NEW k, NEW a, NEW extra, Argument(l, k, a, extra),
           NEW h, Kept(h)
    PROVE  HoldIn(HoldIn(h, l, k, a, extra), l, k, a, extra) = HoldIn(h, l, k, a, extra)
<1> DEFINE i == <<l, k>>
           g == HoldIn(h, l, k, a, extra)
           u == Updated(Start(h, l, k), a, extra)
<1>1. i \in Identity
  BY Identities DEF Argument
<1>2. g[i] = u
  BY <1>1 DEF HoldIn, Kept
<1>3. Kept(g) /\ g[i] # NoNode
  BY <1>1, HoldKept DEF Written
<1>4. Start(g, l, k) = u
  BY <1>2, <1>3 DEF Start
<1>5. Updated(u, a, extra) = u
  BY DEF Updated
<1>6. QED BY <1>1, <1>2, <1>3, <1>4, <1>5 DEF HoldIn, Kept

LEMMA UpsertSettles ==
    ASSUME SubtypesNew, Mirrored, NEW l, NEW k, NEW a, NEW extra,
           Argument(l, k, a, extra), UpsertNode(l, k, a, extra)
    PROVE  Settled(l, k, a, extra)'
<1>1. Mirrored' /\ held' = HoldIn(held, l, k, a, extra)
  BY UpsertMirrored
<1>2. HoldIn(held', l, k, a, extra) = held'
  BY <1>1, HoldTwice DEF Mirrored
<1>3. Kept(held') /\ nodes' = Image(held')
  BY <1>1 DEF Mirrored, Kept, Image, Written, Copy
<1>4. MergeIn(nodes', l, k, a, extra) = nodes'
  BY <1>2, <1>3, MergeImage
<1>5. \A m \in constrained' : Obeys(m, nodes')
  BY <1>1, <1>3, ImageObeys DEF Mirrored
<1>6. HoldNode(l, k, a, extra)' = held'
  BY <1>2 DEF HoldNode, HoldIn, Existing, Start
<1>7. MergeNode(l, k, a, extra)' = nodes'
  BY <1>4 DEF MergeNode, MergeIn, Matching, MatchingIn, Created, CreatedIn
<1>8. QED BY <1>5, <1>6, <1>7 DEF Settled, Obeys

\* Whatever is written in whatever order, both stores answer get_node and
\* nodes_by_label alike.
THEOREM StoresAgree ==
    ASSUME KeysKept, SubtypesNew
    PROVE  Spec => []SameNodes
<1>1. IInv => SameNodes
  <2> SUFFICES ASSUME IInv, NEW l \in CoreLabel
               PROVE  /\ \A k \in Key[l] : HeldNode(l, k) = MatchedNode(l, k)
                      /\ HeldByLabel(l) = MatchedByLabel(l)
    BY DEF SameNodes
  <2>1. ASSUME NEW i \in Identity PROVE Record(Copy(held, i)) = held[i]
    BY DEF IInv, Mirrored, Kept, NodeRecord, Record, Copy
  <2>2. ASSUME NEW k \in Key[l] PROVE HeldNode(l, k) = MatchedNode(l, k)
    <3>1. <<l, k>> \in Identity
      BY Identities
    <3>2. Matching(l, k) = IF held[<<l, k>>] = NoNode THEN {} ELSE {Copy(held, <<l, k>>)}
      BY MatchesImage DEF IInv, Mirrored, Matching, MatchingIn
    <3>3. QED BY <2>1, <3>1, <3>2 DEF HeldNode, MatchedNode
  <2>3. MatchedByLabel(l) = {held[i] : i \in {j \in Written(held) : l \in held[j].labels}}
    <3> DEFINE bearing == {j \in Written(held) : l \in held[j].labels}
    <3>1. {m \in nodes : l \in m.labels} = {Copy(held, j) : j \in bearing}
      BY DEF IInv, Mirrored, Image, Copy
    <3>2. MatchedByLabel(l) = {Record(n) : n \in {Copy(held, j) : j \in bearing}}
      BY <3>1 DEF MatchedByLabel
    <3>3. @ = {Record(Copy(held, j)) : j \in bearing}
      OBVIOUS
    <3>4. @ = {held[j] : j \in bearing}
      BY <2>1 DEF Written
    <3>5. QED BY <3>2, <3>3, <3>4
  <2>4. \A i \in Written(held) : l \in held[i].labels <=> i[1] = l
    BY DEF IInv, Mirrored, Kept
  <2>5. HeldByLabel(l) = {held[i] : i \in {j \in Written(held) : j[1] = l}}
    <3>1. ASSUME NEW k \in Key[l]
          PROVE  HeldNode(l, k) = {held[i] : i \in Written(held) \cap {<<l, k>>}}
      BY Identities DEF HeldNode, Written
    <3>2. ASSUME NEW i \in Written(held), i[1] = l
          PROVE  \E k \in Key[l] : i = <<l, k>>
      BY <3>2, Identities DEF Written
    <3>3. QED BY <3>1, <3>2 DEF HeldByLabel
  <2>6. QED BY <2>2, <2>3, <2>4, <2>5
<1>2. IInv /\ [Next]_vars => IInv'
  BY IInvNext
<1>3. QED BY <1>1, <1>2, IInvInit, PTL DEF Spec

\* They answer out_neighbors alike for every edge written when its ends were there.
THEOREM NeighborsAgree ==
    ASSUME KeysKept, SubtypesNew
    PROVE  Spec => []SameNeighbors
<1>1. IInv => SameNeighbors
  <2> SUFFICES ASSUME IInv, NEW l \in CoreLabel, NEW k \in Key[l], NEW rel
               PROVE  HeldNeighbors(l, k, rel, anchored) = MatchedNeighbors(l, k, rel)
    BY DEF SameNeighbors
  <2> DEFINE i == <<l, k>>
             here == {e \in anchored : e.rel = rel /\ e.src = i}
  <2>1. i \in Identity /\ i[1] = l /\ i[2] = k
    BY Identities
  <2>2. \A e \in anchored : e.src \in Written(held) /\ e.dst \in Written(held)
    BY DEF IInv, EdgesMirrored
  <2>3. \A j \in Identity, m \in Identity : Element(j) = Element(m) => j = m
    BY Identities DEF Element
  <2>4. HeldNeighbors(l, k, rel, anchored) = {<<held[e.dst], e.role>> : e \in here}
    BY <2>2 DEF HeldNeighbors, Written
  <2>5. {f \in edges : f.rel = rel /\ f.src \in {n.id : n \in Matching(l, k)}}
          = {Relationship(e) : e \in here}
    <3>1. {n.id : n \in Matching(l, k)} = IF held[i] = NoNode THEN {} ELSE {Element(i)}
      <4>1. Matching(l, k) = IF held[i] = NoNode THEN {} ELSE {Copy(held, i)}
        BY <2>1, Matches DEF IInv
      <4>2. Copy(held, i).id = Element(i)
        BY <2>1 DEF Copy, Element
      <4>3. QED BY <4>1, <4>2
    <3>2. \A e \in anchored : Element(e.src) \in {n.id : n \in Matching(l, k)} <=> e.src = i
      BY <2>1, <2>2, <2>3, <3>1 DEF Written
    <3>3. QED BY <3>2 DEF IInv, EdgesMirrored, Relationship
  <2>6. ASSUME NEW e \in here
        PROVE  {<<Record(d), Relationship(e).role>> : d \in {n \in nodes : n.id = Relationship(e).dst}}
                 = {<<held[e.dst], e.role>>}
    <3>1. e.dst \in Written(held)
      BY <2>2
    <3>2. {n \in nodes : n.id = Element(e.dst)} = {Copy(held, e.dst)}
      BY <2>3, <3>1 DEF IInv, Mirrored, Image, Copy, Element, Written
    <3>3. Record(Copy(held, e.dst)) = held[e.dst]
      BY <3>1 DEF IInv, Mirrored, Kept, NodeRecord, Record, Copy, Written
    <3>4. QED BY <3>2, <3>3 DEF Relationship
  <2>7. MatchedNeighbors(l, k, rel)
          = UNION {{<<Record(d), Relationship(e).role>> :
                      d \in {n \in nodes : n.id = Relationship(e).dst}} : e \in here}
    <3> DEFINE Ends(f) == {<<Record(d), f.role>> : d \in {n \in nodes : n.id = f.dst}}
               there == {f \in edges : f.rel = rel /\ f.src \in {n.id : n \in Matching(l, k)}}
    <3>1. MatchedNeighbors(l, k, rel) = UNION {Ends(f) : f \in there}
      BY DEF MatchedNeighbors
    <3>2. {Ends(f) : f \in there} = {Ends(Relationship(e)) : e \in here}
      <4>1. there = {Relationship(e) : e \in here}
        BY <2>5
      <4> HIDE DEF Ends, there, here
      <4>2. QED BY <4>1
    <3>3. QED BY <3>1, <3>2
  <2>8. MatchedNeighbors(l, k, rel) = UNION {{<<held[e.dst], e.role>>} : e \in here}
    BY <2>6, <2>7
  <2>9. QED BY <2>4, <2>8
<1>2. IInv /\ [Next]_vars => IInv'
  BY IInvNext
<1>3. QED BY <1>1, <1>2, IInvInit, PTL DEF Spec

\* An upsert that took effect has nothing left to do, and is never refused.
THEOREM UpsertIdempotent ==
    ASSUME KeysKept, SubtypesNew
    PROVE  Spec => RerunIsNoOp
<1>1. IInv /\ [Next]_vars =>
        [held' # held =>
          \A l \in CoreLabel : \A k \in Key[l], a \in AttributesOf(l), extra \in ExtrasOf(l) :
            UpsertNode(l, k, a, extra) => Settled(l, k, a, extra)']_vars
  <2> SUFFICES ASSUME IInv, NEW l \in CoreLabel, NEW k \in Key[l], NEW a \in AttributesOf(l),
                      NEW extra \in ExtrasOf(l), UpsertNode(l, k, a, extra)
               PROVE  Settled(l, k, a, extra)'
    OBVIOUS
  <2>1. Argument(l, k, a, extra)
    <3>1. extra \subseteq EntitySubtype
      BY DEF ExtrasOf
    <3>2. CASE l \in FreeLabel
      BY <3>1, <3>2, FreeTyped DEF AttributesOf
    <3>3. CASE l \notin FreeLabel
      <4>1. a \in Notes /\ extra = {}
        BY <3>3 DEF AttributesOf, ExtrasOf, FreeLabel
      <4>2. QED BY <4>1, NotesTyped
    <3>4. QED BY <3>2, <3>3
  <2>2. QED BY <2>1, UpsertSettles DEF IInv
<1>2. IInv /\ [Next]_vars => IInv'
  BY IInvNext
<1>3. QED BY <1>1, <1>2, IInvInit, PTL DEF Spec, RerunIsNoOp

\* Whatever was written before init_schema, it creates every constraint.
THEOREM SchemaAlwaysCan ==
    ASSUME KeysKept, SubtypesNew
    PROVE  Spec => []SchemaCanCome
<1>1. IInv => SchemaCanCome
  BY ImageObeys DEF IInv, Mirrored, SchemaCanCome
<1>2. IInv /\ [Next]_vars => IInv'
  BY IInvNext
<1>3. QED BY <1>1, <1>2, IInvInit, PTL DEF Spec

\* What the counters and the history say does not depend on what is written.
Counted == anchored \subseteq heldEdges /\ calls \in 0..MaxCalls

LEMMA CountedNext == Counted /\ [Next]_vars => Counted'
<1> SUFFICES ASSUME Counted, [Next]_vars PROVE Counted'
  OBVIOUS
<1> USE DEF Counted
<1>1. \A n \in 0..MaxCalls : n < MaxCalls => n + 1 \in 0..MaxCalls
  BY ParityAssumption
<1>2. Called => calls' \in 0..MaxCalls
  BY <1>1 DEF Called
<1>3. CASE UNCHANGED vars
  BY <1>3 DEF vars
<1>4. CASE InitSchema
  BY <1>2, <1>4 DEF InitSchema
<1>5. ASSUME NEW l, NEW k, NEW a, NEW extra, UpsertNode(l, k, a, extra) PROVE Counted'
  BY <1>2, <1>5 DEF UpsertNode
<1>6. ASSUME NEW rel, NEW src, NEW dst, NEW role, UpsertEdge(rel, src, dst, role) PROVE Counted'
  BY <1>2, <1>6 DEF UpsertEdge
<1>7. CASE Upsert
  BY <1>5, <1>7 DEF Upsert, UpsertEntity, UpsertMetric, UpsertColumn, UpsertDocument,
                    UpsertBenchmark, UpsertParty
<1>8. CASE (\E rel \in RelType : Link(rel)) \/ RelateSpecialised
  BY <1>6, <1>8 DEF Link, RelateSpecialised
<1>9. QED BY <1>3, <1>4, <1>7, <1>8 DEF Next

\* Under the same conditions the dict files every record under its own base label,
\* and Neo4j has one node to an element id and no relationship without its ends.
THEOREM ParityTyped ==
    ASSUME KeysKept, SubtypesNew
    PROVE  Spec => []TypeOK
<1>1. IInv /\ Counted => TypeOK
  <2> SUFFICES ASSUME IInv, Counted PROVE TypeOK
    OBVIOUS
  <2>1. /\ held \in [Identity -> NodeRecord]
        /\ \A i \in Written(held) : held[i].labels \cap CoreLabel = {i[1]}
        /\ nodes = {Copy(held, i) : i \in Written(held)}
        /\ constrained \subseteq CoreLabel
    BY DEF IInv, Mirrored, Kept, Image
  <2>2. \A i \in Identity : i[1] \in held[i].labels \/ held[i] = NoNode
    BY <2>1 DEF Written
  <2>3. \A n, m \in nodes : n.id = m.id => n = m
    <3>1. SUFFICES ASSUME NEW i \in Written(held), NEW j \in Written(held),
                          Copy(held, i).id = Copy(held, j).id
                   PROVE  Copy(held, i) = Copy(held, j)
      BY <2>1
    <3>2. i[1] = j[1] /\ i[2] = j[2]
      BY <3>1 DEF Copy
    <3>3. i = j
      BY <3>2, Identities DEF Written
    <3>4. QED BY <3>3
  <2>4. \A e \in edges : {e.src, e.dst} \subseteq {n.id : n \in nodes}
    <3>1. ASSUME NEW i \in Written(held) PROVE Element(i) \in {n.id : n \in nodes}
      <4>1. Copy(held, i) \in nodes
        BY <2>1
      <4>2. Copy(held, i).id = Element(i)
        BY DEF Copy, Element
      <4>3. \E n \in nodes : n.id = Element(i)
        BY <4>1, <4>2
      <4>4. QED BY <4>3
    <3>2. QED BY <3>1 DEF IInv, EdgesMirrored, Relationship
  <2>5. QED BY <2>1, <2>2, <2>3, <2>4 DEF TypeOK, Counted, NodeRecord
<1>2. Init => Counted
  BY ParityAssumption DEF Init, Counted
<1>3. IInv /\ [Next]_vars => IInv'
  BY IInvNext
<1>4. QED BY <1>1, <1>2, <1>3, CountedNext, IInvInit, PTL DEF Spec
==============================================================================
