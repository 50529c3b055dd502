--------------------------- MODULE PlatformProofs ----------------------------
(***************************************************************************)
(* Type correctness of the composed system: one lemma per action, since    *)
(* the types of the queues and of the call a process is in depend on each  *)
(* other.                                                                  *)
(***************************************************************************)
EXTENDS Platform, TLAPS

\* What serving a queue does to the set of its members.
LEMMA TailRange ==
    ASSUME NEW S, NEW s \in Seq(S), s # <<>>
    PROVE  /\ Tail(s) \in Seq(S)
           /\ Head(s) \in S
           /\ Head(s) \in Range(s)
           /\ \A x \in Range(s) : x = Head(s) \/ x \in Range(Tail(s))
           /\ Range(Tail(s)) \subseteq Range(s)
<1>1. /\ Tail(s) \in Seq(S)
      /\ Head(s) \in S
      /\ Len(s) \in Nat /\ Len(s) > 0
      /\ DOMAIN s = 1..Len(s)
      /\ Head(s) = s[1]
      /\ DOMAIN Tail(s) = 1..(Len(s) - 1)
      /\ \A i \in 1..(Len(s) - 1) : Tail(s)[i] = s[i + 1]
  OBVIOUS
<1>2. Head(s) \in Range(s)
  BY <1>1 DEF Range
<1>3. ASSUME NEW x \in Range(s) PROVE x = Head(s) \/ x \in Range(Tail(s))
  <2>1. PICK i \in 1..Len(s) : x = s[i]
    BY <1>1 DEF Range
  <2>2. CASE i = 1
    BY <2>1, <2>2, <1>1
  <2>3. CASE i # 1
    <3>1. i - 1 \in 1..(Len(s) - 1) /\ Tail(s)[i - 1] = s[i]
      BY <2>3, <1>1
    <3>2. QED BY <3>1, <2>1, <1>1 DEF Range
  <2>4. QED BY <2>2, <2>3
<1>4. Range(Tail(s)) \subseteq Range(s)
  <2>1. ASSUME NEW i \in 1..(Len(s) - 1) PROVE Tail(s)[i] \in Range(s)
    <3>1. i + 1 \in DOMAIN s BY <1>1
    <3>2. QED BY <3>1, <1>1 DEF Range
  <2>2. QED BY <2>1, <1>1 DEF Range
<1>5. QED BY <1>1, <1>2, <1>3, <1>4

\* A bundle gives a well-formed load.
LEMMA NewLoadTyped ==
    ASSUME NEW b \in ParsedBundle
    PROVE  NewLoad(b) \in Pending
BY PipelineAssumption DEF NewLoad, Pending, ParsedBundle

\* So does no bundle at all.
LEMMA NoLoadTyped == NoLoad \in Pending
BY PipelineAssumption DEF NoLoad, NewLoad, Pending

\* Every edge the client writes is an edge of the ontology.
LEMMA LinksTyped ==
    /\ \A d \in ObservedDocument : DocumentLinks(d) \in Seq(EdgeId)
    /\ \A x \in Column, m \in Metric : Measures(x, m) \in EdgeId
    /\ \A e \in Entity, m \in Metric : AppliesTo(m, e) \in EdgeId
    /\ \A r \in ObservedRelation : Relates(r) \in EdgeId
<1>1. \A d \in Document, e \in Entity : Describes(d, e) \in EdgeId
  BY DEF Describes, SpineEdge, EdgeId, EdgeType, Spine, NodeId, DocumentNode, EntityNode
<1>2. \A d \in Document, m \in Metric : DefinedIn(m, d) \in EdgeId
  BY DEF DefinedIn, SpineEdge, EdgeId, EdgeType, Spine, NodeId, DocumentNode, MetricNode
<1>3. \A x \in Column, m \in Metric : Measures(x, m) \in EdgeId
  BY DEF Measures, SpineEdge, EdgeId, EdgeType, Spine, NodeId, ColumnNode, MetricNode
<1>4. \A e \in Entity, m \in Metric : AppliesTo(m, e) \in EdgeId
  BY DEF AppliesTo, SpineEdge, EdgeId, EdgeType, Spine, NodeId, EntityNode, MetricNode
<1>5. \A r \in ObservedRelation : Relates(r) \in EdgeId
  BY DEF Relates, EdgeId, EdgeType, NodeId, EntityNode, ObservedRelation
<1>6. ASSUME NEW d \in ObservedDocument PROVE DocumentLinks(d) \in Seq(EdgeId)
  <2> DEFINE describes == [i \in 1..Len(d.describes) |-> Describes(d.uri, d.describes[i])]
             defines == [i \in 1..Len(d.defines) |-> DefinedIn(d.defines[i], d.uri)]
  <2>1. /\ d.uri \in Document
        /\ d.describes \in Seq(Entity)
        /\ d.defines \in Seq(Metric)
    BY DEF ObservedDocument
  <2>2. describes \in Seq(EdgeId)
    BY <2>1, <1>1
  <2>3. defines \in Seq(EdgeId)
    BY <2>1, <1>2
  <2>4. describes \o defines \in Seq(EdgeId)
    BY <2>2, <2>3
  <2>5. QED BY <2>4 DEF DocumentLinks
<1>7. QED BY <1>3, <1>4, <1>5, <1>6

\* Types: what each call leaves behind.
LEMMA LoadPackTyped ==
    ASSUME TypeOK, NEW c \in Client, LoadPack(c)
    PROVE  TypeOK'
<1> USE DEF TypeOK
<1>1. PICK p \in Pack : BeginLoadPack(c, p)
  BY DEF LoadPack
<1>2. GraphTypeOK'
  BY <1>1 DEF BeginLoadPack, graphVars, GraphTypeOK
<1>3. PackDef[p] \in [namespaces : SUBSET Namespace, subtypes : SUBSET Subtype,
                      edge_types : SUBSET RelationType, metrics : Seq(MetricDef),
                      benchmarks : Seq(Benchmark)]
  BY PackAssumption
<1>4. PacksTypeOK'
  BY <1>1, <1>3 DEF BeginLoadPack, PacksTypeOK, Goto
<1>5. FunnelTypeOK' /\ PipelineTypeOK' /\ (failures \in 0..MaxFailures)'
  BY <1>1 DEF LoadPack, BeginLoadPack, At, Goto, funnelVars, pipelineVars,
              FunnelTypeOK, PipelineTypeOK, PacksTypeOK
<1>6. QED BY <1>2, <1>4, <1>5

\* The upserts of load_pack keep every type.
LEMMA LoadPackStepTyped ==
    ASSUME TypeOK, NEW c \in Client, LoadPackStep(c),
           UNCHANGED <<funnelVars, pipelineVars, failures>>
    PROVE  TypeOK'
<1> USE DEF TypeOK
<1>1. CASE UpsertMetric(c)
  <2>1. catalog[c].metrics \in Seq(MetricDef) /\ catalog[c].metrics # <<>>
    BY <1>1 DEF UpsertMetric, PacksTypeOK
  <2>2. Head(catalog[c].metrics) \in MetricDef /\ Tail(catalog[c].metrics) \in Seq(MetricDef)
    BY <2>1, TailRange
  <2>3. GraphTypeOK'
    BY <1>1, <2>2 DEF UpsertMetric, UpsertNode, PutAliases, SeededAliases, GraphTypeOK,
                      MetricDef, MetricNode, NodeId
  <2>4. PacksTypeOK'
    BY <1>1, <2>2 DEF UpsertMetric, PacksTypeOK
  <2>5. FunnelTypeOK' /\ PipelineTypeOK' /\ (failures \in 0..MaxFailures)'
    BY <1>1 DEF UpsertMetric, funnelVars, pipelineVars, FunnelTypeOK, PipelineTypeOK
  <2>6. QED BY <2>3, <2>4, <2>5
<1>2. CASE UpsertBenchmark(c)
  <2>1. catalog[c].benchmarks \in Seq(Benchmark) /\ catalog[c].benchmarks # <<>>
    BY <1>2 DEF UpsertBenchmark, PacksTypeOK
  <2>2. /\ Head(catalog[c].benchmarks) \in Benchmark
        /\ Tail(catalog[c].benchmarks) \in Seq(Benchmark)
    BY <2>1, TailRange
  <2>3. GraphTypeOK'
    BY <1>2, <2>2 DEF UpsertBenchmark, UpsertNode, GraphTypeOK, BenchmarkNode, NodeId
  <2>4. PacksTypeOK'
    BY <1>2, <2>2 DEF UpsertBenchmark, PacksTypeOK
  <2>5. FunnelTypeOK' /\ PipelineTypeOK' /\ (failures \in 0..MaxFailures)'
    BY <1>2 DEF UpsertBenchmark, funnelVars, pipelineVars, FunnelTypeOK, PipelineTypeOK
  <2>6. QED BY <2>3, <2>4, <2>5
<1>3. CASE EndLoadPack(c)
  <2>1. GraphTypeOK' /\ PacksTypeOK'
    BY <1>3 DEF EndLoadPack, graphVars, Goto, GraphTypeOK, PacksTypeOK
  <2>2. FunnelTypeOK' /\ PipelineTypeOK' /\ (failures \in 0..MaxFailures)'
    BY <1>3 DEF EndLoadPack, At, Goto, funnelVars, pipelineVars, FunnelTypeOK,
                PipelineTypeOK, PacksTypeOK
  <2>3. QED BY <2>1, <2>2
<1>4. QED BY <1>1, <1>2, <1>3 DEF LoadPackStep

\* What a human answers keeps every type.
LEMMA AnswerTyped ==
    ASSUME TypeOK, NEW c \in Client, Answer(c)
    PROVE  TypeOK'
<1> USE DEF TypeOK
<1>1. ASSUME NEW x \in Column, NEW m \in Metric, ConfirmLink(c, x, m)
      PROVE  TypeOK'
  <2>1. GraphTypeOK'
    BY <1>1, LinksTyped DEF ConfirmLink, UpsertEdge, GraphTypeOK
  <2>2. PacksTypeOK'
    BY <1>1 DEF ConfirmLink, Goto, PacksTypeOK
  <2>3. [column |-> x, metric |-> m, read |-> {}] \in Confirmation
    BY DEF Confirmation
  <2>4. [column |-> x, metric |-> m, read |-> {}] # NoConfirmation
    BY FunnelAssumption DEF NoConfirmation
  <2>5. FunnelTypeOK'
    BY <1>1, <2>3, <2>4 DEF ConfirmLink, Goto, PacksTypeOK, FunnelTypeOK
  <2>6. PipelineTypeOK' /\ (failures \in 0..MaxFailures)'
    BY <1>1 DEF Answer, ConfirmLink, At, Goto, pipelineVars, PacksTypeOK, PipelineTypeOK
  <2>7. QED BY <2>1, <2>2, <2>5, <2>6
<1>2. ASSUME NEW m \in Metric, DefineMetric(c, m)
      PROVE  TypeOK'
  <2>1. GraphTypeOK'
    BY <1>2 DEF DefineMetric, UpsertNode, GraphTypeOK, MetricNode, NodeId
  <2>2. PacksTypeOK' /\ FunnelTypeOK' /\ PipelineTypeOK' /\ (failures \in 0..MaxFailures)'
    BY <1>2 DEF Answer, DefineMetric, packVars, funnelVars, pipelineVars,
                PacksTypeOK, FunnelTypeOK, PipelineTypeOK
  <2>3. QED BY <2>1, <2>2
<1>3. \A x \in Awaiting(c) : x \in Column
  <2>1. \A q \in Range(queue[c]) : q \in Outcome
    BY DEF FunnelTypeOK, Range
  <2>2. \A q \in delivered[c] : q \in Outcome
    BY DEF PipelineTypeOK
  <2>3. QED BY <2>1, <2>2 DEF Awaiting, Outcome
<1>4. QED BY <1>1, <1>2, <1>3 DEF Answer, Catalog

\* The rest of a confirmation keeps every type.
LEMMA ConfirmTyped ==
    ASSUME TypeOK, NEW c \in Client, ConfirmStep(c),
           UNCHANGED <<pipelineVars, failures>>
    PROVE  TypeOK'
<1> USE DEF TypeOK
<1>1. PipelineTypeOK' /\ (failures \in 0..MaxFailures)'
  BY DEF ConfirmStep, ReadAliases, WriteAliases, At, Goto, pipelineVars,
         PacksTypeOK, PipelineTypeOK
<1>2. PacksTypeOK'
  BY DEF ConfirmStep, ReadAliases, WriteAliases, Goto, PacksTypeOK
<1>3. confirming[c] \in Confirmation /\ confirming[c] # NoConfirmation
  BY DEF ConfirmStep, ReadAliases, WriteAliases, At, FunnelTypeOK
<1>4. CASE ReadAliases(c)
  <2>1. GraphTypeOK'
    BY <1>4 DEF ReadAliases, graphVars, GraphTypeOK
  <2>2. [confirming[c] EXCEPT !.read = aliases[confirming[c].metric]] \in Confirmation
    BY <1>3 DEF Confirmation, GraphTypeOK
  <2>3. [confirming[c] EXCEPT !.read = aliases[confirming[c].metric]] # NoConfirmation
    BY <1>3, FunnelAssumption DEF Confirmation, NoConfirmation
  <2>4. FunnelTypeOK'
    BY <1>4, <2>2, <2>3 DEF ReadAliases, Goto, PacksTypeOK, FunnelTypeOK
  <2>5. QED BY <1>1, <1>2, <2>1, <2>4
<1>5. CASE WriteAliases(c)
  <2>1. GraphTypeOK'
    BY <1>3, <1>5, FunnelAssumption
       DEF WriteAliases, UpsertNode, PutAliases, Confirmation, GraphTypeOK, MetricNode, NodeId
  <2>2. FunnelTypeOK'
    BY <1>3, <1>5 DEF WriteAliases, Goto, Confirmation, PacksTypeOK, FunnelTypeOK
  <2>3. QED BY <1>1, <1>2, <2>1, <2>2
<1>6. QED BY <1>4, <1>5 DEF ConfirmStep
\* An exception leaves a well-formed idle process.
LEMMA AbandonTyped ==
    ASSUME TypeOK, NEW c \in Client, AbandonCall(c)
    PROVE  /\ pc' \in [Client -> {"idle", "pack", "confirm", "learn", "run", "load"}]
           /\ catalog' \in [Client -> [metrics : Seq(MetricDef), benchmarks : Seq(Benchmark)]]
           /\ confirming' \in [Client -> Confirmation \cup {NoConfirmation}]
           /\ \A d \in Client : pc'[d] \in {"confirm", "learn"} <=> confirming'[d] # NoConfirmation
           /\ rest' \in [Client -> Seq(Item)]
           /\ load' \in [Client -> Pending]
           /\ report' \in [Client -> Seq(Outcome)]
           /\ \A d \in Client : IF pc'[d] = "load" THEN rest'[d] # <<>> ELSE load'[d] = NoLoad
<1> USE DEF TypeOK
<1>1. NothingLeft \in [metrics : Seq(MetricDef), benchmarks : Seq(Benchmark)]
  BY DEF NothingLeft
<1>2. /\ pc' \in [Client -> {"idle", "pack", "confirm", "learn", "run", "load"}]
      /\ catalog' \in [Client -> [metrics : Seq(MetricDef), benchmarks : Seq(Benchmark)]]
  BY <1>1 DEF AbandonCall, Goto, PacksTypeOK
<1>3. /\ confirming' \in [Client -> Confirmation \cup {NoConfirmation}]
      /\ \A d \in Client : pc'[d] \in {"confirm", "learn"} <=> confirming'[d] # NoConfirmation
  BY DEF AbandonCall, Goto, PacksTypeOK, FunnelTypeOK
<1>4. /\ rest' \in [Client -> Seq(Item)]
      /\ load' \in [Client -> Pending]
      /\ report' \in [Client -> Seq(Outcome)]
  BY NoLoadTyped DEF AbandonCall, SetLoad, PipelineTypeOK
<1>5. \A d \in Client : IF pc'[d] = "load" THEN rest'[d] # <<>> ELSE load'[d] = NoLoad
  BY DEF AbandonCall, Goto, SetLoad, PacksTypeOK, PipelineTypeOK
<1>6. QED BY <1>2, <1>3, <1>4, <1>5

\* A failure keeps every type.
LEMMA FailureTyped ==
    ASSUME TypeOK, NEW c \in Client, Fail(c) \/ Crash(c)
    PROVE  TypeOK'
<1> USE DEF TypeOK
<1>1. AbandonCall(c)
  BY DEF Fail, Crash
<1>2. GraphTypeOK'
  BY DEF Fail, Crash, graphVars, GraphTypeOK
<1>3. PacksTypeOK'
  BY <1>1, AbandonTyped DEF Fail, Crash, PacksTypeOK
<1>4. FunnelTypeOK'
  <2>1. queue' \in [Client -> Seq(Outcome)]
    <3>1. queue \in [Client -> Seq(Outcome)] /\ <<>> \in Seq(Outcome)
      BY DEF FunnelTypeOK
    <3>2. queue' = queue \/ queue' = [queue EXCEPT ![c] = <<>>]
      BY DEF Fail, Crash
    <3>3. QED BY <3>1, <3>2
  <2>2. (accepted \subseteq Column \X Metric)' /\ (learned \subseteq Column \X Metric)'
    BY DEF Fail, Crash, FunnelTypeOK
  <2>3. QED BY <1>1, <2>1, <2>2, AbandonTyped DEF FunnelTypeOK
<1>5. PipelineTypeOK'
  BY <1>1, AbandonTyped DEF Fail, Crash, PipelineTypeOK
<1>6. (failures \in 0..MaxFailures)'
  BY PlatformAssumption DEF Fail, Crash
<1>7. QED BY <1>2, <1>3, <1>4, <1>5, <1>6

\* What a step that only moves its own load forward owes to the types.
LEMMA LoadAdvanceTyped ==
    ASSUME TypeOK, NEW c \in Client, pc[c] = "load", load[c] \in Pending,
           NEW l \in Pending, SetLoad(c, l),
           UNCHANGED <<packVars, done, rest, report, delivered, failures>>
    PROVE  PacksTypeOK' /\ PipelineTypeOK' /\ (failures \in 0..MaxFailures)'
BY DEF TypeOK, SetLoad, packVars, PacksTypeOK, PipelineTypeOK

\* The fields of a load that is under way.
LEMMA LoadFields ==
    ASSUME TypeOK, NEW c \in Client
    PROVE  /\ load[c] \in Pending
           /\ load[c].links \in Seq(EdgeId)
           /\ load[c].documents \in Seq(ObservedDocument)
           /\ load[c].columns \in Seq(Observation)
           /\ load[c].entities \in Seq(ObservedEntity)
           /\ load[c].relations \in Seq(ObservedRelation)
           /\ load[c].observed \in Seq(Observation)
           /\ load[c].owner \in [Column -> Entity \cup {NoEntity}]
           /\ load[c].missed \in BOOLEAN
           /\ load[c].resolutions \in Seq(Outcome)
BY DEF TypeOK, PipelineTypeOK, Pending

\* Writing a link keeps every type.
LEMMA WriteLinkTyped ==
    ASSUME TypeOK, NEW c \in Client, WriteLink(c), UNCHANGED failures
    PROVE  TypeOK'
<1> DEFINE l == [load[c] EXCEPT !.links = Tail(@)]
<1>1. Head(load[c].links) \in EdgeId /\ Tail(load[c].links) \in Seq(EdgeId)
  BY LoadFields, TailRange DEF WriteLink
<1>2. l \in Pending
  BY <1>1, LoadFields DEF Pending
<1>3. PacksTypeOK' /\ PipelineTypeOK' /\ (failures \in 0..MaxFailures)'
  BY <1>2, LoadFields, LoadAdvanceTyped DEF WriteLink, At
<1>4. GraphTypeOK'
  BY <1>1 DEF TypeOK, WriteLink, UpsertEdge, GraphTypeOK
<1>5. FunnelTypeOK'
  BY DEF TypeOK, WriteLink, funnelVars, packVars, FunnelTypeOK
<1>6. QED BY <1>3, <1>4, <1>5 DEF TypeOK

\* Writing a document keeps every type.
LEMMA UpsertDocumentTyped ==
    ASSUME TypeOK, NEW c \in Client, UpsertDocument(c), UNCHANGED failures
    PROVE  TypeOK'
<1> DEFINE d == Head(load[c].documents)
           l == [load[c] EXCEPT !.documents = Tail(@), !.links = DocumentLinks(d)]
<1>1. d \in ObservedDocument /\ Tail(load[c].documents) \in Seq(ObservedDocument)
  BY LoadFields, TailRange DEF UpsertDocument
<1>2. l \in Pending
  BY <1>1, LoadFields, LinksTyped DEF Pending
<1>3. PacksTypeOK' /\ PipelineTypeOK' /\ (failures \in 0..MaxFailures)'
  BY <1>2, LoadFields, LoadAdvanceTyped DEF UpsertDocument, At
<1>4. GraphTypeOK'
  BY <1>1 DEF TypeOK, UpsertDocument, UpsertNode, GraphTypeOK, ObservedDocument,
              DocumentNode, NodeId
<1>5. FunnelTypeOK'
  BY DEF TypeOK, UpsertDocument, funnelVars, packVars, FunnelTypeOK
<1>6. QED BY <1>3, <1>4, <1>5 DEF TypeOK

\* Writing a column keeps every type.
LEMMA UpsertColumnTyped ==
    ASSUME TypeOK, NEW c \in Client, UpsertColumn(c), UNCHANGED failures
    PROVE  TypeOK'
<1> DEFINE l == [load[c] EXCEPT !.columns = Tail(@)]
<1>1. Head(load[c].columns) \in Observation /\ Tail(load[c].columns) \in Seq(Observation)
  BY LoadFields, TailRange DEF UpsertColumn
<1>2. l \in Pending
  BY <1>1, LoadFields DEF Pending
<1>3. PacksTypeOK' /\ PipelineTypeOK' /\ (failures \in 0..MaxFailures)'
  BY <1>2, LoadFields, LoadAdvanceTyped DEF UpsertColumn, DocumentsWritten, At
<1>4. GraphTypeOK'
  BY <1>1 DEF TypeOK, UpsertColumn, UpsertNode, GraphTypeOK, Observation, ColumnNode, NodeId
<1>5. FunnelTypeOK'
  BY DEF TypeOK, UpsertColumn, funnelVars, packVars, FunnelTypeOK
<1>6. QED BY <1>3, <1>4, <1>5 DEF TypeOK

\* Writing an entity keeps every type.
LEMMA UpsertEntityTyped ==
    ASSUME TypeOK, NEW c \in Client, UpsertEntity(c), UNCHANGED failures
    PROVE  TypeOK'
<1> DEFINE ent == Head(load[c].entities)
           own == [x \in Column |-> IF Owns(ent, x) THEN ent.uid ELSE load[c].owner[x]]
           l == [load[c] EXCEPT !.entities = Tail(@), !.columns = ent.columns,
                                !.observed = @ \o ent.columns, !.owner = own]
<1>1. ent \in ObservedEntity /\ Tail(load[c].entities) \in Seq(ObservedEntity)
  BY LoadFields, TailRange DEF UpsertEntity
<1>2. ent.uid \in Entity /\ ent.columns \in Seq(Observation)
      /\ ent.candidate_labels \in Seq(Subtype)
  BY <1>1 DEF ObservedEntity
<1>3. own \in [Column -> Entity \cup {NoEntity}]
  BY <1>2, LoadFields
<1>4. load[c].observed \o ent.columns \in Seq(Observation)
  BY <1>2, LoadFields
<1>5. l \in Pending
  BY <1>1, <1>2, <1>3, <1>4, LoadFields DEF Pending
<1>6. SetLoad(c, l)
  BY DEF UpsertEntity
<1>7. PacksTypeOK' /\ PipelineTypeOK' /\ (failures \in 0..MaxFailures)'
  BY <1>5, <1>6, LoadFields, LoadAdvanceTyped DEF UpsertEntity, DocumentsWritten, At
<1>8. PickSubtype(c, ent.candidate_labels) \subseteq Subtype
  BY <1>2 DEF PickSubtype
<1>9. GraphTypeOK'
  BY <1>2, <1>8 DEF TypeOK, UpsertEntity, UpsertNode, AddLabels, GraphTypeOK, EntityNode, NodeId
<1>10. FunnelTypeOK'
  BY DEF TypeOK, UpsertEntity, funnelVars, packVars, FunnelTypeOK
<1>11. QED BY <1>7, <1>9, <1>10 DEF TypeOK

\* Writing a relation keeps every type.
LEMMA RelateTyped ==
    ASSUME TypeOK, NEW c \in Client, Relate(c), UNCHANGED failures
    PROVE  TypeOK'
<1> DEFINE l == [load[c] EXCEPT !.relations = Tail(@)]
<1>1. /\ Head(load[c].relations) \in ObservedRelation
      /\ Tail(load[c].relations) \in Seq(ObservedRelation)
  BY LoadFields, TailRange DEF Relate
<1>2. l \in Pending
  BY <1>1, LoadFields DEF Pending
<1>3. PacksTypeOK' /\ PipelineTypeOK' /\ (failures \in 0..MaxFailures)'
  BY <1>2, LoadFields, LoadAdvanceTyped DEF Relate, EntitiesWritten, DocumentsWritten, At
<1>4. GraphTypeOK'
  BY <1>1, LinksTyped DEF TypeOK, Relate, UpsertEdge, GraphTypeOK
<1>5. FunnelTypeOK'
  BY DEF TypeOK, Relate, funnelVars, packVars, FunnelTypeOK
<1>6. QED BY <1>3, <1>4, <1>5 DEF TypeOK

\* Rejecting a relation keeps every type.
LEMMA RejectRelationTyped ==
    ASSUME TypeOK, NEW c \in Client, RejectRelation(c), UNCHANGED failures
    PROVE  TypeOK'
<1> USE DEF TypeOK
<1>1. AbandonCall(c)
  BY DEF RejectRelation
<1>2. GraphTypeOK' /\ (failures \in 0..MaxFailures)'
  BY DEF RejectRelation, graphVars, GraphTypeOK
<1>3. PacksTypeOK'
  BY <1>1, AbandonTyped DEF RejectRelation, PacksTypeOK
<1>4. FunnelTypeOK'
  BY <1>1, AbandonTyped DEF RejectRelation, FunnelTypeOK
<1>5. PipelineTypeOK'
  BY <1>1, AbandonTyped DEF RejectRelation, PipelineTypeOK
<1>6. QED BY <1>2, <1>3, <1>4, <1>5

\* One column leaving the funnel.
LEMMA ResolvedTyped ==
    ASSUME TypeOK, NEW c \in Client, Resolving(c),
           NEW tier \in Tier, NEW m \in Metric \cup {NoMetric},
           NEW links \in Seq(EdgeId), Resolved(c, tier, m, links),
           UNCHANGED <<packVars, done, rest, report, delivered, failures>>
    PROVE  /\ PacksTypeOK' /\ PipelineTypeOK' /\ (failures \in 0..MaxFailures)'
           /\ Resolution(Current(c), Head(load[c].observed).column, tier, m) \in Outcome
<1> DEFINE x == Head(load[c].observed).column
           r == Resolution(Current(c), x, tier, m)
           l == [load[c] EXCEPT !.observed = Tail(@), !.missed = FALSE, !.links = links,
                                !.resolutions = Append(@, r)]
<1>1. pc[c] = "load" /\ load[c].observed # <<>>
  BY DEF Resolving, RelationsWritten, EntitiesWritten, DocumentsWritten, At
<1>2. Head(load[c].observed) \in Observation /\ Tail(load[c].observed) \in Seq(Observation)
  BY <1>1, LoadFields, TailRange
<1>3. Current(c) \in Item
  BY <1>1, TailRange DEF TypeOK, PipelineTypeOK, Current
<1>4. r \in Outcome
  BY <1>2, <1>3 DEF Resolution, Outcome, Observation
<1>5. Append(load[c].resolutions, r) \in Seq(Outcome)
  BY <1>4, LoadFields
<1>6. l \in Pending
  BY <1>2, <1>5, LoadFields DEF Pending
<1>7. SetLoad(c, l)
  BY DEF Resolved
<1>8. PacksTypeOK' /\ PipelineTypeOK' /\ (failures \in 0..MaxFailures)'
  BY <1>1, <1>6, <1>7, LoadFields, LoadAdvanceTyped
<1>9. QED BY <1>4, <1>8

\* A look-up in the alias index keeps every type.
LEMMA LookUpAliasTyped ==
    ASSUME TypeOK, NEW c \in Client, LookUpAlias(c), UNCHANGED failures
    PROVE  TypeOK'
<1> DEFINE o == Head(load[c].observed)
<1>1. /\ Resolving(c) /\ pc[c] = "load" /\ load[c].observed # <<>>
      /\ UNCHANGED <<packVars, done, rest, report, delivered, failures>>
  BY DEF LookUpAlias, Resolving, RelationsWritten, EntitiesWritten, DocumentsWritten, At
<1>2. o.column \in Column
  <2>1. o \in Observation
    BY <1>1, LoadFields, TailRange
  <2>2. QED BY <2>1 DEF Observation
<1>3. GraphTypeOK' /\ FunnelTypeOK'
  BY DEF TypeOK, LookUpAlias, graphVars, packVars, funnelVars, GraphTypeOK, FunnelTypeOK
<1>4. ASSUME NEW m \in Metric, Resolved(c, "AUTO_LINKED", m, MetricLinks(c, o.column, m))
      PROVE  PacksTypeOK' /\ PipelineTypeOK' /\ (failures \in 0..MaxFailures)'
  <2>1. MetricLinks(c, o.column, m) \in Seq(EdgeId)
    BY <1>2, LinksTyped, LoadFields DEF MetricLinks
  <2>2. QED BY <1>1, <1>4, <2>1, ResolvedTyped DEF Tier
<1>5. ASSUME Resolved(c, "DOCUMENTED", NoMetric, <<>>)
      PROVE  PacksTypeOK' /\ PipelineTypeOK' /\ (failures \in 0..MaxFailures)'
  <2>1. <<>> \in Seq(EdgeId) /\ "DOCUMENTED" \in Tier
    BY DEF Tier
  <2>2. QED BY <1>1, <1>5, <2>1, ResolvedTyped
<1>6. ASSUME SetLoad(c, [load[c] EXCEPT !.missed = TRUE])
      PROVE  PacksTypeOK' /\ PipelineTypeOK' /\ (failures \in 0..MaxFailures)'
  <2>1. [load[c] EXCEPT !.missed = TRUE] \in Pending
    BY LoadFields DEF Pending
  <2>2. QED BY <1>1, <1>6, <2>1, LoadFields, LoadAdvanceTyped
<1>7. QED BY <1>3, <1>4, <1>5, <1>6 DEF TypeOK, LookUpAlias

\* A suggestion or an escalation keeps every type.
LEMMA SuggestTyped ==
    ASSUME TypeOK, NEW c \in Client, Suggest(c), UNCHANGED failures
    PROVE  TypeOK'
<1> DEFINE x == Head(load[c].observed).column
           r == Resolution(Current(c), x, "ESCALATED", NoMetric)
<1>1. /\ Resolving(c)
      /\ UNCHANGED <<packVars, done, rest, report, delivered, failures>>
  BY DEF Suggest
<1>2. GraphTypeOK'
  BY DEF TypeOK, Suggest, graphVars, GraphTypeOK
<1>3. ASSUME NEW m \in Suggested(NameOf[x]), Resolved(c, "SUGGESTED", m, <<>>), UNCHANGED queue
      PROVE  TypeOK'
  <2>1. m \in Metric
    BY DEF Suggested, Candidates, Catalog
  <2>2. PacksTypeOK' /\ PipelineTypeOK' /\ (failures \in 0..MaxFailures)'
    <3>1. <<>> \in Seq(EdgeId) /\ "SUGGESTED" \in Tier
      BY DEF Tier
    <3>2. QED BY <1>1, <1>3, <2>1, <3>1, ResolvedTyped
  <2>3. FunnelTypeOK'
    BY <1>3 DEF TypeOK, Suggest, packVars, FunnelTypeOK
  <2>4. QED BY <1>2, <2>2, <2>3 DEF TypeOK
<1>4. ASSUME Resolved(c, "ESCALATED", NoMetric, <<>>), Enqueue(c, r)
      PROVE  TypeOK'
  <2>1. /\ PacksTypeOK' /\ PipelineTypeOK' /\ (failures \in 0..MaxFailures)'
        /\ r \in Outcome
    <3>1. <<>> \in Seq(EdgeId) /\ "ESCALATED" \in Tier
      BY DEF Tier
    <3>2. QED BY <1>1, <1>4, <3>1, ResolvedTyped
  <2>2. queue' \in [Client -> Seq(Outcome)]
    BY <1>4, <2>1 DEF TypeOK, Enqueue, FunnelTypeOK
  <2>3. FunnelTypeOK'
    BY <2>2 DEF TypeOK, Suggest, packVars, FunnelTypeOK
  <2>4. QED BY <1>2, <2>1, <2>3 DEF TypeOK
<1>5. QED BY <1>3, <1>4 DEF Suggest
\* The steps of run_ingest around a load keep every type.
LEMMA RunTyped ==
    ASSUME TypeOK, NEW c \in Client,
           StartRun(c) \/ Skip(c) \/ Fetch(c) \/ MarkDone(c) \/ FinishRun(c),
           UNCHANGED failures
    PROVE  TypeOK'
<1>1. GraphTypeOK' /\ (failures \in 0..MaxFailures)'
  BY DEF TypeOK, StartRun, Skip, Fetch, MarkDone, FinishRun, graphVars, GraphTypeOK
<1>2. PacksTypeOK'
  BY DEF TypeOK, StartRun, Skip, Fetch, MarkDone, FinishRun, packVars, Goto, PacksTypeOK
<1>3. FunnelTypeOK'
  BY DEF TypeOK, StartRun, Skip, Fetch, MarkDone, FinishRun, funnelVars, packVars, Goto,
         At, Loaded, RelationsWritten, EntitiesWritten, DocumentsWritten,
         PacksTypeOK, FunnelTypeOK
<1> USE DEF TypeOK
<1>4. CASE StartRun(c)
  BY <1>1, <1>2, <1>3, <1>4, PipelineAssumption
     DEF StartRun, At, Goto, PacksTypeOK, PipelineTypeOK
<1>5. ASSUME pc[c] \in {"run", "load"}, rest[c] # <<>>
      PROVE  Current(c) \in Item /\ Tail(rest[c]) \in Seq(Item)
  BY <1>5, TailRange DEF PipelineTypeOK, Current
<1>6. CASE Skip(c)
  BY <1>1, <1>2, <1>3, <1>5, <1>6 DEF Skip, At, packVars, PipelineTypeOK
<1>7. CASE Fetch(c)
  <2>1. NewLoad(Bundle[Current(c)]) \in Pending
    BY <1>5, <1>7, NewLoadTyped, PipelineAssumption DEF Fetch, At
  <2>2. PipelineTypeOK'
    BY <1>7, <2>1 DEF Fetch, At, Goto, SetLoad, PacksTypeOK, PipelineTypeOK
  <2>3. QED BY <1>1, <1>2, <1>3, <2>2
<1>8. CASE MarkDone(c)
  <2>1. pc[c] = "load" /\ rest[c] # <<>>
    BY <1>8 DEF MarkDone, Loaded, RelationsWritten, EntitiesWritten, DocumentsWritten, At,
                PipelineTypeOK
  <2>2. Current(c) \in Item /\ Tail(rest[c]) \in Seq(Item)
    BY <1>5, <2>1
  <2>3. done' \in [Client -> SUBSET Item]
    BY <1>8, <2>2 DEF MarkDone, Marked, PipelineTypeOK
  <2>4. report' \in [Client -> Seq(Outcome)]
    <3>1. report[c] \o load[c].resolutions \in Seq(Outcome)
      BY LoadFields DEF PipelineTypeOK
    <3>2. QED BY <1>8, <3>1 DEF MarkDone, PipelineTypeOK
  <2>5. rest' \in [Client -> Seq(Item)] /\ load' \in [Client -> Pending]
    BY <1>8, <2>2, NoLoadTyped DEF MarkDone, SetLoad, PipelineTypeOK
  <2>6. \A d \in Client : IF pc'[d] = "load" THEN rest'[d] # <<>> ELSE load'[d] = NoLoad
    BY <1>8 DEF MarkDone, SetLoad, Goto, PacksTypeOK, PipelineTypeOK
  <2>7. PipelineTypeOK'
    BY <1>8, <2>3, <2>4, <2>5, <2>6 DEF MarkDone, PipelineTypeOK
  <2>8. QED BY <1>1, <1>2, <1>3, <2>7
<1>9. CASE FinishRun(c)
  <2>1. Range(report[c]) \subseteq Outcome
    BY DEF PipelineTypeOK, Range
  <2>2. PipelineTypeOK'
    BY <1>9, <2>1 DEF FinishRun, At, Goto, PacksTypeOK, PipelineTypeOK
  <2>3. QED BY <1>1, <1>2, <1>3, <2>2
<1>10. QED BY <1>4, <1>6, <1>7, <1>8, <1>9

\* The initial state is typed.
LEMMA InitTyped == Init => TypeOK
<1> SUFFICES ASSUME Init PROVE TypeOK
  OBVIOUS
<1>1. GraphTypeOK
  BY DEF Init, GraphInit, GraphTypeOK
<1>2. PacksTypeOK
  BY DEF Init, PacksInit, PacksTypeOK, NothingLeft
<1>3. FunnelTypeOK
  BY DEF Init, PacksInit, FunnelInit, FunnelTypeOK
<1>4. PipelineTypeOK
  BY NoLoadTyped DEF Init, PacksInit, PipelineInit, PipelineTypeOK
<1>5. failures \in 0..MaxFailures
  BY PlatformAssumption DEF Init
<1>6. QED BY <1>1, <1>2, <1>3, <1>4, <1>5 DEF TypeOK

\* Every step keeps every type.
LEMMA NextTyped == TypeOK /\ [Next]_vars => TypeOK'
<1> SUFFICES ASSUME TypeOK, [Next]_vars PROVE TypeOK'
  OBVIOUS
<1>1. CASE UNCHANGED vars
  BY <1>1 DEF vars, graphVars, packVars, funnelVars, pipelineVars, TypeOK, GraphTypeOK,
              PacksTypeOK, FunnelTypeOK, PipelineTypeOK
<1>2. ASSUME NEW c \in Client, Request(c) PROVE TypeOK'
  BY <1>2, LoadPackTyped, AnswerTyped, RunTyped DEF Request, Ingest
<1>3. ASSUME NEW c \in Client, LoadStep(c), UNCHANGED failures PROVE TypeOK'
  BY <1>3, UpsertDocumentTyped, WriteLinkTyped, UpsertColumnTyped, UpsertEntityTyped,
     RelateTyped, RejectRelationTyped, LookUpAliasTyped, SuggestTyped, RunTyped DEF LoadStep
<1>4. ASSUME NEW c \in Client, Work(c) PROVE TypeOK'
  BY <1>3, <1>4, LoadPackStepTyped, ConfirmTyped, RunTyped DEF Work, RunStep
<1>5. QED BY <1>1, <1>2, <1>4, FailureTyped DEF Next

\* Every variable keeps its type, whatever processes, packs, items and bundles
\* there are; in particular a process that is loading has an item to load, and
\* one that is not holds no left-over work.
THEOREM TypeCorrect == Spec => []TypeOK
<1>1. QED BY InitTyped, NextTyped, PTL DEF Spec
==============================================================================
