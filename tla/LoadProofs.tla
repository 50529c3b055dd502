----------------------------- MODULE LoadProofs ------------------------------
(***************************************************************************)
(* Nothing of a bundle is lost on the way into the graph.  The invariant   *)
(* that carries the argument is LoadKeepsAll: at every step of every       *)
(* load_bundle, each element of the bundle is still in a queue or already  *)
(* in the graph.  The graph only grows, so a step of another process       *)
(* cannot break it, and when the queues are empty everything is in.  On it *)
(* rest what a run that returns has done, and the refinement of FactLedger.*)
(***************************************************************************)
EXTENDS PlatformProofs

\* An empty queue holds nothing.
LEMMA EmptyRange == Range(<<>>) = {}
BY DEF Range

\* No step takes a node or an edge out of the graph.
LEMMA GraphGrows ==
    ASSUME TypeOK, [Next]_vars
    PROVE  nodes \subseteq nodes' /\ edges \subseteq edges'
<1>1. CASE UNCHANGED vars
  BY <1>1 DEF vars, graphVars
<1>2. ASSUME NEW c \in Client, Request(c) PROVE nodes \subseteq nodes' /\ edges \subseteq edges'
  BY <1>2 DEF Request, LoadPack, BeginLoadPack, Answer, ConfirmLink, DefineMetric, Ingest,
              StartRun, UpsertEdge, UpsertNode, graphVars
<1>3. ASSUME NEW c \in Client, LoadPackStep(c) \/ ConfirmStep(c)
      PROVE  nodes \subseteq nodes' /\ edges \subseteq edges'
  BY <1>3 DEF LoadPackStep, UpsertMetric, UpsertBenchmark, EndLoadPack, ConfirmStep,
              ReadAliases, WriteAliases, UpsertNode, graphVars
<1>4. ASSUME NEW c \in Client, LoadStep(c) PROVE nodes \subseteq nodes' /\ edges \subseteq edges'
  BY <1>4 DEF LoadStep, UpsertDocument, WriteLink, UpsertColumn, UpsertEntity, Relate,
              RejectRelation, LookUpAlias, Suggest, MarkDone, UpsertNode, UpsertEdge, graphVars
<1>5. ASSUME NEW c \in Client, RunStep(c) PROVE nodes \subseteq nodes' /\ edges \subseteq edges'
  BY <1>4, <1>5 DEF RunStep, Skip, Fetch, FinishRun, graphVars
<1>6. ASSUME NEW c \in Client, Fail(c) \/ Crash(c)
      PROVE  nodes \subseteq nodes' /\ edges \subseteq edges'
  BY <1>6 DEF Fail, Crash, graphVars
<1>7. QED BY <1>1, <1>2, <1>3, <1>5, <1>6 DEF Next, Work

\* What the graph has, and what the queues still hold, stays accounted for while
\* the graph grows.
LEMMA Frame ==
    ASSUME NEW c \in Client, NEW b,
           nodes \subseteq nodes', edges \subseteq edges'
    PROVE  /\ /\ DocumentsReach(c, b)
              /\ load'[c].documents = load[c].documents
              /\ \/ load'[c].links = load[c].links
                 \/ load[c].links = <<>>
              => DocumentsReach(c, b)'
           /\ ColumnsReach(c, Range(b.columns)) /\ load'[c].columns = load[c].columns
              => ColumnsReach(c, Range(b.columns))'
           /\ /\ EntitiesReach(c, b)
              /\ load'[c].columns = load[c].columns
              /\ load'[c].entities = load[c].entities
              => EntitiesReach(c, b)'
           /\ RelationsReach(c, b) /\ load'[c].relations = load[c].relations
              => RelationsReach(c, b)'
<1>1. ASSUME DocumentsReach(c, b), load'[c].documents = load[c].documents,
             load'[c].links = load[c].links \/ load[c].links = <<>>
      PROVE  DocumentsReach(c, b)'
  BY <1>1, EmptyRange DEF DocumentsReach
<1>2. ASSUME ColumnsReach(c, Range(b.columns)), load'[c].columns = load[c].columns
      PROVE  ColumnsReach(c, Range(b.columns))'
  BY <1>2 DEF ColumnsReach
<1>3. ASSUME EntitiesReach(c, b), load'[c].columns = load[c].columns,
             load'[c].entities = load[c].entities
      PROVE  EntitiesReach(c, b)'
  BY <1>3 DEF EntitiesReach, ColumnsReach
<1>4. ASSUME RelationsReach(c, b), load'[c].relations = load[c].relations
      PROVE  RelationsReach(c, b)'
  BY <1>4 DEF RelationsReach
<1>5. QED BY <1>1, <1>2, <1>3, <1>4

\* A load whose queues do not move stays accounted for while the graph grows.
LEMMA KeepsFrame ==
    ASSUME NEW c \in Client, NEW b, Keeps(c, b), load'[c] = load[c],
           nodes \subseteq nodes', edges \subseteq edges'
    PROVE  Keeps(c, b)'
BY Frame DEF Keeps

\* A load that begins has everything still in its queues.
LEMMA StartKeeps ==
    ASSUME TypeOK, NEW c \in Client, NEW b \in ParsedBundle,
           load'[c] = NewLoad(b)
    PROVE  Keeps(c, b)'
BY DEF Keeps, NewLoad, DocumentsReach, ColumnsReach, EntitiesReach, RelationsReach

\* A link leaves its queue for the graph (on the dict store, whatever its endpoints).
LEMMA WriteLinkKeeps ==
    ASSUME TypeOK, NEW c \in Client, NEW b, WriteLink(c), Keeps(c, b),
           nodes \subseteq nodes', edges \subseteq edges'
    PROVE  Keeps(c, b)'
<1> DEFINE e == Head(load[c].links)
<1>1. /\ load'[c].documents = load[c].documents
      /\ load'[c].columns = load[c].columns
      /\ load'[c].entities = load[c].entities
      /\ load'[c].relations = load[c].relations
      /\ load'[c].links = Tail(load[c].links)
  BY LoadFields DEF WriteLink, SetLoad, TypeOK, PipelineTypeOK, Pending
<1>2. \A x \in Range(load[c].links) : x = e \/ x \in Range(Tail(load[c].links))
  BY LoadFields, TailRange DEF WriteLink
<1>3. Backend = "InMemory" => e \in edges'
  BY DEF WriteLink, UpsertEdge, Stored
<1>4. DocumentsReach(c, b)'
  BY <1>1, <1>2, <1>3 DEF Keeps, DocumentsReach
<1>5. QED BY <1>1, <1>4, Frame DEF Keeps

\* A document leaves its queue for the graph, and its links are queued.
LEMMA UpsertDocumentKeeps ==
    ASSUME TypeOK, NEW c \in Client, NEW b, UpsertDocument(c), Keeps(c, b),
           nodes \subseteq nodes', edges \subseteq edges'
    PROVE  Keeps(c, b)'
<1> DEFINE d == Head(load[c].documents)
<1>1. /\ load'[c].documents = Tail(load[c].documents)
      /\ load'[c].columns = load[c].columns
      /\ load'[c].entities = load[c].entities
      /\ load'[c].relations = load[c].relations
      /\ load'[c].links = DocumentLinks(d)
  BY LoadFields DEF UpsertDocument, SetLoad, TypeOK, PipelineTypeOK, Pending
<1>2. \A x \in Range(load[c].documents) : x = d \/ x \in Range(Tail(load[c].documents))
  BY LoadFields, TailRange DEF UpsertDocument
<1>3. Range(load[c].links) = {}
  BY EmptyRange DEF UpsertDocument
<1>4. DocumentNode(d.uri) \in nodes'
  BY DEF UpsertDocument, UpsertNode
<1>5. DocumentsReach(c, b)'
  BY <1>1, <1>2, <1>3, <1>4 DEF Keeps, DocumentsReach
<1>6. QED BY <1>1, <1>5, Frame DEF Keeps

\* A column leaves its queue for the graph.
LEMMA UpsertColumnKeeps ==
    ASSUME TypeOK, NEW c \in Client, NEW b, UpsertColumn(c), Keeps(c, b),
           nodes \subseteq nodes', edges \subseteq edges'
    PROVE  Keeps(c, b)'
<1> DEFINE o == Head(load[c].columns)
<1>1. /\ load'[c].documents = load[c].documents
      /\ load'[c].columns = Tail(load[c].columns)
      /\ load'[c].entities = load[c].entities
      /\ load'[c].relations = load[c].relations
      /\ load'[c].links = load[c].links
  BY LoadFields DEF UpsertColumn, SetLoad, TypeOK, PipelineTypeOK, Pending
<1>2. \A x \in Range(load[c].columns) : x = o \/ x \in Range(Tail(load[c].columns))
  BY LoadFields, TailRange DEF UpsertColumn
<1>3. ColumnNode(o.column) \in nodes'
  BY DEF UpsertColumn, UpsertNode
<1>4. ColumnsReach(c, Range(b.columns))'
  BY <1>1, <1>2, <1>3 DEF Keeps, ColumnsReach
<1>5. EntitiesReach(c, b)'
  BY <1>1, <1>2, <1>3 DEF Keeps, EntitiesReach, ColumnsReach
<1>6. QED BY <1>1, <1>4, <1>5, Frame DEF Keeps

\* An entity leaves its queue for the graph, and its columns are queued.
LEMMA UpsertEntityKeeps ==
    ASSUME TypeOK, NEW c \in Client, NEW b, UpsertEntity(c), Keeps(c, b),
           nodes \subseteq nodes', edges \subseteq edges'
    PROVE  Keeps(c, b)'
<1> DEFINE ent == Head(load[c].entities)
<1>1. /\ load'[c].documents = load[c].documents
      /\ load'[c].columns = ent.columns
      /\ load'[c].entities = Tail(load[c].entities)
      /\ load'[c].relations = load[c].relations
      /\ load'[c].links = load[c].links
  BY LoadFields DEF UpsertEntity, SetLoad, TypeOK, PipelineTypeOK, Pending
<1>2. \A x \in Range(load[c].entities) : x = ent \/ x \in Range(Tail(load[c].entities))
  BY LoadFields, TailRange DEF UpsertEntity
<1>3. Range(load[c].columns) = {}
  BY EmptyRange DEF UpsertEntity
<1>4. EntityNode(ent.uid) \in nodes'
  BY DEF UpsertEntity, UpsertNode
<1>5. ColumnsReach(c, Range(b.columns))'
  BY <1>3 DEF Keeps, ColumnsReach
<1>6. EntitiesReach(c, b)'
  BY <1>1, <1>2, <1>3, <1>4 DEF Keeps, EntitiesReach, ColumnsReach
<1>7. QED BY <1>1, <1>5, <1>6, Frame DEF Keeps

\* When relations are written, the entities of the bundle are in the graph.
LEMMA EntitiesPresent ==
    ASSUME TypeOK, NEW c \in Client, NEW b, Keeps(c, b), load[c].entities = <<>>
    PROVE  \A e \in Range(b.entities) : EntityNode(e.uid) \in nodes
BY EmptyRange DEF Keeps, EntitiesReach

\* A relation leaves its queue for the graph, unless its other end may be missing.
LEMMA RelateKeeps ==
    ASSUME TypeOK, NEW c \in Client, NEW b, Relate(c), Keeps(c, b),
           nodes \subseteq nodes', edges \subseteq edges'
    PROVE  Keeps(c, b)'
<1> DEFINE r == Head(load[c].relations)
<1>1. /\ load'[c].documents = load[c].documents
      /\ load'[c].columns = load[c].columns
      /\ load'[c].entities = load[c].entities
      /\ load'[c].relations = Tail(load[c].relations)
      /\ load'[c].links = load[c].links
  BY LoadFields DEF Relate, SetLoad, TypeOK, PipelineTypeOK, Pending
<1>2. \A x \in Range(load[c].relations) : x = r \/ x \in Range(Tail(load[c].relations))
  BY LoadFields, TailRange DEF Relate
<1>3. Relates(r) \in edges' \/ Relates(r) \notin EdgesOf(b)
  <2>1. CASE Stored(Relates(r))
    BY <2>1 DEF Relate, UpsertEdge
  <2>2. CASE ~Stored(Relates(r))
    <3>1. Backend # "InMemory" /\ ~({Relates(r).src, Relates(r).dst} \subseteq nodes)
      BY <2>2 DEF Stored
    <3>2. {Relates(r).src, Relates(r).dst} \cap NodesOf(b) \subseteq nodes
      <4>1. \A e \in Range(b.entities) : EntityNode(e.uid) \in nodes
        BY EntitiesPresent DEF Relate, EntitiesWritten
      <4>2. Relates(r).src = EntityNode(r.subject) /\ Relates(r).dst = EntityNode(r.object)
        BY DEF Relates
      <4>3. QED BY <4>1, <4>2 DEF NodesOf, EntityNode, DocumentNode, ColumnNode
    <3>3. QED BY <3>1, <3>2 DEF EdgesOf
  <2>3. QED BY <2>1, <2>2
<1>4. RelationsReach(c, b)'
  BY <1>1, <1>2, <1>3 DEF Keeps, RelationsReach
<1>5. QED BY <1>1, <1>4, Frame DEF Keeps

\* An outcome touches no queue of the writing loops.
LEMMA ResolvedFields ==
    ASSUME TypeOK, NEW c \in Client, NEW tier, NEW m, NEW links, Resolved(c, tier, m, links)
    PROVE  /\ load'[c].documents = load[c].documents
           /\ load'[c].columns = load[c].columns
           /\ load'[c].entities = load[c].entities
           /\ load'[c].relations = load[c].relations
BY LoadFields DEF Resolved, SetLoad, TypeOK, PipelineTypeOK, Pending

\* Resolving a column touches no queue of the writing loops.
LEMMA ResolveKeeps ==
    ASSUME TypeOK, NEW c \in Client, NEW b, LookUpAlias(c) \/ Suggest(c), Keeps(c, b),
           nodes \subseteq nodes', edges \subseteq edges'
    PROVE  Keeps(c, b)'
<1>1. load[c].links = <<>>
  BY DEF LookUpAlias, Suggest, Resolving, RelationsWritten, EntitiesWritten, DocumentsWritten
<1>2. /\ load'[c].documents = load[c].documents
      /\ load'[c].columns = load[c].columns
      /\ load'[c].entities = load[c].entities
      /\ load'[c].relations = load[c].relations
  <2>1. ASSUME SetLoad(c, [load[c] EXCEPT !.missed = TRUE])
        PROVE  /\ load'[c].documents = load[c].documents
               /\ load'[c].columns = load[c].columns
               /\ load'[c].entities = load[c].entities
               /\ load'[c].relations = load[c].relations
    BY <2>1, LoadFields DEF SetLoad, TypeOK, PipelineTypeOK, Pending
  <2>2. CASE LookUpAlias(c)
    BY <2>1, <2>2, ResolvedFields DEF LookUpAlias
  <2>3. CASE Suggest(c)
    BY <2>3, ResolvedFields DEF Suggest
  <2>4. QED BY <2>2, <2>3
<1>3. QED BY <1>1, <1>2, Frame DEF Keeps

\* The queues are empty only when the graph has it all.
LEMMA LoadedIsLoaded ==
    ASSUME TypeOK, NEW c \in Client, NEW i \in Item, Keeps(c, Bundle[i]), Loaded(c)
    PROVE  IsLoaded(i)
<1> DEFINE b == Bundle[i]
<1>1. /\ load[c].links = <<>> /\ load[c].documents = <<>> /\ load[c].columns = <<>>
      /\ load[c].entities = <<>> /\ load[c].relations = <<>>
  BY DEF Loaded, RelationsWritten, EntitiesWritten, DocumentsWritten
<1>2. \A d \in Range(b.documents) :
        /\ DocumentNode(d.uri) \in nodes
        /\ Backend = "InMemory" => Range(DocumentLinks(d)) \subseteq edges
  BY <1>1, EmptyRange DEF Keeps, DocumentsReach
<1>3. \A o \in Range(b.columns) : ColumnNode(o.column) \in nodes
  BY <1>1, EmptyRange DEF Keeps, ColumnsReach
<1>4. \A e \in Range(b.entities) :
        /\ EntityNode(e.uid) \in nodes
        /\ \A o \in Range(e.columns) : ColumnNode(o.column) \in nodes
  BY <1>1, EmptyRange DEF Keeps, EntitiesReach, ColumnsReach
<1>5. \A r \in Range(b.relations) : Relates(r) \in edges \/ Relates(r) \notin EdgesOf(b)
  BY <1>1, EmptyRange DEF Keeps, RelationsReach
<1>6. ASSUME NEW x \in Column, Observes(b, x) PROVE ColumnNode(x) \in nodes
  <2>1. CASE \E k \in DOMAIN b.columns : b.columns[k].column = x
    BY <1>3, <2>1 DEF Range
  <2>2. CASE \E k \in DOMAIN b.entities : Owns(b.entities[k], x)
    <3>1. PICK k \in DOMAIN b.entities : Owns(b.entities[k], x)
      BY <2>2
    <3>2. b.entities[k] \in Range(b.entities)
      BY DEF Range
    <3>3. PICK n \in DOMAIN b.entities[k].columns : b.entities[k].columns[n].column = x
      BY <3>1 DEF Owns
    <3>4. b.entities[k].columns[n] \in Range(b.entities[k].columns)
      BY DEF Range
    <3>5. QED BY <1>4, <3>2, <3>3, <3>4
  <2>3. QED BY <1>6, <2>1, <2>2 DEF Observes
<1>7. NodesOf(b) \subseteq nodes
  BY <1>2, <1>4, <1>6 DEF NodesOf
<1>8. EdgesOf(b) \subseteq edges
  <2>1. CASE Backend = "InMemory"
    <3>1. DocumentLinksOf(b) \subseteq edges
      BY <1>2, <2>1 DEF DocumentLinksOf
    <3>2. RelationsOf(b) \subseteq EdgesOf(b)
      BY <2>1 DEF EdgesOf
    <3>3. RelationsOf(b) \subseteq edges
      BY <1>5, <3>2 DEF RelationsOf
    <3>4. QED BY <2>1, <3>1, <3>3 DEF EdgesOf
  <2>2. CASE Backend # "InMemory"
    <3>1. ASSUME NEW e \in EdgesOf(b) PROVE e \in edges
      <4>1. e \in RelationsOf(b)
        BY <2>2, <3>1 DEF EdgesOf
      <4>2. QED BY <1>5, <3>1, <4>1 DEF RelationsOf
    <3>2. QED BY <3>1
  <2>3. QED BY <2>1, <2>2
<1>9. QED BY <1>7, <1>8 DEF IsLoaded

(***************************************************************************)
(* The inductive invariant.                                                *)
(***************************************************************************)
Inv == TypeOK /\ LoadKeepsAll /\ DoneMeansLoaded

Step(c) == Request(c) \/ Work(c) \/ Fail(c) \/ Crash(c)

\* A step of one process leaves the call of every other process where it is.
LEMMA OthersUnmoved ==
    ASSUME TypeOK, NEW c \in Client, Step(c), NEW d \in Client, d # c
    PROVE  pc'[d] = pc[d] /\ rest'[d] = rest[d] /\ load'[d] = load[d]
<1> USE DEF TypeOK, PacksTypeOK, PipelineTypeOK, Goto, SetLoad
<1>1. CASE Request(c)
  BY <1>1 DEF Request, LoadPack, BeginLoadPack, Answer, ConfirmLink, DefineMetric, Ingest,
              StartRun, packVars, pipelineVars
<1>2. ASSUME LoadPackStep(c) \/ ConfirmStep(c), UNCHANGED pipelineVars
      PROVE  pc'[d] = pc[d] /\ rest'[d] = rest[d] /\ load'[d] = load[d]
  BY <1>2 DEF LoadPackStep, UpsertMetric, UpsertBenchmark, EndLoadPack, ConfirmStep,
              ReadAliases, WriteAliases, pipelineVars
<1>3. CASE Fail(c) \/ Crash(c) \/ RejectRelation(c)
  BY <1>3 DEF Fail, Crash, RejectRelation, AbandonCall
<1>4. CASE UpsertDocument(c) \/ WriteLink(c) \/ UpsertColumn(c) \/ UpsertEntity(c) \/ Relate(c)
  BY <1>4 DEF UpsertDocument, WriteLink, UpsertColumn, UpsertEntity, Relate, packVars
<1>5. CASE LookUpAlias(c) \/ Suggest(c)
  BY <1>5 DEF LookUpAlias, Suggest, Resolved, packVars
<1>6. CASE MarkDone(c) \/ Skip(c) \/ Fetch(c) \/ FinishRun(c)
  BY <1>6 DEF MarkDone, Skip, Fetch, FinishRun, packVars
<1>7. QED BY <1>1, <1>2, <1>3, <1>4, <1>5, <1>6 DEF Step, Work, RunStep, LoadStep

\* A step of c that leaves c loading leaves nothing of its bundle behind.
LEMMA OwnLoadKeeps ==
    ASSUME Inv, NEW c \in Client, Step(c), pc'[c] = "load",
           nodes \subseteq nodes', edges \subseteq edges'
    PROVE  Keeps(c, Bundle[Current(c)])'
<1> USE DEF Inv
<1>1. CASE UpsertDocument(c) \/ WriteLink(c) \/ UpsertColumn(c) \/ UpsertEntity(c)
             \/ Relate(c) \/ LookUpAlias(c) \/ Suggest(c)
  <2>1. pc[c] = "load" /\ rest' = rest
    BY <1>1 DEF UpsertDocument, WriteLink, UpsertColumn, UpsertEntity, Relate, LookUpAlias,
                Suggest, Resolving, RelationsWritten, EntitiesWritten, DocumentsWritten, At
  <2>2. Keeps(c, Bundle[Current(c)])
    BY <2>1 DEF LoadKeepsAll
  <2>3. PICK b : b = Bundle[Current(c)]
    OBVIOUS
  <2>4. Keeps(c, b)'
    BY <1>1, <2>2, <2>3, UpsertDocumentKeeps, WriteLinkKeeps, UpsertColumnKeeps,
       UpsertEntityKeeps, RelateKeeps, ResolveKeeps
  <2>5. b = Bundle[Current(c)']
    BY <2>1, <2>3 DEF Current
  <2>6. QED BY <2>4, <2>5
<1>2. CASE Fetch(c)
  <2>1. Current(c) \in Item /\ rest' = rest
    BY <1>2, TailRange DEF Fetch, Current, TypeOK, PipelineTypeOK
  <2>2. PICK b \in ParsedBundle : b = Bundle[Current(c)]
    BY <2>1, PipelineAssumption
  <2>3. load'[c] = NewLoad(b)
    BY <1>2, <2>2 DEF Fetch, SetLoad, TypeOK, PipelineTypeOK
  <2>4. Keeps(c, b)'
    BY <2>3, StartKeeps
  <2>5. b = Bundle[Current(c)']
    BY <2>1, <2>2 DEF Current
  <2>6. QED BY <2>4, <2>5
<1>3. ASSUME Request(c) \/ LoadPackStep(c) \/ ConfirmStep(c) \/ RejectRelation(c) \/ MarkDone(c)
             \/ Skip(c) \/ FinishRun(c) \/ Fail(c) \/ Crash(c)
      PROVE  pc'[c] # "load"
  <2> USE DEF TypeOK, PacksTypeOK, At, Goto
  <2>1. CASE Request(c)
    BY <2>1 DEF Request, LoadPack, BeginLoadPack, Answer, ConfirmLink, DefineMetric, Ingest,
                StartRun, packVars
  <2>2. CASE LoadPackStep(c) \/ ConfirmStep(c)
    BY <2>2 DEF LoadPackStep, UpsertMetric, UpsertBenchmark, EndLoadPack, ConfirmStep,
                ReadAliases, WriteAliases
  <2>3. CASE RejectRelation(c) \/ Fail(c) \/ Crash(c)
    BY <2>3 DEF RejectRelation, Fail, Crash, AbandonCall
  <2>4. CASE MarkDone(c) \/ Skip(c) \/ FinishRun(c)
    BY <2>4 DEF MarkDone, Skip, FinishRun, packVars
  <2>5. QED BY <1>3, <2>1, <2>2, <2>3, <2>4
<1>4. QED BY <1>1, <1>2, <1>3 DEF Step, Work, RunStep, LoadStep

\* An item enters a ledger only when its load is over.
LEMMA LedgerGrows ==
    ASSUME TypeOK, NEW c \in Client, Step(c), NEW d \in Client, NEW i \in done'[d]
    PROVE  i \in done[d] \/ (Loaded(c) /\ i = Current(c))
<1> USE DEF TypeOK, PipelineTypeOK
<1>1. CASE Request(c)
  BY <1>1 DEF Request, LoadPack, Answer, Ingest, StartRun, pipelineVars
<1>2. CASE MarkDone(c)
  BY <1>2 DEF MarkDone, Marked
<1>3. CASE Fail(c) \/ Crash(c) \/ RejectRelation(c)
  BY <1>3 DEF Fail, Crash, RejectRelation
<1>4. ASSUME UNCHANGED done PROVE i \in done[d]
  BY <1>4
<1>5. CASE UpsertDocument(c) \/ WriteLink(c) \/ UpsertColumn(c) \/ UpsertEntity(c) \/ Relate(c)
             \/ LookUpAlias(c) \/ Suggest(c) \/ Skip(c) \/ Fetch(c) \/ FinishRun(c)
  <2>1. UNCHANGED done
    BY <1>5 DEF UpsertDocument, WriteLink, UpsertColumn, UpsertEntity, Relate, LookUpAlias,
                Suggest, Skip, Fetch, FinishRun
  <2>2. QED BY <1>4, <2>1
<1>6. QED BY <1>1, <1>2, <1>3, <1>4, <1>5 DEF Step, Work, RunStep, LoadStep, pipelineVars

\* Nothing is loading and no ledger has an entry.
LEMMA InvInit == Init => Inv
<1> SUFFICES ASSUME Init PROVE Inv
  OBVIOUS
<1>1. TypeOK
  BY InitTyped
<1>2. LoadKeepsAll
  BY DEF Init, PacksInit, LoadKeepsAll
<1>3. DoneMeansLoaded
  BY DEF Init, PipelineInit, DoneMeansLoaded
<1>4. QED BY <1>1, <1>2, <1>3 DEF Inv

\* The invariant is inductive.
LEMMA InvNext == Inv /\ [Next]_vars => Inv'
<1> SUFFICES ASSUME Inv, [Next]_vars PROVE Inv'
  OBVIOUS
<1> USE DEF Inv
<1>1. TypeOK' /\ nodes \subseteq nodes' /\ edges \subseteq edges'
  BY NextTyped, GraphGrows
<1>2. CASE UNCHANGED vars
  <2>1. \A c \in Client : pc'[c] = "load" => Keeps(c, Bundle[Current(c)])'
    <3>1. SUFFICES ASSUME NEW c \in Client, pc'[c] = "load"
                   PROVE  Keeps(c, Bundle[Current(c)])'
      OBVIOUS
    <3>2. pc[c] = "load" /\ load' = load /\ rest' = rest
      BY <1>2, <3>1 DEF vars, packVars, pipelineVars
    <3>3. PICK b : b = Bundle[Current(c)]
      OBVIOUS
    <3>4. Keeps(c, b)'
      BY <1>1, <3>2, <3>3, KeepsFrame DEF LoadKeepsAll
    <3>5. QED BY <3>2, <3>3, <3>4 DEF Current
  <2>2. DoneMeansLoaded'
    BY <1>2 DEF vars, graphVars, pipelineVars, DoneMeansLoaded, IsLoaded
  <2>3. QED BY <1>1, <2>1, <2>2 DEF LoadKeepsAll
<1>3. ASSUME NEW c \in Client, Step(c) PROVE Inv'
  <2>1. ASSUME NEW d \in Client, pc'[d] = "load" PROVE Keeps(d, Bundle[Current(d)])'
    <3>1. CASE d = c
      BY <1>1, <1>3, <2>1, <3>1, OwnLoadKeeps
    <3>2. CASE d # c
      <4>1. pc[d] = "load" /\ rest'[d] = rest[d] /\ load'[d] = load[d]
        BY <1>3, <2>1, <3>2, OthersUnmoved
      <4>2. PICK b : b = Bundle[Current(d)]
        OBVIOUS
      <4>3. Keeps(d, b)'
        BY <1>1, <4>1, <4>2, KeepsFrame DEF LoadKeepsAll
      <4>4. QED BY <4>1, <4>2, <4>3 DEF Current
    <3>3. QED BY <3>1, <3>2
  <2>2. ASSUME NEW d \in Client, NEW i \in done'[d] PROVE IsLoaded(i)'
    <3>1. IsLoaded(i)
      <4>1. CASE i \in done[d]
        BY <4>1 DEF DoneMeansLoaded
      <4>2. CASE Loaded(c) /\ i = Current(c)
        <5>1. pc[c] = "load" /\ i \in Item
          BY <4>2, <1>1 DEF Loaded, RelationsWritten, EntitiesWritten, DocumentsWritten, At,
                            TypeOK, PipelineTypeOK
        <5>2. Keeps(c, Bundle[i])
          BY <4>2, <5>1 DEF LoadKeepsAll
        <5>3. QED BY <4>2, <5>1, <5>2, LoadedIsLoaded
      <4>3. QED BY <1>3, <4>1, <4>2, LedgerGrows
    <3>2. QED BY <1>1, <3>1 DEF IsLoaded
  <2>3. QED BY <1>1, <2>1, <2>2 DEF LoadKeepsAll, DoneMeansLoaded
<1>4. QED BY <1>2, <1>3 DEF Next, Step

\* For every number of processes, crashes, packs, items and bundles: nothing of a
\* bundle drops out of load_bundle's loops before it is in the graph.
THEOREM LoadComplete == Spec => []LoadKeepsAll
<1>1. Inv => LoadKeepsAll
  BY DEF Inv
<1>2. QED BY <1>1, InvInit, InvNext, PTL DEF Spec

\* For every instance: an item that any ledger names is in the graph in full.
\* This is what makes skipping it on the next run harmless.
THEOREM LedgerSound == Spec => []DoneMeansLoaded
<1>1. Inv => DoneMeansLoaded
  BY DEF Inv
<1>2. QED BY <1>1, InvInit, InvNext, PTL DEF Spec

\* Each entity a document describes has its link in the queue that follows it.
LEMMA DescriptionLinked ==
    ASSUME NEW d \in ObservedDocument, NEW uid \in Range(d.describes)
    PROVE  Describes(d.uri, uid) \in Range(DocumentLinks(d))
<1> DEFINE describes == [i \in 1..Len(d.describes) |-> Describes(d.uri, d.describes[i])]
           defines == [i \in 1..Len(d.defines) |-> DefinedIn(d.defines[i], d.uri)]
<1>1. PICK p \in Nat : p = Len(d.describes) /\ DOMAIN d.describes = 1..p
  BY DEF ObservedDocument
<1>2. PICK q \in Nat : q = Len(d.defines)
  BY DEF ObservedDocument
<1>3. PICK i \in 1..p : uid = d.describes[i]
  BY <1>1 DEF Range
<1>4. PICK s : s = describes
  OBVIOUS
<1>5. PICK t : t = defines
  OBVIOUS
<1>6. s[i] = Describes(d.uri, uid)
  BY <1>1, <1>3, <1>4
<1>7. s \in Seq(Range(s)) /\ Len(s) = p
  BY <1>1, <1>4 DEF Range
<1>8. t \in Seq(Range(t)) /\ Len(t) = q
  BY <1>2, <1>5 DEF Range
<1>9. i \in DOMAIN (s \o t) /\ (s \o t)[i] = s[i]
  BY <1>7, <1>8
<1>10. DocumentLinks(d) = s \o t
  BY <1>4, <1>5 DEF DocumentLinks
<1>11. QED BY <1>6, <1>9, <1>10 DEF Range

\* On the dict store, which keeps an edge to a node that is yet to come, an item that
\* is done has the edges ir.py:77-78 promises, to entities of any bundle.
THEOREM DescriptionsKept ==
    ASSUME Backend = "InMemory"
    PROVE  Spec => []DescribedEntitiesLinked
<1>1. Inv => DescribedEntitiesLinked
  <2> SUFFICES ASSUME Inv, NEW c \in Client, NEW i \in done[c],
                      NEW d \in Range(Bundle[i].documents),
                      NEW uid \in Range(d.describes)
               PROVE  Describes(d.uri, uid) \in edges
    BY DEF DescribedEntitiesLinked
  <2>1. i \in Item /\ EdgesOf(Bundle[i]) \subseteq edges
    BY DEF Inv, DoneMeansLoaded, IsLoaded, TypeOK, PipelineTypeOK
  <2>2. d \in ObservedDocument
    <3>1. PICK b \in ParsedBundle : b = Bundle[i]
      BY <2>1, PipelineAssumption
    <3>2. b.documents \in Seq(ObservedDocument)
      BY DEF ParsedBundle
    <3>3. QED BY <3>1, <3>2 DEF Range
  <2>3. Describes(d.uri, uid) \in Range(DocumentLinks(d))
    BY <2>2, DescriptionLinked
  <2>4. QED BY <2>1, <2>3 DEF EdgesOf, DocumentLinksOf
<1>2. QED BY <1>1, InvInit, InvNext, PTL DEF Spec

(***************************************************************************)
(* A run.                                                                  *)
(***************************************************************************)
\* No discovered item is between a ledger and the rest of a run: it has been
\* passed because it is done, or is still to come.
RunCovers ==
    \A c \in Client : pc[c] \in {"run", "load"} =>
        Range(Discovered) \subseteq done[c] \cup Range(rest[c])

\* A step of one process takes nothing out of another's ledger.
LEMMA LedgersKept ==
    ASSUME TypeOK, NEW c \in Client, Step(c), NEW d \in Client, d # c
    PROVE  done[d] \subseteq done'[d]
<1> USE DEF TypeOK, PipelineTypeOK
<1>1. CASE Request(c)
  BY <1>1 DEF Request, LoadPack, Answer, Ingest, StartRun, pipelineVars
<1>2. CASE MarkDone(c)
  BY <1>2 DEF MarkDone, Marked
<1>3. CASE Fail(c) \/ Crash(c) \/ RejectRelation(c)
  BY <1>3 DEF Fail, Crash, RejectRelation
<1>4. ASSUME UpsertDocument(c) \/ WriteLink(c) \/ UpsertColumn(c) \/ UpsertEntity(c) \/ Relate(c)
               \/ LookUpAlias(c) \/ Suggest(c) \/ Skip(c) \/ Fetch(c) \/ FinishRun(c)
      PROVE  UNCHANGED done
  BY <1>4 DEF UpsertDocument, WriteLink, UpsertColumn, UpsertEntity, Relate, LookUpAlias,
              Suggest, Skip, Fetch, FinishRun
<1>5. QED BY <1>1, <1>2, <1>3, <1>4 DEF Step, Work, RunStep, LoadStep, pipelineVars

\* A step of the process itself passes an item only when it is done.
LEMMA OwnRunCovers ==
    ASSUME TypeOK, RunCovers, NEW c \in Client, Step(c), pc'[c] \in {"run", "load"}
    PROVE  Range(Discovered) \subseteq done'[c] \cup Range(rest'[c])
<1> USE DEF TypeOK, PacksTypeOK, PipelineTypeOK, At, Goto
<1>1. CASE Ingest(c)
  BY <1>1 DEF Ingest, StartRun
<1>2. ASSUME LoadPack(c) \/ Answer(c) \/ LoadPackStep(c) \/ ConfirmStep(c) \/ RejectRelation(c)
               \/ FinishRun(c) \/ Fail(c) \/ Crash(c)
      PROVE  pc'[c] \notin {"run", "load"}
  <2>1. CASE LoadPack(c) \/ Answer(c)
    BY <2>1 DEF LoadPack, BeginLoadPack, Answer, ConfirmLink, DefineMetric, packVars
  <2>2. CASE LoadPackStep(c) \/ ConfirmStep(c)
    BY <2>2 DEF LoadPackStep, UpsertMetric, UpsertBenchmark, EndLoadPack, ConfirmStep,
                ReadAliases, WriteAliases
  <2>3. CASE RejectRelation(c) \/ FinishRun(c) \/ Fail(c) \/ Crash(c)
    BY <2>3 DEF RejectRelation, FinishRun, Fail, Crash, AbandonCall
  <2>4. QED BY <1>2, <2>1, <2>2, <2>3
<1>3. CASE Skip(c)
  <2>1. pc[c] = "run" /\ done'[c] = done[c] /\ rest'[c] = Tail(rest[c]) /\ rest[c] # <<>>
    BY <1>3 DEF Skip
  <2>2. Head(rest[c]) \in done[c]
    BY <1>3 DEF Skip, Current
  <2>3. Range(Discovered) \subseteq done[c] \cup Range(rest[c])
    BY <2>1 DEF RunCovers
  <2>4. QED BY <2>1, <2>2, <2>3, TailRange
<1>4. CASE MarkDone(c)
  <2>1. /\ pc[c] = "load" /\ rest[c] # <<>>
        /\ rest'[c] = Tail(rest[c])
        /\ done'[c] = done[c] \cup {Head(rest[c])}
    BY <1>4 DEF MarkDone, Marked, Current, Loaded, RelationsWritten, EntitiesWritten,
                DocumentsWritten
  <2>2. Range(Discovered) \subseteq done[c] \cup Range(rest[c])
    BY <2>1 DEF RunCovers
  <2>3. QED BY <2>1, <2>2, TailRange
<1>5. CASE Fetch(c)
  BY <1>5 DEF Fetch, RunCovers
<1>6. CASE UpsertDocument(c) \/ WriteLink(c) \/ UpsertColumn(c) \/ UpsertEntity(c) \/ Relate(c)
             \/ LookUpAlias(c) \/ Suggest(c)
  <2>1. pc[c] = "load" /\ done' = done /\ rest' = rest
    BY <1>6 DEF UpsertDocument, WriteLink, UpsertColumn, UpsertEntity, Relate, LookUpAlias,
                Suggest, Resolving, RelationsWritten, EntitiesWritten, DocumentsWritten
  <2>2. QED BY <2>1 DEF RunCovers
<1>7. QED BY <1>1, <1>2, <1>3, <1>4, <1>5, <1>6 DEF Step, Request, Work, RunStep, LoadStep

\* No run is under way.
LEMMA CoversInit == Init => RunCovers
BY DEF Init, PacksInit, RunCovers

\* No step of any process uncovers an item.
LEMMA CoversNext == TypeOK /\ RunCovers /\ [Next]_vars => RunCovers'
<1> SUFFICES ASSUME TypeOK, RunCovers, [Next]_vars PROVE RunCovers'
  OBVIOUS
<1>1. CASE UNCHANGED vars
  BY <1>1 DEF vars, packVars, pipelineVars, RunCovers
<1>2. ASSUME NEW c \in Client, Step(c), NEW d \in Client, pc'[d] \in {"run", "load"}
      PROVE  Range(Discovered) \subseteq done'[d] \cup Range(rest'[d])
  <2>1. CASE d = c
    BY <1>2, <2>1, OwnRunCovers
  <2>2. CASE d # c
    BY <1>2, <2>2, OthersUnmoved, LedgersKept DEF RunCovers
  <2>3. QED BY <2>1, <2>2
<1>3. QED BY <1>1, <1>2 DEF Next, Step, RunCovers

\* For every instance: when run_ingest returns, each item the source discovered
\* is in the ledger and in the graph.
THEOREM NothingPassedOver == Spec => RunReturnsComplete
<1>1. Inv /\ RunCovers /\ [Next]_vars =>
        [\A c \in Client : FinishRun(c) =>
            \A i \in Range(Discovered) : i \in done[c] /\ IsLoaded(i)]_vars
  <2> SUFFICES ASSUME Inv, RunCovers, NEW c \in Client, FinishRun(c),
                      NEW i \in Range(Discovered)
               PROVE  i \in done[c] /\ IsLoaded(i)
    OBVIOUS
  <2>1. pc[c] = "run" /\ Range(rest[c]) = {}
    BY EmptyRange DEF FinishRun, At
  <2>2. i \in done[c]
    BY <2>1 DEF RunCovers
  <2>3. QED BY <2>2 DEF Inv, DoneMeansLoaded
<1>2. Inv => TypeOK
  BY DEF Inv
<1>3. QED BY <1>1, <1>2, InvInit, InvNext, CoversInit, CoversNext, PTL
          DEF Spec, RunReturnsComplete

(***************************************************************************)
(* Ingestion implements FactLedger.                                        *)
(***************************************************************************)
LEMMA AbstractInit == Init => Abstract!Init
BY DEF Init, GraphInit, PipelineInit, Abstract!Init, Facts

\* A step that leaves the ledgers alone can only add facts.
LEMMA AbstractLearn ==
    ASSUME TypeOK, TypeOK', UNCHANGED done, nodes \subseteq nodes', edges \subseteq edges'
    PROVE  Abstract!Learn
BY DEF Abstract!Learn, Facts, TypeOK, GraphTypeOK

\* mark_done is the abstract Record: the load is over, so the facts are there.
LEMMA AbstractRecord ==
    ASSUME Inv, NEW c \in Client, MarkDone(c)
    PROVE  Abstract!Record(c, Current(c)) /\ Current(c) \in Item
<1> USE DEF Inv
<1>1. pc[c] = "load" /\ Loaded(c) /\ rest[c] # <<>>
  BY DEF MarkDone, Loaded, RelationsWritten, EntitiesWritten, DocumentsWritten, At,
         TypeOK, PipelineTypeOK
<1>2. Current(c) \in Item
  BY <1>1, TailRange DEF Current, TypeOK, PipelineTypeOK
<1>3. IsLoaded(Current(c))
  BY <1>1, <1>2, LoadedIsLoaded DEF LoadKeepsAll
<1>4. Facts(NodesOf(Bundle[Current(c)]), EdgesOf(Bundle[Current(c)])) \subseteq Facts(nodes, edges)
  BY <1>3 DEF IsLoaded, Facts
<1>5. UNCHANGED Facts(nodes, edges)
  BY DEF MarkDone, graphVars, Facts
<1>6. \/ done' = [done EXCEPT ![c] = @ \cup {Current(c)}]
      \/ done' = [d \in Client |-> done[d] \cup {Current(c)}]
  BY DEF MarkDone, Marked, TypeOK, PipelineTypeOK
<1>7. QED BY <1>2, <1>4, <1>5, <1>6 DEF Abstract!Record

\* Every step is a step of FactLedger or invisible to it.
LEMMA AbstractNext ==
    ASSUME Inv, Inv', [Next]_vars
    PROVE  [Abstract!Next]_<<Facts(nodes, edges), done>>
<1> USE DEF Inv
<1>1. nodes \subseteq nodes' /\ edges \subseteq edges'
  BY GraphGrows
<1>2. CASE UNCHANGED done
  BY <1>1, <1>2, AbstractLearn DEF Abstract!Next
<1>3. ASSUME NEW c \in Client, Step(c), ~UNCHANGED done
      PROVE  [Abstract!Next]_<<Facts(nodes, edges), done>>
  <2>1. CASE MarkDone(c)
    BY <2>1, AbstractRecord DEF Abstract!Next
  <2>2. CASE Ingest(c) \/ Crash(c)
    <3>1. /\ \/ done' = done
             \/ done' = [done EXCEPT ![c] = {}]
          /\ UNCHANGED Facts(nodes, edges)
      BY <2>2 DEF Ingest, StartRun, Crash, graphVars, Facts, TypeOK, PipelineTypeOK
    <3>2. QED BY <1>3, <3>1 DEF Abstract!Next, Abstract!Forget
  <2>3. CASE LoadPack(c) \/ Answer(c) \/ Fail(c) \/ RejectRelation(c)
    BY <1>3, <2>3 DEF LoadPack, Answer, Fail, RejectRelation, pipelineVars
  <2>4. ASSUME UpsertDocument(c) \/ WriteLink(c) \/ UpsertColumn(c) \/ UpsertEntity(c)
                 \/ Relate(c) \/ LookUpAlias(c) \/ Suggest(c) \/ Skip(c) \/ Fetch(c)
                 \/ FinishRun(c)
        PROVE  UNCHANGED done
    BY <2>4 DEF UpsertDocument, WriteLink, UpsertColumn, UpsertEntity, Relate, LookUpAlias,
                Suggest, Skip, Fetch, FinishRun
  <2>5. QED BY <1>3, <2>1, <2>2, <2>3, <2>4
            DEF Step, Request, Work, RunStep, LoadStep, pipelineVars
<1>4. QED BY <1>2, <1>3 DEF Next, Step, vars, pipelineVars

\* For every instance: seen from outside, the nodes and edges only grow, and a
\* ledger records an item only when its nodes and edges are all there.
THEOREM Refinement == Spec => AbstractSpec
<1>1. Inv /\ Inv' /\ [Next]_vars => [Abstract!Next]_<<Facts(nodes, edges), done>>
  BY AbstractNext
<1>2. QED BY <1>1, AbstractInit, InvInit, InvNext, PTL DEF Spec, AbstractSpec, Abstract!Spec
==============================================================================
