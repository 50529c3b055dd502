------------------------------ MODULE Pipeline -------------------------------
(***************************************************************************)
(* ingestion/pipeline.py and checkpoint.py: run_ingest drives one source   *)
(* item by item; load_bundle writes one bundle and resolves its columns.   *)
(*                                                                         *)
(* load_bundle is a straight line of store calls.  `load` holds what it    *)
(* has still to do, as one queue per loop of the function; the queues are  *)
(* served in the order of its text, and one action is one store call.      *)
(***************************************************************************)
EXTENDS Funnel

CONSTANTS
    Discovered, \* the items discover() enumerates, in order
    Bundle,     \* the IR each item parses to
    NoEntity,   \* the owner of a column no entity carries
    Ledger      \* "run": no checkpointer is passed, each run makes its own;
                \* "process": an InMemoryCheckpointer per process;
                \* "shared": a durable one outside the processes

ObservedDocument ==
    [uri : Document, describes : Seq(Entity), defines : Seq(Metric)]
ObservedEntity ==
    [uid : Entity, candidate_labels : Seq(Subtype), columns : Seq(Observation)]
ObservedRelation ==
    [subject : Entity, object : Entity, role : Role,
     type : RelationType \cup {"RELATED_TO"}]
ParsedBundle ==
    [documents : Seq(ObservedDocument), columns : Seq(Observation),
     entities : Seq(ObservedEntity), relations : Seq(ObservedRelation)]

ASSUME PipelineAssumption ==
    /\ Discovered \in Seq(Item)
    /\ Bundle \in [Item -> ParsedBundle]
    /\ NoEntity \notin Entity
    /\ Ledger \in {"run", "process", "shared"}

VARIABLES
    done,       \* items the ledger a process consults has marked done
    rest,       \* items the run under way has not passed yet
    load,       \* what load_bundle has still to do
    report,     \* IngestReport.resolutions of the run under way
    delivered   \* resolutions of the runs that returned (history)

pipelineVars == <<done, rest, load, report, delivered>>

Pending ==
    [links : Seq(EdgeId), documents : Seq(ObservedDocument),
     columns : Seq(Observation), entities : Seq(ObservedEntity),
     relations : Seq(ObservedRelation), observed : Seq(Observation),
     owner : [Column -> Entity \cup {NoEntity}], missed : BOOLEAN,
     resolutions : Seq(Outcome)]

\* Fault: the free-standing columns are forgotten by the resolving loop.
NewLoadOwnedOnly(b) ==
    [links |-> <<>>, documents |-> b.documents, columns |-> b.columns,
     entities |-> b.entities, relations |-> b.relations, observed |-> <<>>,
     owner |-> [x \in Column |-> NoEntity], missed |-> FALSE, resolutions |-> <<>>]

\* `observed` grows to iter_columns: free-standing columns, then owned ones.
NewLoad(b) ==
    [links |-> <<>>, documents |-> b.documents, columns |-> b.columns,
     entities |-> b.entities, relations |-> b.relations, observed |-> b.columns,
     owner |-> [x \in Column |-> NoEntity], missed |-> FALSE, resolutions |-> <<>>]

NoLoad == NewLoad([documents |-> <<>>, columns |-> <<>>,
                   entities |-> <<>>, relations |-> <<>>])

Current(c) == Head(rest[c])
SetLoad(c, l) == load' = [load EXCEPT ![c] = l]

(***************************************************************************)
(* load_bundle, in the order of its loops.                                 *)
(***************************************************************************)
\* The edge calls a document or an auto-linked column is followed by.
WriteLink(c) ==
    /\ At(c, "load")
    /\ load[c].links # <<>>
    /\ UpsertEdge(Head(load[c].links))
    /\ SetLoad(c, [load[c] EXCEPT !.links = Tail(@)])
    /\ UNCHANGED <<nodes, labels, aliases, packVars, funnelVars,
                   done, rest, report, delivered>>

DocumentLinks(d) ==
    [i \in 1..Len(d.describes) |-> Describes(d.uri, d.describes[i])]
      \o [i \in 1..Len(d.defines) |-> DefinedIn(d.defines[i], d.uri)]

UpsertDocument(c) ==
    /\ At(c, "load")
    /\ load[c].links = <<>>
    /\ load[c].documents # <<>>
    /\ LET d == Head(load[c].documents)
       IN  /\ UpsertNode(DocumentNode(d.uri))
           /\ SetLoad(c, [load[c] EXCEPT !.documents = Tail(@),
                                         !.links = DocumentLinks(d)])
    /\ UNCHANGED <<edges, labels, aliases, packVars, funnelVars,
                   done, rest, report, delivered>>

DocumentsWritten(c) == /\ At(c, "load")
                       /\ load[c].links = <<>>
                       /\ load[c].documents = <<>>

\* The bundle's own columns, and later those of the entity just written.
UpsertColumn(c) ==
    /\ DocumentsWritten(c)
    /\ load[c].columns # <<>>
    /\ UpsertNode(ColumnNode(Head(load[c].columns).column))
    /\ SetLoad(c, [load[c] EXCEPT !.columns = Tail(@)])
    /\ UNCHANGED <<edges, labels, aliases, packVars, funnelVars,
                   done, rest, report, delivered>>

\* Fault: the first candidate, whatever the packs allow.
PickFirst(c, candidates) == {candidates[i] : i \in DOMAIN candidates \cap {1}}

\* _pick_subtype: the first candidate the packs loaded in this process allow.
PickSubtype(c, candidates) ==
    {candidates[i] : i \in {j \in DOMAIN candidates :
        /\ candidates[j] \in subtypes[c]
        /\ \A k \in 1..(j - 1) : candidates[k] \notin subtypes[c]}}

Owns(ent, x) == \E i \in DOMAIN ent.columns : ent.columns[i].column = x

\* A later entity takes over the columns it shares with an earlier one.
UpsertEntity(c) ==
    /\ DocumentsWritten(c)
    /\ load[c].columns = <<>>
    /\ load[c].entities # <<>>
    /\ LET ent == Head(load[c].entities)
       IN  /\ UpsertNode(EntityNode(ent.uid))
           /\ AddLabels(ent.uid, PickSubtype(c, ent.candidate_labels))
           /\ SetLoad(c, [load[c] EXCEPT
                !.entities = Tail(@),
                !.columns = ent.columns,
                !.observed = @ \o ent.columns,
                !.owner = [x \in Column |-> IF Owns(ent, x) THEN ent.uid ELSE @[x]]])
    /\ UNCHANGED <<edges, aliases, packVars, funnelVars,
                   done, rest, report, delivered>>

\* Fault: relations written as soon as the documents are.
RelationsFirst(c) == DocumentsWritten(c) /\ load[c].columns = <<>>

EntitiesWritten(c) == /\ DocumentsWritten(c)
                      /\ load[c].columns = <<>>
                      /\ load[c].entities = <<>>

\* Fault: what one process allows is allowed to all.
AllowedToAnyone(c, type) ==
    type = "RELATED_TO" \/ \E d \in Client : type \in edgeTypes[d]

Allowed(c, type) == type = "RELATED_TO" \/ type \in edgeTypes[c]

Relate(c) ==
    /\ EntitiesWritten(c)
    /\ load[c].relations # <<>>
    /\ Allowed(c, Head(load[c].relations).type)
    /\ UpsertEdge(Relates(Head(load[c].relations)))
    /\ SetLoad(c, [load[c] EXCEPT !.relations = Tail(@)])
    /\ UNCHANGED <<nodes, labels, aliases, packVars, funnelVars,
                   done, rest, report, delivered>>

\* An exception leaves run_ingest through every frame: the report and the
\* load are garbage, the writes made so far stay.
\* (Fault: the loop keeps the item it was loading.)
AbandonButKeepLoad(c) ==
    /\ Goto(c, "idle")
    /\ catalog' = [catalog EXCEPT ![c] = NothingLeft]
    /\ confirming' = [confirming EXCEPT ![c] = NoConfirmation]
    /\ rest' = [rest EXCEPT ![c] = <<>>]
    /\ report' = [report EXCEPT ![c] = <<>>]
    /\ UNCHANGED load

AbandonCall(c) ==
    /\ Goto(c, "idle")
    /\ catalog' = [catalog EXCEPT ![c] = NothingLeft]
    /\ confirming' = [confirming EXCEPT ![c] = NoConfirmation]
    /\ rest' = [rest EXCEPT ![c] = <<>>]
    /\ SetLoad(c, NoLoad)
    /\ report' = [report EXCEPT ![c] = <<>>]

\* Fault: the rejected item is tried again at once.
RetryRelation(c) ==
    /\ EntitiesWritten(c)
    /\ load[c].relations # <<>>
    /\ ~Allowed(c, Head(load[c].relations).type)
    /\ Goto(c, "run")
    /\ SetLoad(c, NoLoad)
    /\ UNCHANGED <<graphVars, subtypes, edgeTypes, catalog, funnelVars,
                   done, rest, report, delivered>>

\* WriteValidationError.
RejectRelation(c) ==
    /\ EntitiesWritten(c)
    /\ load[c].relations # <<>>
    /\ ~Allowed(c, Head(load[c].relations).type)
    /\ AbandonCall(c)
    /\ UNCHANGED <<graphVars, subtypes, edgeTypes, queue, accepted, learned,
                   done, delivered>>

(***************************************************************************)
(* Resolving the bundle's columns: Resolver.resolve, then the links.       *)
(***************************************************************************)
RelationsWritten(c) == EntitiesWritten(c) /\ load[c].relations = <<>>

Resolving(c) == RelationsWritten(c) /\ load[c].observed # <<>>
Loaded(c) == RelationsWritten(c) /\ load[c].observed = <<>>

\* The column resolved leaves the queue with outcome (tier, m); its links follow.
Resolved(c, tier, m, links) ==
    LET x == Head(load[c].observed).column
    IN  SetLoad(c, [load[c] EXCEPT
            !.observed = Tail(@), !.missed = FALSE, !.links = links,
            !.resolutions = Append(@, Resolution(Current(c), x, tier, m))])

\* Fault: the owner is forgotten.
MeasuresOnly(c, x, m) == <<Measures(x, m)>>

MetricLinks(c, x, m) ==
    IF load[c].owner[x] = NoEntity
      THEN <<Measures(x, m)>>
      ELSE <<Measures(x, m), AppliesTo(m, load[c].owner[x])>>

LookUpAlias(c) ==
    /\ Resolving(c)
    /\ ~load[c].missed
    /\ LET o == Head(load[c].observed)
       IN  \/ \E m \in Metric :
                /\ Hit(NameOf[o.column], m)
                /\ Resolved(c, "AUTO_LINKED", m, MetricLinks(c, o.column, m))
           \/ /\ Miss(NameOf[o.column])
              /\ o.has_dictionary
              /\ Resolved(c, "DOCUMENTED", NoMetric, <<>>)
           \/ /\ Miss(NameOf[o.column])
              /\ ~o.has_dictionary
              /\ SetLoad(c, [load[c] EXCEPT !.missed = TRUE])
    /\ UNCHANGED <<graphVars, packVars, funnelVars, done, rest, report, delivered>>

\* Fault: a suggestion at full score is linked without asking.
SuggestAndLink(c) ==
    /\ Resolving(c)
    /\ load[c].missed
    /\ LET x == Head(load[c].observed).column
       IN  \/ \E m \in Suggested(NameOf[x]) :
                /\ Resolved(c, "SUGGESTED", m, IF Rating(NameOf[x], m) = 100
                                               THEN MetricLinks(c, x, m) ELSE <<>>)
                /\ UNCHANGED queue
           \/ /\ Suggested(NameOf[x]) = {}
              /\ Resolved(c, "ESCALATED", NoMetric, <<>>)
              /\ Enqueue(c, Resolution(Current(c), x, "ESCALATED", NoMetric))
    /\ UNCHANGED <<graphVars, packVars, confirming, accepted, learned,
                   done, rest, report, delivered>>

\* The second read: aliases may have changed since the index missed.
Suggest(c) ==
    /\ Resolving(c)
    /\ load[c].missed
    /\ LET x == Head(load[c].observed).column
       IN  \/ \E m \in Suggested(NameOf[x]) :
                /\ Resolved(c, "SUGGESTED", m, <<>>)
                /\ UNCHANGED queue
           \/ /\ Suggested(NameOf[x]) = {}
              /\ Resolved(c, "ESCALATED", NoMetric, <<>>)
              /\ Enqueue(c, Resolution(Current(c), x, "ESCALATED", NoMetric))
    /\ UNCHANGED <<graphVars, packVars, confirming, accepted, learned,
                   done, rest, report, delivered>>

(***************************************************************************)
(* run_ingest.                                                             *)
(***************************************************************************)
\* (Fault: a source some item of which is done is not enumerated again.)
StartIfNew(c) ==
    /\ At(c, "idle")
    /\ rest' = [rest EXCEPT ![c] = IF done[c] = {} THEN Discovered ELSE <<>>]
    /\ done' = [done EXCEPT ![c] = IF Ledger = "run" THEN {} ELSE @]
    /\ Goto(c, "run")
    /\ UNCHANGED <<graphVars, subtypes, edgeTypes, catalog, funnelVars,
                   load, report, delivered>>
StartRun(c) ==
    /\ At(c, "idle")
    /\ rest' = [rest EXCEPT ![c] = Discovered]
    /\ done' = [done EXCEPT ![c] = IF Ledger = "run" THEN {} ELSE @]
    /\ Goto(c, "run")
    /\ UNCHANGED <<graphVars, subtypes, edgeTypes, catalog, funnelVars,
                   load, report, delivered>>

Skip(c) ==
    /\ At(c, "run")
    /\ rest[c] # <<>>
    /\ Current(c) \in done[c]
    /\ rest' = [rest EXCEPT ![c] = Tail(@)]
    /\ UNCHANGED <<graphVars, packVars, funnelVars, done, load, report, delivered>>

\* Fault: the item is marked done before it is loaded.
FetchAndMark(c) ==
    /\ At(c, "run")
    /\ rest[c] # <<>>
    /\ Current(c) \notin done[c]
    /\ SetLoad(c, NewLoad(Bundle[Current(c)]))
    /\ done' = [done EXCEPT ![c] = @ \cup {Current(c)}]
    /\ Goto(c, "load")
    /\ UNCHANGED <<graphVars, subtypes, edgeTypes, catalog, funnelVars,
                   rest, report, delivered>>

\* fetch and parse, when neither raises.
Fetch(c) ==
    /\ At(c, "run")
    /\ rest[c] # <<>>
    /\ Current(c) \notin done[c]
    /\ SetLoad(c, NewLoad(Bundle[Current(c)]))
    /\ Goto(c, "load")
    /\ UNCHANGED <<graphVars, subtypes, edgeTypes, catalog, funnelVars,
                   done, rest, report, delivered>>

\* mark_done: in the ledger every process consults, or in c's own.  (Fault: an
\* item that left something to a human is not done.)
MarkIfResolved(c) ==
    IF \E i \in DOMAIN load[c].resolutions : load[c].resolutions[i].tier = "ESCALATED"
      THEN done ELSE [done EXCEPT ![c] = @ \cup {Current(c)}]
Marked(c) ==
    [d \in Client |-> IF d = c \/ Ledger = "shared" THEN done[d] \cup {Current(c)}
                                                    ELSE done[d]]

\* Fault: the report is that of the last item only.
MarkDoneAnew(c) ==
    /\ Loaded(c)
    /\ report' = [report EXCEPT ![c] = load[c].resolutions]
    /\ done' = Marked(c)
    /\ rest' = [rest EXCEPT ![c] = Tail(@)]
    /\ SetLoad(c, NoLoad)
    /\ Goto(c, "run")
    /\ UNCHANGED <<graphVars, subtypes, edgeTypes, catalog, funnelVars, delivered>>

\* load_bundle returns its resolutions and the item enters the ledger.
MarkDone(c) ==
    /\ Loaded(c)
    /\ report' = [report EXCEPT ![c] = @ \o load[c].resolutions]
    /\ done' = Marked(c)
    /\ rest' = [rest EXCEPT ![c] = Tail(@)]
    /\ SetLoad(c, NoLoad)
    /\ Goto(c, "run")
    /\ UNCHANGED <<graphVars, subtypes, edgeTypes, catalog, funnelVars, delivered>>

FinishRun(c) ==
    /\ At(c, "run")
    /\ rest[c] = <<>>
    /\ delivered' = [delivered EXCEPT ![c] = @ \cup Range(report[c])]
    /\ report' = [report EXCEPT ![c] = <<>>]
    /\ Goto(c, "idle")
    /\ UNCHANGED <<graphVars, subtypes, edgeTypes, catalog, funnelVars,
                   done, rest, load>>

LoadStep(c) == \/ UpsertDocument(c) \/ WriteLink(c) \/ UpsertColumn(c)
               \/ UpsertEntity(c) \/ Relate(c) \/ RejectRelation(c)
               \/ LookUpAlias(c) \/ Suggest(c) \/ MarkDone(c)
RunStep(c) == Skip(c) \/ Fetch(c) \/ LoadStep(c) \/ FinishRun(c)

PipelineInit ==
    /\ done = [c \in Client |-> {}]
    /\ rest = [c \in Client |-> <<>>]
    /\ load = [c \in Client |-> NoLoad]
    /\ report = [c \in Client |-> <<>>]
    /\ delivered = [c \in Client |-> {}]

PipelineTypeOK ==
    /\ done \in [Client -> SUBSET Item]
    /\ rest \in [Client -> Seq(Item)]
    /\ load \in [Client -> Pending]
    /\ report \in [Client -> Seq(Outcome)]
    /\ delivered \in [Client -> SUBSET Outcome]
    /\ \A c \in Client : IF pc[c] = "load" THEN rest[c] # <<>> ELSE load[c] = NoLoad
==============================================================================
