------------------------------ MODULE Connector ------------------------------
(***************************************************************************)
(* ingestion/source.py, router.py and connectors/synthetic.py: what a      *)
(* source offers, the ids it gives to it, and what its parsers make of an  *)
(* artifact, driven by run_ingest.                                         *)
(*                                                                         *)
(* A name is a sequence of parts, cut where the name has a dot, so joining *)
(* two names with a dot is concatenation and splitting at the first dot is *)
(* Head and Tail.  A source is live: its tables and documents come, go and *)
(* change between any two of its calls.  load_bundle writes the nodes of a *)
(* bundle one at a time, in any order (module Pipeline has its own).       *)
(***************************************************************************)
EXTENDS Naturals, Sequences, FiniteSets

CONSTANTS
    Source,         \* the connectors built, each run by a process of its own
    RefOf,          \* the source_ref each was built with
    Part,           \* the pieces names and ids are joined from
    System,         \* names of systems,
    TableName,      \* of tables,
    ColumnName,     \* of columns
    Uri,            \* and of documents
    Rows,           \* what a table may hold: rows, each the names it has
    Absent,         \* the payload of what a source does not hold
    Version,        \* schema versions, among them ...
    IR_SCHEMA_VERSION, \* ... the one the consumer understands
    Parsers,        \* the artifact types each connector registered a parser for, with
                    \* the version the parser puts on each kind of record it makes
    FirstContent,   \* what each source holds when the system starts
    MaxChanges,     \* bound on changes of the sources
    MaxFailures     \* bound on exceptions and crashes

ArtifactType == {"rows", "prose"}
RecordKind == {"Entity", "Column", "Document"}
Table == [artifact_type : {"rows"}, system : System, table : TableName]
Prose == [artifact_type : {"prose"}, uri : Uri]
Thing == Table \cup Prose
Payload(x) == IF x \in Table THEN Rows ELSE {<<>>}
Held == [Thing -> Rows \cup {<<>>, Absent}]

ASSUME ConnectorAssumption ==
    /\ \A name \in System \cup TableName : name \in Seq(Part) /\ name # <<>>
    /\ ArtifactType \cup Uri \subseteq Part
    /\ Thing # {}
    /\ Rows \subseteq Seq(SUBSET ColumnName)
    /\ Absent \notin Rows \cup {<<>>}
    /\ IR_SCHEMA_VERSION \in Version
    /\ \A s \in Source : \A type \in DOMAIN Parsers[s] :
            Parsers[s][type] \in [RecordKind -> Version]
    /\ FirstContent \in [Source -> Held]
    /\ MaxChanges \in Nat /\ MaxFailures \in Nat

VARIABLES
    content,    \* what each source holds
    seen,       \* the columns that ever were in each source (history)
    pc,         \* where each source's run is
    tabled,     \* whether the run still has to list the documents
    todo,       \* what discover has listed and the run has not passed
    item,       \* the item under way
    fetched,    \* what each source last answered for each of its things
    bundle,     \* nodes of the parsed bundle that are still to be written
    ledger,     \* (source_ref, item_id) pairs marked done, in a durable ledger
    graph,      \* nodes written
    changes,    \* changes of the sources so far
    failures    \* exceptions and crashes so far

vars == <<content, seen, pc, tabled, todo, item, fetched, bundle, ledger, graph,
          changes, failures>>

(***************************************************************************)
(* Item ids.                                                               *)
(***************************************************************************)
\* Fault: the system is left out of the id.
TableOnlyId(x) ==
    IF x.artifact_type = "rows" THEN <<"rows">> \o x.table ELSE <<"prose", x.uri>>
ItemId(x) ==
    IF x.artifact_type = "rows" THEN <<"rows">> \o x.system \o x.table
                                ELSE <<"prose", x.uri>>

\* split(":", 1) and split(".", 1).
Ref(id) == Tail(id)
SystemIn(ref) == <<Head(ref)>>
TableIn(ref) == Tail(ref)

Key(s, x) == <<RefOf[s], ItemId(x)>>

(***************************************************************************)
(* Nodes, as load_bundle writes them.                                      *)
(***************************************************************************)
ColumnNode(system, table, name) == <<"Column", <<system, table, name>>>>
EntityNode(ref) == <<"Entity", ref>>
DocumentNode(uri) == <<"Document", uri>>

\* The columns of a table are the names in its first row.
ColumnNames(rows) == IF rows = <<>> THEN {} ELSE Head(rows)

\* _parse_rows and _parse_prose.
RowsNodes(ref, rows) ==
    {EntityNode(ref)}
      \cup {ColumnNode(SystemIn(ref), TableIn(ref), n) : n \in ColumnNames(rows)}
NodesIn(type, id, payload) ==
    IF type = "rows" THEN RowsNodes(Ref(id), payload)
                     ELSE {DocumentNode(Ref(id)[1])}

\* ParserRouter.parse: the parser registered for the type, then the version check of
\* every record there is, those inside entities included.
\* (Fault: the columns of entities are not looked at.)
Stamp(s, type, n) == Parsers[s][type][n[1]]
AcceptsRecords(s, x, payload) ==
    LET type == x.artifact_type
    IN  /\ type \in DOMAIN Parsers[s]
        /\ \A n \in NodesIn(type, ItemId(x), payload) :
             n[1] # "Column" => Stamp(s, type, n) = IR_SCHEMA_VERSION
Accepts(s, x, payload) ==
    LET type == x.artifact_type
    IN  /\ type \in DOMAIN Parsers[s]
        /\ \A n \in NodesIn(type, ItemId(x), payload) :
             Stamp(s, type, n) = IR_SCHEMA_VERSION

(***************************************************************************)
(* run_ingest over one source.                                             *)
(***************************************************************************)
Offered(s, type) == {x \in Thing : x.artifact_type = type /\ content[s][x] # Absent}

At(s, label) == pc[s] = label
Goto(s, label) == pc' = [pc EXCEPT ![s] = label]

\* discover is a generator: it lists the tables when the first item is asked for,
Start(s) ==
    /\ At(s, "idle")
    /\ todo' = [todo EXCEPT ![s] = Offered(s, "rows")]
    /\ tabled' = [tabled EXCEPT ![s] = FALSE]
    /\ Goto(s, "run")
    /\ UNCHANGED <<content, seen, item, fetched, bundle, ledger, graph, changes, failures>>

\* ... and the documents when the tables are exhausted.
\* (Fault: the list of tables is exhausted for good.)
ForgetDocuments(s) ==
    /\ At(s, "run")
    /\ ~tabled[s]
    /\ todo[s] = {}
    /\ tabled' = [tabled EXCEPT ![s] = TRUE]
    /\ UNCHANGED <<content, seen, pc, todo, item, fetched, bundle, ledger, graph,
                   changes, failures>>
ListDocuments(s) ==
    /\ At(s, "run")
    /\ ~tabled[s]
    /\ todo[s] = {}
    /\ todo' = [todo EXCEPT ![s] = Offered(s, "prose")]
    /\ tabled' = [tabled EXCEPT ![s] = TRUE]
    /\ UNCHANGED <<content, seen, pc, item, fetched, bundle, ledger, graph,
                   changes, failures>>

Skip(s) ==
    /\ At(s, "run")
    /\ \E x \in todo[s] :
         /\ Key(s, x) \in ledger
         /\ todo' = [todo EXCEPT ![s] = @ \ {x}]
    /\ UNCHANGED <<content, seen, pc, tabled, item, fetched, bundle, ledger, graph,
                   changes, failures>>

Fetch(s) ==
    /\ At(s, "run")
    /\ \E x \in todo[s] :
         /\ Key(s, x) \notin ledger
         /\ content[s][x] # Absent
         /\ item' = [item EXCEPT ![s] = x]
         /\ fetched' = [fetched EXCEPT ![s][x] = content[s][x]]
    /\ Goto(s, "parse")
    /\ UNCHANGED <<content, seen, tabled, todo, bundle, ledger, graph, changes, failures>>

\* An exception leaves run_ingest; the ledger and the graph stay.
\* (Fault: so does what was left to write.)
AbandonRunOnly(s) ==
    /\ Goto(s, "idle")
    /\ todo' = [todo EXCEPT ![s] = {}]
    /\ UNCHANGED <<content, seen, tabled, item, fetched, bundle, ledger, graph, changes>>
Abandon(s) ==
    /\ Goto(s, "idle")
    /\ todo' = [todo EXCEPT ![s] = {}]
    /\ bundle' = [bundle EXCEPT ![s] = {}]
    /\ UNCHANGED <<content, seen, tabled, item, fetched, ledger, graph, changes>>

\* KeyError: what was listed is gone.
FetchMissing(s) ==
    /\ At(s, "run")
    /\ \E x \in todo[s] : Key(s, x) \notin ledger /\ content[s][x] = Absent
    /\ Abandon(s)
    /\ UNCHANGED failures

Parse(s) ==
    /\ At(s, "parse")
    /\ LET x == item[s]
       IN  /\ Accepts(s, x, fetched[s][x])
           /\ bundle' = [bundle EXCEPT ![s] =
                NodesIn(x.artifact_type, ItemId(x), fetched[s][x])]
    /\ Goto(s, "load")
    /\ UNCHANGED <<content, seen, tabled, todo, item, fetched, ledger, graph,
                   changes, failures>>

\* KeyError or ValueError of the router.
RejectArtifact(s) ==
    /\ At(s, "parse")
    /\ ~Accepts(s, item[s], fetched[s][item[s]])
    /\ Abandon(s)
    /\ UNCHANGED failures

Load(s) ==
    /\ At(s, "load")
    /\ \E n \in bundle[s] :
         /\ bundle' = [bundle EXCEPT ![s] = @ \ {n}]
         /\ graph' = graph \cup {n}
    /\ UNCHANGED <<content, seen, pc, tabled, todo, item, fetched, ledger,
                   changes, failures>>

\* Fault: the item is marked while there is something left to write.
MarkEarly(s) ==
    /\ At(s, "load")
    /\ ledger' = ledger \cup {Key(s, item[s])}
    /\ todo' = [todo EXCEPT ![s] = @ \ {item[s]}]
    /\ bundle' = [bundle EXCEPT ![s] = {}]
    /\ Goto(s, "run")
    /\ UNCHANGED <<content, seen, tabled, item, fetched, graph, changes, failures>>
MarkDone(s) ==
    /\ At(s, "load")
    /\ bundle[s] = {}
    /\ ledger' = ledger \cup {Key(s, item[s])}
    /\ todo' = [todo EXCEPT ![s] = @ \ {item[s]}]
    /\ Goto(s, "run")
    /\ UNCHANGED <<content, seen, tabled, item, fetched, bundle, graph, changes, failures>>

Finish(s) ==
    /\ At(s, "run")
    /\ tabled[s]
    /\ todo[s] = {}
    /\ Goto(s, "idle")
    /\ UNCHANGED <<content, seen, tabled, todo, item, fetched, bundle, ledger, graph,
                   changes, failures>>

Step(s) ==
    \/ ListDocuments(s) \/ Skip(s) \/ Fetch(s) \/ FetchMissing(s)
    \/ Parse(s) \/ RejectArtifact(s) \/ Load(s) \/ MarkDone(s) \/ Finish(s)

Fail(s) ==
    /\ ~At(s, "idle")
    /\ failures < MaxFailures
    /\ failures' = failures + 1
    /\ Abandon(s)

(***************************************************************************)
(* The systems behind the sources.                                         *)
(***************************************************************************)
ColumnsOf(x, payload) ==
    IF x \in Table /\ payload # Absent
      THEN {<<x.system, x.table, n>> : n \in ColumnNames(payload)} ELSE {}

Change(s) ==
    /\ changes < MaxChanges
    /\ \E x \in Thing : \E payload \in Payload(x) \cup {Absent} :
         /\ content' = [content EXCEPT ![s][x] = payload]
         /\ seen' = [seen EXCEPT ![s] = @ \cup ColumnsOf(x, payload)]
    /\ changes' = changes + 1
    /\ UNCHANGED <<pc, tabled, todo, item, fetched, bundle, ledger, graph, failures>>

Init ==
    /\ content = FirstContent
    /\ seen = [s \in Source |-> UNION {ColumnsOf(x, FirstContent[s][x]) : x \in Thing}]
    /\ pc = [s \in Source |-> "idle"]
    /\ tabled = [s \in Source |-> FALSE]
    /\ todo = [s \in Source |-> {}]
    /\ item = [s \in Source |-> CHOOSE x \in Thing : TRUE]
    /\ fetched = [s \in Source |-> [x \in Thing |-> Absent]]
    /\ bundle = [s \in Source |-> {}]
    /\ ledger = {}
    /\ graph = {}
    /\ changes = 0
    /\ failures = 0

Next == \E s \in Source : Start(s) \/ Step(s) \/ Fail(s) \/ Change(s)

Spec == Init /\ [][Next]_vars

\* A run that has begun keeps executing, and the operator runs every source again.
FairSpec == Spec /\ \A s \in Source : WF_vars(Start(s)) /\ WF_vars(Step(s))

TypeOK ==
    /\ content \in [Source -> Held]
    /\ fetched \in [Source -> Held]
    /\ ledger \subseteq {Key(s, x) : s \in Source, x \in Thing}
    /\ pc \in [Source -> {"idle", "run", "parse", "load"}]
    /\ tabled \in [Source -> BOOLEAN]
    /\ todo \in [Source -> SUBSET Thing]
    /\ item \in [Source -> Thing]
    /\ DOMAIN bundle = Source /\ DOMAIN seen = Source
    /\ \A s \in Source : pc[s] # "load" => bundle[s] = {}
    /\ \A s \in Source : pc[s] \in {"parse", "load"} => item[s] \in todo[s]
    /\ changes \in 0..MaxChanges
    /\ failures \in 0..MaxFailures

(***************************************************************************)
(* Properties.                                                             *)
(***************************************************************************)
\* The nodes x stands for, under its own system and table.
OwnNodes(x, payload) ==
    IF x \in Table
      THEN {EntityNode(x.system \o x.table)}
             \cup {ColumnNode(x.system, x.table, n) : n \in ColumnNames(payload)}
      ELSE {DocumentNode(x.uri)}

\* What the ledger makes a run skip has been read from that very source, and what
\* was read is in the graph under its own system and table: `item_id` is the
\* idempotency key (source.py:43-45), and the id of nothing else.
SkippedIsHeld ==
    \A s \in Source, x \in Thing : Key(s, x) \in ledger =>
        /\ fetched[s][x] # Absent
        /\ \A n \in OwnNodes(x, fetched[s][x]) : n \in graph

\* "A physical column seen in some source system" (ir.py:51): each column of the
\* graph was, in that system and table, in a source, and one whose parser speaks the
\* consumer's version of columns ("reject shapes it does not understand",
\* ir.py:11-13): what another source shows, of the same table even, adds none.
Understood(s) == "rows" \in DOMAIN Parsers[s] /\ Parsers[s].rows.Column = IR_SCHEMA_VERSION
ColumnsWereSeen ==
    \A n \in graph : n[1] = "Column" => \E s \in Source : n[2] \in seen[s] /\ Understood(s)

\* What stays in a source is ingested in the end, although runs are cut short by
\* failures and by things that vanish between listing and fetching; unless it
\* is behind, in the order of discover, an artifact the router rejects.
NoLater(y, x) == y.artifact_type = "rows" \/ x.artifact_type = "prose"
Passes(s, y) ==
    content[s][y] = Absent \/ Key(s, y) \in ledger \/ Accepts(s, y, content[s][y])
Reachable(s, x) ==
    /\ content[s][x] # Absent
    /\ \A y \in Thing : NoLater(y, x) => Passes(s, y)
EventuallyIngested ==
    \A s \in Source, x \in Thing : <>[]Reachable(s, x) => <>(Key(s, x) \in ledger)
==============================================================================
