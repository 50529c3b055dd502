# Formal models of the margin knowledge-graph platform

TLA+ modules for the code of this repository (`graph/`, `packs/`, `resolver/`,
`ingestion/`), TLC runs over small instances, and TLAPS proofs for every
instance. Paths below are relative to the repository; `file:line` is the commit
beside these modules.

## Inventory of the system

| Part | State it keeps | Operations | What makes it hard |
|------|----------------|-----------|--------------------|
| Graph store (`graph/store.py`) | nodes and edges by identity; entity labels; node properties, of which `aliases` steers later writes | `upsert_node`, `upsert_edge`, `get_node`, `out_neighbors`, `nodes_by_label` | two backends: they differ on an edge with a missing end and on what identifies a node; each call is its own transaction, shared by processes |
| Graph client (`graph/client.py`) | allow-lists of one process | typed upserts and links, alias index and terms, `add_metric_alias`, `resolve_column` | read-modify-write of the alias list; allow-lists vanish with the process |
| Pack loader (`packs/loader.py`) | none | `validate`, `load_pack` | loading again replaces what was learned |
| Resolver (`resolver/`) | escalation queue, handed in or its own | construction, `resolve`, `confirm` | two reads per decision; three store calls per confirmation; an empty queue handed in is false |
| Pipeline (`ingestion/pipeline.py`, `ir.py`) | the run's report, the load under way | `run_ingest`, `load_bundle` | many store calls per item, an exception or crash between any two; the order of its loops |
| Checkpointer (`ingestion/checkpoint.py`) | the ledger | `has_seen`, `mark_done` | must never be ahead of the graph |
| Rate limiter (`ingestion/ratelimit.py`) | tokens, last refill | `try_acquire`, `acquire` | two clock readings per wait, bounds and defaults; no lock |
| Source contract, router, synthetic connector (`ingestion/source.py`, `router.py`, `connectors/`) | parser registry; what the source holds | `discover`, `fetch`, `parse` | a source changes between listing and fetching; `discover` lists lazily; ids are joined and split again, and shared with a ledger |

A caller loads packs, runs `run_ingest` over a source, and feeds a human's
answers to `confirm`. `run_ingest` calls the source (which waits at the rate
limiter), the ledger and `load_bundle`; `load_bundle` writes through the client
and asks the resolver about each column; both share the graph. Over
`InMemoryGraphStore` everything lives in one process. Over `Neo4jGraphStore`
several processes share the graph and nothing else, except a durable ledger if
one is plugged in behind the `Checkpointer` protocol.

What makes each part correct: the ledger never names an item whose facts are
not in the graph (pipeline, checkpointer); a reported link can be read back, and
no column is linked by a guess (resolver, client); every column leaves the funnel
at exactly one tier, and an escalated one is queued; only allow-listed labels and
edge types are written, by the process that loaded them; a confirmed name stays
a rule (alias write-back); no window of time sees more requests than the limit;
an item id stands for one thing of one source and is read back as that thing; the
dict store, on which the tests run, answers as Neo4j does; what is escalated
waits where its operator looks.

## Modules

    Graph <- Packs <- Funnel <- Pipeline <- Platform <- MCPlatform
                                               |   \
                                FactLedger (INSTANCE)  PlatformProofs <- LoadProofs <- OutcomeProofs
                                                                          <- LinkProofs <- ReportProofs
    Connector    <- MCConnector,   ConnectorProofs
    StoreParity  <- MCStoreParity, ParityProofs
    TokenBucket  <- BucketProofs -> SharedBucket (INSTANCE)
    Review       <- MCReview

* **Graph**: `nodes`, `edges`, `labels`, `aliases`, and one operator per store
  call. An edge is its type, role and endpoints. `Stored` is where the two
  backends differ: the dict store files any edge, Neo4j's `MATCH ... MERGE` files
  nothing when an endpoint is absent. `OutNeighbors` skips dangling edges, as the
  dict store does.
* **Packs**: `load_pack` as validation with registration, then one step per
  metric, one per benchmark. `subtypes` and `edgeTypes` are per process.
* **Funnel**: tiers and ranking (`Hit`, `Suggested`), the queue, and `confirm`
  as its three store calls `ConfirmLink`, `ReadAliases`, `WriteAliases`.
* **Pipeline**: `run_ingest` and `load_bundle`. A load is a record of queues, one
  per loop of the function, served in the order of its text; each step is one
  store call. `LookUpAlias` and `Suggest` are the two reads of `resolve`. A
  rejected relation is the `WriteValidationError` that leaves `run_ingest`.
* **Platform**: processes doing all of that, over one graph, with `Fail` (an
  exception out of the source or of a server call) and `Crash` (a process loses
  its memory; the graph and a durable ledger stay). The properties of all of these
  modules are here.
* **FactLedger**: what ingestion promises a caller: facts grow, and an item is
  recorded only while its facts are there.
* **TokenBucket**: the limiter used by one thread, amounts in natural units and
  time in ticks, with time passing between any two steps.
* **Connector**: `discover`, `fetch`, `parse` and the router, driven by the loop of
  `run_ingest`, for several sources with one durable ledger. What a source holds
  changes between any two calls. A name is a sequence of parts, cut at its dots, so
  the join of an id is concatenation, and the split at its first dot is `Head` and
  `Tail`; the ledger holds (`source_ref`, `item_id`) pairs. The router looks at the
  version of each record the bundle has: `Parsers` gives the one a parser puts on an
  entity, a column and a document. `load_bundle` is abstracted to its nodes, written
  one at a time.
* **StoreParity**: the dict store and Neo4j side by side, given the same upserts and
  links of the client. The dict keeps a node under the key of its first write;
  Neo4j matches the labels and property values nodes have at the time. `Attributes`
  are the free attributes the client hands on, for the labels that have them.
  `init_schema` may be called at any moment, or never: it creates the constraints in
  their order until one the data does not satisfy raises.
* **SharedBucket**: the limiter again, one read or write of its attributes a step,
  used by threads.
* **Review**: an operator's queue that outlives the process, and the Resolvers it is
  handed to when they are built.
* **MCPlatform**, **MCConnector**, **MCStoreParity**, **MCReview**: the worlds TLC
  checks.

Definitions introduced by a comment as faults are small, plausible bugs in the
definition below them. No action uses them; they show, one at a time, that each
property fails when the code is changed that way.

### Abstractions

* Names, keys and documents are model values; column names and metric terms are
  case-folded, as both comparisons are. String similarity is the table `Score`.
* Properties that steer nothing (titles, formulas, samples, provenance) are left
  out, and so are the report's counters and retained bundles.
* In Platform the identity constraints of `init_schema` are taken to be in force, so
  two concurrent `MERGE`s of one key give one node. StoreParity has them come at any
  time, or not at all.
* When several metrics claim an alias the index returns the last one scanned; the
  scan order is the store's, so `Claimants` lets any of them win.
* In Platform `Discovered` and `Bundle` are constants: a source offers the same items
  with the same content at every run. Connector drops this, and has a smaller
  `load_bundle` in return.
* In StoreParity a composite key is one property, and what a node holds besides the
  keys is another one. A free attribute may set any of these.
* The bucket computes in exact integers. The code's floats round, so an amount that
  falls short by the last bit (`ratelimit.py:82-83`) costs `acquire` one more, very
  short, sleep; neither that nor a drift of the level is in the model.
* `LinksJustified` takes for a rule any name that a pack which validates lists, loaded
  or not, and any that a returned confirmation wrote back. What only a refused pack
  lists, or a confirmation cut short would have added, is none.
* A human confirms a metric of the catalog for a column that was suggested or
  escalated, or defines a metric. `MaxAnswers` bounds the distinct answers.
* `Ledger` says where the ledger lives: `"run"` (no checkpointer is passed),
  `"process"` (an `InMemoryCheckpointer` kept by the process) or `"shared"` (the
  durable one the protocol is meant for).
* The server answers or raises: a write whose acknowledgement is lost is the write
  followed by `Fail` at the next call.
* `accepted`, `learned`, `delivered`, `mark` and `since` are history, read by the
  properties and by the guards of the callers only.

## Runs

| Run | World | Shows |
|-----|-------|-------|
| `memory` | dict store, one process, ledger of the process, three packs (two composable, one refused), bundles with documents, free and owned columns, a column shared by two entities, allowed and specialised relations; 2 failures, 2 answers; about 66,000 states | the safety properties, the action properties of one process, `CallReturns` and `EventuallyDone` under fairness, refinement of `FactLedger` |
| `fleet` | Neo4j, two interchangeable processes, durable ledger, one failure or crash, one answer; about 595,000 states up to symmetry | the ledger, report and links stay sound when store calls of two processes interleave and either stops anywhere; no suggestion is linked for what another process changed between its two reads |
| `bucket` | rate 2, capacity 3, requests 1 to 4, calls begun in 5 ticks | the rate limit over every window, exact sleeps, `acquire` returns |
| `connector` | two sources with a table and a document each, one of them with a parser that forgets a stamp, one change of a source, one failure; 16,000 states | what the ledger makes a run skip was read and is in the graph, under its own name; every column was in a source whose parser understands columns; what stays in a source is ingested |
| `stores` | a key to a label and two for entities, a subtype, a specialised edge, two roles, free attributes (a note, and for a metric the uid of something else), any 4 calls; 121,000 states up to symmetry | the stores answer `get_node` and `nodes_by_label` alike, and `out_neighbors` for the edges written with both ends present; a repeated upsert changes neither; the constraints can come at any time |

What they check: `TypeOK` in each; `DoneMeansLoaded` and `LoadKeepsAll` (the ledger
and the load against the graph); `RunReturnsComplete`; `LinkedAsReported` and
`LinksJustified` (the report and the graph against each other, and the graph
against the rules); `ResolvedOnce`; `EscalatedIsQueued`; `ConfirmedStays`;
`FiledOnce`; `OnlyAllowListed`; `LinkedOnlyAsReported` (a suggestion is never linked,
even at full score); `OutcomesLostWithReport` (the one way a caller loses the
outcomes of a done item); `CallReturns`; `EventuallyDone` (runs cut short and
begun again get through the source); `AbstractSpec`; for the bucket
`WindowBounded`, `SleepExact` and `AcquireReturns`; for the connectors
`SkippedIsHeld`, `ColumnsWereSeen` and `EventuallyIngested`; for the stores
`SameNodes`, `SameNeighbors`, `RerunIsNoOp` and `SchemaCanCome`.

`LinkedOnlyAsReported` is in `fleet` only: it takes a second process to change the
aliases between the two reads of `resolve`. `ConfirmedStays`, `FiledOnce` and
`OutcomesLostWithReport` are in `memory` only. `ConfirmedStays` fails between
two processes (`lost_alias`, below) and leaves out metrics for which a pack lists
aliases, because of `pack_reload`. `FiledOnce` needs a ledger that is kept from one
run to the next: the queue looks for no equal entry (`funnel.py:62-63`), so loading
a bundle a second time files its escalations a second time.
`OutcomesLostWithReport` is about a ledger of the caller's own: with a shared one
another process may have been given the outcomes.

`EscalatedIsQueued` is about the living process. A crash takes the queue and the
delivered reports together, while a durable ledger keeps the item; what was
escalated is then asked of nobody. That is the in-memory queue's design
(`docs/SYSTEM_DESIGN.md:362-363` plans a durable one), and no property speaks of it.

Seven statements of the repository's texts are contradicted by the code, each with
a run whose counterexample is the finding:

| Run | Statement | What happens |
|-----|-----------|--------------|
| `lost_describes` | `ir.py:77-78`, an edge for each described entity | on Neo4j the link is attempted before the entity is written, and dropped |
| `pack_reload` | `loader.py:17-18`, the rule set grows | loading a pack again replaces the learned aliases |
| `lost_outcomes` | `pipeline.py:54-55`, outcomes returned so the caller can act | an exception at a later item takes the report of the finished ones: an escalation is at least still in the queue, a suggestion reaches nobody |
| `lost_alias` | `client.py:320-321`, unions into the set | two read-modify-writes lose one name |
| `slow_source` | `ratelimit.py:9-10`, acquire blocks until a token is available | below one token a second the default capacity makes it raise |
| `shared_bucket` | `ratelimit.py:5-6`, one place decides whether a request may proceed | two threads pass the check on the same token (the repository itself starts none) |
| `durable_queue` | `funnel.py:56-57`, a durable queue drops in | an empty one is false, and is replaced by a private one |

Five more weaknesses show as conditions the proofs below cannot do without, and the
worlds of the runs satisfy them. A system with a dot in its name: `parts` of
`warehouse.eu` is read back as `eu.parts` of `warehouse`, a column no source has.
Connectors built without a `source_ref`: one skips what the other ingested. Free
attributes that name the key of their own label: `SET n += $set_props` overwrites the
key it has merged on (`store.py:208`), and the same call then matches nothing. Packs
that list a base label as a subtype, or an edge type of the core as their own.

### Why the bounds are enough

The interesting cases need two of something: two processes at one store, two items
(a failure at the second, with the first one done), two entities that share a
column, two metrics that claim an alias, two candidate labels of which the first
is not allowed, two failures (a retry that fails as well). The `memory` world has
all that do not need a second process; `fleet` keeps one column for each of the
outcomes linked and suggested (escalated before the pack is loaded), a relation
within an item and one into the other item, and adds the second process. Calls
repeat without bound: runs, pack loads and repeated answers are not counted, only
failures (`MaxFailures`) and distinct answers (`MaxAnswers`) are. In the bucket,
5 ticks at rate 2 refill a bucket of 3 several times over, and a rate that does
not divide the capacity makes sleeps round up.

In `connector` the one change (`MaxChanges`) removes, adds or alters a table or a
document at any moment, and the one failure (`MaxFailures`) cuts one run short at
any step; a second source is what it takes for ids of two sources to meet in the
ledger, and the rows include a table without any and one whose later rows have
more columns. In `stores`, `MaxCalls` of 4 allows for two ends, a link between
them and one thing more: the same link in another role, an upsert repeated, or the
constraints. `SharedBucket` and `Review` are there for their counterexamples; their
bounds (`MaxTime`, `MaxEscalations`) only keep the search finite.

Deadlock is checked in every passing run but `stores`, which ends when its calls are
used up; the other systems have no terminal state.

### Fairness

`FairSpec` of Platform asks weak fairness of `Work(c)`, the calls a process has
begun: a thread in a call keeps being scheduled. Nobody is obliged to call, and
failures are not fair. `EventuallyDone` is a promise to an operator who runs the
ingestion again and again, and says so in its hypothesis: strong fairness of
`Ingest(c)`, since other calls of the process keep coming in between. The connector's
`FairSpec` has the operator in it: weak fairness of `Start(s)` and of the steps of a
run, for each source; its changes and failures are not fair. The bucket asks weak
fairness of `Advance`, and that time passes; no more is needed because one thread
uses it. `fleet` and `stores` run without fairness.

## Proofs

* `PlatformProofs`: **TypeCorrect**, `Spec => []TypeOK`. One lemma per action.
* `LoadProofs`: **LoadComplete** and **LedgerSound**. `DoneMeansLoaded` is not
  inductive: at `mark_done` one must know what the load has written. The
  strengthening is `Inv == TypeOK /\ LoadKeepsAll /\ DoneMeansLoaded`, where
  `LoadKeepsAll` says of each element of a bundle being loaded that it is in a
  queue or in the graph. The graph only grows (`GraphGrows`), so steps of others,
  crashes included, do no harm (`KeepsFrame`); each own step moves an element from
  a queue to the graph (`...Keeps`); with the queues empty everything is there
  (`LoadedIsLoaded`). For Neo4j only edges between entities of the bundle can be
  claimed, and the proof needs that entities precede relations (`EntitiesPresent`).
  **NothingPassedOver**, `Spec => RunReturnsComplete`, has a second invariant,
  `RunCovers` (a discovered item is in the ledger or still to come), and
  **Refinement** is `Spec => AbstractSpec`: `mark_done` is `Record`, a run that
  makes its own ledger and a crash are `Forget`, all else is `Learn` or invisible.
  **DescriptionsKept**, `Spec => []DescribedEntitiesLinked`, is for the dict store,
  which keeps an edge whose end is yet to come.
* `OutcomeProofs`: **EscalationsKept**, `Spec => []EscalatedIsQueued`: an escalation
  joins the queue in the step that records its outcome, and a process loses its
  queue only together with its reports. **AllowListsHold**, `Spec => OnlyAllowListed`,
  for packs that list no edge type of the core (`PackTypesNew`): then an edge waiting
  to be written is of the spine (`SpineLinks`), and any other comes from the step
  that checks its type.
* `LinkProofs`: **LinksAreJustified**, `Spec => []LinksJustified`, and
  **LinkedCanBeRead**, `Spec => []LinkedAsReported`. Neither is inductive. `LinkInv`
  adds to `Inv` that every alias, stored, about to be seeded or about to be written
  back, is a rule someone gave (`RulesKnown`); that a load which has passed its
  entities knows which of them owns each column (`LoadTracks`); and that the links a
  load has yet to write are justified, a column's before its owner's (`LinksWait`),
  like those in the graph (`EdgesSound`). Rules are never taken back
  (`RulesGrow`) though aliases are, which is why a link can outlive the alias it
  rests on. The second theorem adds that the links an outcome promises are in the
  graph or wait in the load (`Linked`). **ConfirmationsStay**,
  `Spec => []ConfirmedStays`, is for one process (`OneProcess`): what a confirmation
  has read is then still the whole list when it writes it back (`ReadIsWhole`).
  `lost_alias` shows that a second process is too many. From the same invariant,
  **LearnedListsGrow**: no step takes an alias from a metric that no pack lists
  aliases for (`ListsGrow`). **SuggestionsWait**, `Spec => LinkedOnlyAsReported`, rests
  on `Announced`: of the MEASURES edges a load has yet to write, each belongs to an
  outcome it has already put down as linked.
* `ReportProofs`: **ColumnsResolvedOnce**, `Spec => []ResolvedOnce`. `iter_columns` is
  a concatenation over all entities (`FlattenSeq`), so the proof needs what that
  recursive function computes for every bundle. The library's induction theorems
  cannot be used here, their predicate being an operator; a least counterexample
  takes their place (`LeastElement`, from the well-foundedness of the numbers).
  With it there is one running concatenation to a sequence (`RunningExists`,
  `RunningUnique`), and appending a sequence appends its elements
  (`FlattenAppend`). The invariant is `LoadInOrder`: the outcomes a load has, then
  the columns left to resolve, are the free columns and those of the entities
  written so far, in order; and `Reported`: a report has items of the ledger only,
  each in one block, and not the one being loaded. **NothingAskedTwice**,
  `Spec => []FiledOnce`, is for the dict store with a ledger kept by the process,
  and bundles in which an undocumented column is in one place of `iter_columns`
  (`UndocumentedOnce`; ids are `<table>.<column>`, so only a bundle with a table
  twice would differ). There an exception can only come out of the source, between
  two items, and a relation is rejected before anything is resolved: what is filed
  is of a done item, or an outcome of the load under way (`AskedOnce`).
  **OutcomesKept**, `Spec => OutcomesLostWithReport`, is for ledgers that are not
  shared, under all failures, rejections and crashes: `mark_done` puts an outcome of
  every column the bundle observes into the report (`ObservedOccurs`), and only an
  exception empties a report while the ledger stays (`LostWithReport`).
* `ConnectorProofs`: **IdsIdentify**, `Spec => []SkippedIsHeld`, and
  **NoInventedColumn**, `Spec => []ColumnsWereSeen`, both for systems without a dot
  in their names (`DotFree`) and connectors with source_refs of their own
  (`RefsDiffer`). Under these an id determines its thing (`SplitId`, `IdsDiffer`)
  and a parser attributes what it finds to the thing that was fetched
  (`ParsedAsItself`); the invariant follows a run from what it fetched to what it
  has left to write (`Underway`), and remembers that what was fetched was seen
  (`ColumnsRemembered`), and that a bundle with columns came through a parser that
  understands them (`Understood`). Table names may have dots. Without `RefsDiffer`,
  one source skips what the other one ingested. **ConnectorTyped**, `Spec =>
  []TypeOK`, needs neither.
* `ParityProofs`: **StoresAgree**, **NeighborsAgree**, **UpsertIdempotent** and
  **SchemaAlwaysCan** (`SameNodes`, `SameNeighbors`, `RerunIsNoOp`, `SchemaCanCome`),
  when free attributes leave the key of their own label alone (`KeysKept`; they may
  name any other) and no subtype is a base label (`SubtypesNew`). Then Neo4j's nodes
  are the image of the dict, one node to an identity (`Mirrored`), and its edges the
  image of those written while both ends were there (`EdgesMirrored`). The code
  checks neither condition. **ParityTyped**,
  `Spec => []TypeOK`, follows from the same invariant.
* `BucketProofs`: **RateLimit**, `Spec => []WindowBounded`, from the account
  `since + tokens <= Capacity + Rate * (last - mark)`, which holds from the first
  refill after the mark; before it nothing has been granted since the mark.
  **BucketTyped**, with the level between nothing and the capacity, comes from the
  same invariant, and **SleepIsExact**,
  `Spec => []SleepExact`, from what a sleeper knows of the level and its wake-up time
  (`Sleeping`). **LoneThreadKeepsRate** is about `SharedBucket` with one thread:
  however old the clock reading its level rests on, `IssueBounded` holds, from what
  its locals say of the bucket at each access (`Knows`).

Assumed: the named `ASSUME`s of the modules, which state types of the constants
and that lexical ranks of keys differ, and in the theorems that say so the
conditions named above. TLC evaluates the `ASSUME`s in every passing run of the
module concerned; the worlds of `connector` and `stores` satisfy the conditions.

Most of the counterexamples above have another half, the part of the statement
that is left standing, proved under the condition it needs: `DescriptionsKept` for
`lost_describes`, `LearnedListsGrow` for `pack_reload`, `OutcomesKept` for
`lost_outcomes`, `ConfirmationsStay` for `lost_alias`, `LoneThreadKeepsRate` for
`shared_bucket`.

Model-checked only: the liveness properties `CallReturns`, `EventuallyDone`,
`AcquireReturns` and `EventuallyIngested`, which are out of the prover's reach.
`slow_source` and `durable_queue` have no counterpart that would say more than a
guard does.

## Not modelled

The production deployment of `docs/SYSTEM_DESIGN.md` (no code); `EmbeddingSuggester`
(a stub that raises); reading packs from YAML; the report's counters; provenance on
edges, titles, formulas, dtypes and samples, which steer nothing; how similar two
strings are. Confirming a metric that is not in the catalog (`client.py:326`) is left
out: the callers of the model confirm what a suggestion or a definition gave them.
Every component with its status, and every hazard with its line and the properties
that cover it, is in `PROJECT.json`.

## Plan

Done, in this order: Graph, Packs, Funnel, Pipeline, Platform with its runs; the
type and load invariants proved; FactLedger and the refinement; TokenBucket and
its proof; Connector, StoreParity, SharedBucket and Review; the proofs about links,
confirmations, escalations, allow-lists, connectors and stores; resumption; the
proofs about the order of a load, reports, filing, and a lone thread. Left:

* Connector and Platform joined: the elements of a bundle with the content of a
  source that changes.
