------------------------------ MODULE LinkProofs -----------------------------
(***************************************************************************)
(* Why an edge to a metric is there, and that what was reported can be     *)
(* read back.  The argument has four parts: an alias is a rule someone     *)
(* gave; a load that reaches its resolving loop knows the owner of every   *)
(* column; the links that wait to be written are justified, a column's     *)
(* before its owner's; and an outcome's links wait or are in the graph.    *)
(***************************************************************************)
EXTENDS OutcomeProofs

(***************************************************************************)
(* Rules.                                                                  *)
(***************************************************************************)
Defined == UNION {Range(PackDef[p].metrics) : p \in {q \in Pack : Valid(q)}}

\* Every alias, stored, about to be seeded or about to be written back, is a
\* rule of its metric.
RulesKnown ==
    /\ \A m \in Metric : aliases[m] \subseteq RulesOf(m)
    /\ \A c \in Client : Range(catalog[c].metrics) \subseteq Defined
    /\ \A c \in Client : pc[c] \in {"confirm", "learn"} =>
         /\ <<confirming[c].column, confirming[c].metric>> \in accepted
         /\ confirming[c].read \subseteq RulesOf(confirming[c].metric)

\* Answers are never taken back, so rules are not either.
LEMMA RulesGrow ==
    ASSUME TypeOK, [Next]_vars
    PROVE  accepted \subseteq accepted' /\ \A m : RulesOf(m) \subseteq RulesOf(m)'
<1> DEFINE Grow == accepted \subseteq accepted' /\ learned \subseteq learned'
<1>1. Grow
  <2>1. CASE UNCHANGED vars
    BY <2>1 DEF vars, funnelVars
  <2>2. ASSUME NEW c \in Client, Request(c) PROVE Grow
    BY <2>2 DEF Request, LoadPack, Answer, ConfirmLink, DefineMetric, Ingest, StartRun, funnelVars
  <2>3. ASSUME NEW c \in Client, Work(c) PROVE Grow
    <3>1. CASE LoadPackStep(c) /\ UNCHANGED <<funnelVars, pipelineVars, failures>>
      BY <3>1 DEF funnelVars
    <3>2. CASE ConfirmStep(c)
      BY <3>2 DEF ConfirmStep, ReadAliases, WriteAliases
    <3>3. CASE UpsertDocument(c) \/ WriteLink(c) \/ UpsertColumn(c) \/ UpsertEntity(c) \/ Relate(c)
      BY <3>3, WritesResolveNothing DEF funnelVars
    <3>4. CASE RejectRelation(c) \/ LookUpAlias(c) \/ Suggest(c) \/ MarkDone(c)
      BY <3>4 DEF RejectRelation, LookUpAlias, Suggest, MarkDone, funnelVars
    <3>5. CASE Skip(c) \/ Fetch(c) \/ FinishRun(c)
      BY <3>5 DEF Skip, Fetch, FinishRun, funnelVars
    <3>6. QED BY <2>3, <3>1, <3>2, <3>3, <3>4, <3>5 DEF Work, RunStep, LoadStep
  <2>4. ASSUME NEW c \in Client, Fail(c) \/ Crash(c) PROVE Grow
    BY <2>4 DEF Fail, Crash
  <2>5. QED BY <2>1, <2>2, <2>3, <2>4 DEF Next
<1>2. QED BY <1>1 DEF RulesOf, SeedsOf

\* A pack's definition is a rule of the metric it defines.
LEMMA DefinitionsAreRules ==
    ASSUME NEW def \in Defined
    PROVE  def.aliases \subseteq RulesOf(def.metric)
BY DEF Defined, RulesOf, SeedsOf

\* What a step of c does to the three of them.
LEMMA OwnRules ==
    ASSUME TypeOK, TypeOK', RulesKnown, NEW c \in Client, Step(c),
           accepted \subseteq accepted', \A m : RulesOf(m) \subseteq RulesOf(m)'
    PROVE  /\ \A m \in Metric : aliases'[m] \subseteq RulesOf(m)'
           /\ Range(catalog'[c].metrics) \subseteq Defined
           /\ pc'[c] \in {"confirm", "learn"} =>
                /\ <<confirming'[c].column, confirming'[c].metric>> \in accepted'
                /\ confirming'[c].read \subseteq RulesOf(confirming[c].metric)'
<1> USE DEF TypeOK, GraphTypeOK, PacksTypeOK, FunnelTypeOK, PipelineTypeOK, At, Goto
<1> DEFINE Goal == /\ \A m \in Metric : aliases'[m] \subseteq RulesOf(m)'
                   /\ Range(catalog'[c].metrics) \subseteq Defined
                   /\ pc'[c] \in {"confirm", "learn"} =>
                        /\ <<confirming'[c].column, confirming'[c].metric>> \in accepted'
                        /\ confirming'[c].read \subseteq RulesOf(confirming[c].metric)'
<1>1. ASSUME aliases' = aliases, catalog'[c] = catalog[c], pc'[c] \notin {"confirm", "learn"}
      PROVE  Goal
  BY <1>1 DEF RulesKnown
<1>2. CASE LoadPack(c)
  <2>1. PICK p \in Pack : BeginLoadPack(c, p) /\ Valid(p)
    BY <1>2 DEF LoadPack, BeginLoadPack
  <2>2. aliases' = aliases /\ catalog'[c].metrics = PackDef[p].metrics /\ pc'[c] = "pack"
    BY <2>1 DEF BeginLoadPack, graphVars
  <2>3. Range(catalog'[c].metrics) \subseteq Defined
    BY <2>1, <2>2 DEF Defined
  <2>4. QED BY <2>2, <2>3 DEF RulesKnown
<1>3. CASE Answer(c)
  <2>1. CASE \E m \in Metric : DefineMetric(c, m)
    BY <1>1, <2>1 DEF DefineMetric, packVars
  <2>2. ASSUME NEW x \in Column, NEW m \in Metric, ConfirmLink(c, x, m) PROVE Goal
    <3>1. aliases' = aliases /\ catalog' = catalog
      BY <2>2 DEF ConfirmLink
    <3>2. confirming'[c] = [column |-> x, metric |-> m, read |-> {}] /\ <<x, m>> \in accepted'
      BY <2>2 DEF ConfirmLink
    <3>3. QED BY <3>1, <3>2 DEF RulesKnown
  <2>3. Awaiting(c) \subseteq Column /\ Catalog \subseteq Metric
    <3>1. Range(queue[c]) \subseteq Outcome
      <4>1. \A S : \A s \in Seq(S) : \A i \in DOMAIN s : s[i] \in S
        OBVIOUS
      <4>2. QED BY <4>1 DEF Range
    <3>2. QED BY <3>1 DEF Awaiting, Outcome, Catalog
  <2>4. QED BY <1>3, <2>1, <2>2, <2>3 DEF Answer
<1>4. CASE Ingest(c) \/ FinishRun(c) \/ Fetch(c) \/ MarkDone(c)
  BY <1>1, <1>4 DEF Ingest, StartRun, FinishRun, Fetch, MarkDone, graphVars
<1>5. CASE UpsertMetric(c)
  <2>1. catalog[c].metrics \in Seq(MetricDef) /\ catalog[c].metrics # <<>>
    BY <1>5 DEF UpsertMetric
  <2>2. PICK def : def = Head(catalog[c].metrics)
    OBVIOUS
  <2>3. /\ def \in MetricDef /\ def \in Defined
        /\ Range(Tail(catalog[c].metrics)) \subseteq Defined
    BY <2>1, <2>2, TailRange DEF RulesKnown
  <2>4. aliases' = [aliases EXCEPT ![def.metric] = SeededAliases(def)] /\ pc'[c] = "pack"
    BY <1>5, <2>2 DEF UpsertMetric, PutAliases
  <2>5. SeededAliases(def) \subseteq RulesOf(def.metric)'
    <3>1. def.metric \in Metric
      BY <2>3 DEF MetricDef
    <3>2. def.aliases \subseteq RulesOf(def.metric)
      BY <2>3, DefinitionsAreRules
    <3>3. aliases[def.metric] \subseteq RulesOf(def.metric)
      BY <3>1 DEF RulesKnown
    <3>4. SeededAliases(def) \subseteq RulesOf(def.metric)
      BY <3>2, <3>3 DEF SeededAliases
    <3>5. QED BY <3>4
  <2>6. \A m \in Metric : aliases'[m] \subseteq RulesOf(m)'
    BY <2>3, <2>4, <2>5 DEF RulesKnown, MetricDef
  <2>7. catalog'[c].metrics = Tail(catalog[c].metrics)
    BY <1>5 DEF UpsertMetric
  <2>8. QED BY <2>3, <2>4, <2>6, <2>7
<1>6. CASE UpsertBenchmark(c)
  <2>1. aliases' = aliases /\ catalog'[c].metrics = catalog[c].metrics /\ pc'[c] = "pack"
    BY <1>6 DEF UpsertBenchmark
  <2>2. QED BY <2>1 DEF RulesKnown
<1>7. CASE EndLoadPack(c)
  BY <1>1, <1>7 DEF EndLoadPack, graphVars
<1>8. CASE ReadAliases(c)
  <2>1. /\ aliases' = aliases /\ catalog' = catalog /\ accepted' = accepted
        /\ pc[c] = "confirm" /\ confirming[c] \in Confirmation
    BY <1>8 DEF ReadAliases, graphVars
  <2>2. confirming'[c] = [confirming[c] EXCEPT !.read = aliases[confirming[c].metric]]
    BY <1>8 DEF ReadAliases
  <2>3. /\ confirming'[c].column = confirming[c].column
        /\ confirming'[c].metric = confirming[c].metric
        /\ confirming'[c].read = aliases[confirming[c].metric]
        /\ confirming[c].metric \in Metric
    BY <2>1, <2>2 DEF Confirmation
  <2>4. QED BY <2>1, <2>3 DEF RulesKnown
<1>9. CASE WriteAliases(c)
  <2> DEFINE conf == confirming[c]
  <2>1. /\ pc[c] = "learn" /\ conf \in Confirmation
        /\ pc'[c] = "idle" /\ catalog' = catalog /\ accepted' = accepted
        /\ aliases' = [aliases EXCEPT ![conf.metric] = conf.read \cup {NameOf[conf.column]}]
        /\ <<conf.column, conf.metric>> \in learned'
    BY <1>9 DEF WriteAliases, PutAliases
  <2>2. PICK m \in Metric, x \in Column : m = conf.metric /\ x = conf.column
    BY <2>1 DEF Confirmation
  <2>3. NameOf[x] \in RulesOf(m)'
    BY <2>1, <2>2 DEF RulesOf
  <2>4. conf.read \subseteq RulesOf(m)
    BY <2>1, <2>2 DEF RulesKnown
  <2>5. \A n \in Metric : aliases'[n] \subseteq RulesOf(n)'
    BY <2>1, <2>2, <2>3, <2>4 DEF RulesKnown
  <2>6. QED BY <2>1, <2>5 DEF RulesKnown
<1>10. CASE RejectRelation(c) \/ Fail(c) \/ Crash(c)
  <2>1. aliases' = aliases /\ catalog'[c] = NothingLeft /\ pc'[c] = "idle"
    BY <1>10 DEF RejectRelation, Fail, Crash, AbandonCall, graphVars
  <2>2. QED BY <2>1, EmptyRange DEF RulesKnown, NothingLeft
<1>11. CASE UpsertDocument(c) \/ WriteLink(c) \/ UpsertColumn(c) \/ UpsertEntity(c) \/ Relate(c)
              \/ LookUpAlias(c) \/ Suggest(c) \/ Skip(c)
  <2>1. pc[c] \in {"load", "run"} /\ aliases' = aliases /\ UNCHANGED packVars
    BY <1>11 DEF UpsertDocument, WriteLink, UpsertColumn, UpsertEntity, Relate, LookUpAlias,
                 Suggest, Skip, Resolving, RelationsWritten, EntitiesWritten, DocumentsWritten,
                 graphVars
  <2>2. QED BY <1>1, <2>1 DEF packVars
<1>12. CASE Work(c)
  <2>1. CASE LoadPackStep(c)
    BY <1>5, <1>6, <1>7, <2>1 DEF LoadPackStep
  <2>2. CASE ConfirmStep(c)
    BY <1>8, <1>9, <2>2 DEF ConfirmStep
  <2>3. CASE RunStep(c)
    BY <1>4, <1>10, <1>11, <2>3 DEF RunStep, LoadStep
  <2>4. QED BY <1>12, <2>1, <2>2, <2>3 DEF Work
<1>13. QED BY <1>2, <1>3, <1>4, <1>10, <1>12 DEF Step, Request

\* A step of one process leaves the other calls of another alone.
LEMMA OthersCalls ==
    ASSUME TypeOK, NEW c \in Client, Step(c), NEW d \in Client, d # c
    PROVE  catalog'[d] = catalog[d] /\ confirming'[d] = confirming[d]
<1> USE DEF TypeOK, PacksTypeOK, FunnelTypeOK
<1>1. CASE Request(c)
  BY <1>1 DEF Request, LoadPack, BeginLoadPack, Answer, ConfirmLink, DefineMetric, Ingest,
              StartRun, packVars, funnelVars
<1>2. CASE LoadPackStep(c) /\ UNCHANGED <<funnelVars, pipelineVars, failures>>
  BY <1>2 DEF LoadPackStep, UpsertMetric, UpsertBenchmark, EndLoadPack, funnelVars
<1>3. CASE ConfirmStep(c)
  BY <1>3 DEF ConfirmStep, ReadAliases, WriteAliases
<1>4. CASE Fail(c) \/ Crash(c) \/ RejectRelation(c)
  BY <1>4 DEF Fail, Crash, RejectRelation, AbandonCall
<1>5. CASE UpsertDocument(c) \/ WriteLink(c) \/ UpsertColumn(c) \/ UpsertEntity(c) \/ Relate(c)
  BY <1>5, WritesResolveNothing DEF packVars, funnelVars
<1>6. CASE LookUpAlias(c) \/ Suggest(c)
  BY <1>6 DEF LookUpAlias, Suggest, packVars, funnelVars
<1>7. CASE MarkDone(c) \/ Skip(c) \/ Fetch(c) \/ FinishRun(c)
  BY <1>7 DEF MarkDone, Skip, Fetch, FinishRun, packVars, funnelVars
<1>8. CASE Work(c)
  BY <1>2, <1>3, <1>4, <1>5, <1>6, <1>7, <1>8 DEF Work, RunStep, LoadStep
<1>9. QED BY <1>1, <1>4, <1>8 DEF Step

\* Every alias stays a rule.
LEMMA RulesKnownNext == TypeOK /\ TypeOK' /\ RulesKnown /\ [Next]_vars => RulesKnown'
<1> SUFFICES ASSUME TypeOK, TypeOK', RulesKnown, [Next]_vars PROVE RulesKnown'
  OBVIOUS
<1>1. accepted \subseteq accepted' /\ \A m : RulesOf(m) \subseteq RulesOf(m)'
  BY RulesGrow
<1>2. CASE UNCHANGED vars
  BY <1>2 DEF vars, graphVars, packVars, funnelVars, RulesKnown, RulesOf, SeedsOf
<1>3. ASSUME NEW c \in Client, Step(c) PROVE RulesKnown'
  <2>1. /\ \A m \in Metric : aliases'[m] \subseteq RulesOf(m)'
        /\ Range(catalog'[c].metrics) \subseteq Defined
        /\ pc'[c] \in {"confirm", "learn"} =>
             /\ <<confirming'[c].column, confirming'[c].metric>> \in accepted'
             /\ confirming'[c].read \subseteq RulesOf(confirming[c].metric)'
    BY <1>1, <1>3, OwnRules
  <2>2. ASSUME NEW d \in Client, d # c
        PROVE  /\ Range(catalog'[d].metrics) \subseteq Defined
               /\ pc'[d] \in {"confirm", "learn"} =>
                    /\ <<confirming'[d].column, confirming'[d].metric>> \in accepted'
                    /\ confirming'[d].read \subseteq RulesOf(confirming[d].metric)'
    <3>1. catalog'[d] = catalog[d] /\ confirming'[d] = confirming[d] /\ pc'[d] = pc[d]
      BY <1>3, <2>2, OthersCalls, OthersUnmoved
    <3>2. QED BY <1>1, <3>1 DEF RulesKnown
  <2>3. QED BY <2>1, <2>2 DEF RulesKnown
<1>4. QED BY <1>2, <1>3 DEF Next, Step

(***************************************************************************)
(* Owners.                                                                 *)
(***************************************************************************)
\* e owns x after the first k entities of b: it is the last of them listing x.
OwnerAfter(b, k, x, e) ==
    \/ e = NoEntity /\ \A j \in 1..k : ~Owns(b.entities[j], x)
    \/ \E j \in 1..k : /\ e = b.entities[j].uid
                       /\ Owns(b.entities[j], x)
                       /\ \A i \in (j + 1)..k : ~Owns(b.entities[i], x)

Passed(l, b) == Len(b.entities) - Len(l.entities)

\* A load has passed the first entities of its bundle, knows their columns'
\* owners, and has only the bundle's columns to resolve.
Tracks(l, b) ==
    /\ Passed(l, b) \in Nat
    /\ \A j \in 1..Len(l.entities) : l.entities[j] = b.entities[Passed(l, b) + j]
    /\ \A x \in Column : OwnerAfter(b, Passed(l, b), x, l.owner[x])
    /\ \A o \in Range(l.observed) :
         o \in Range(b.columns) \/ \E e \in Range(b.entities) : o \in Range(e.columns)

LoadTracks == \A c \in Client : pc[c] = "load" => Tracks(load[c], Bundle[Current(c)])

\* A load that begins has passed no entity.
LEMMA NewLoadTracks == ASSUME NEW b \in ParsedBundle PROVE Tracks(NewLoad(b), b)
<1>1. b.entities \in Seq(ObservedEntity)
  BY DEF ParsedBundle
<1>2. Passed(NewLoad(b), b) = 0
  BY <1>1 DEF Passed, NewLoad
<1>3. /\ NewLoad(b).entities = b.entities
      /\ NewLoad(b).observed = b.columns
      /\ \A x \in Column : NewLoad(b).owner[x] = NoEntity
  BY DEF NewLoad
<1>4. \A x \in Column : OwnerAfter(b, 0, x, NoEntity)
  BY DEF OwnerAfter
<1>5. \A j \in 1..Len(b.entities) : b.entities[j] = b.entities[0 + j]
  BY <1>1
<1>6. QED BY <1>2, <1>3, <1>4, <1>5 DEF Tracks

\* It keeps track of its owners when it passes the next one.
LEMMA EntityTracks ==
    ASSUME NEW b \in ParsedBundle, NEW l \in Pending, Tracks(l, b), l.entities # <<>>
    PROVE  LET ent == Head(l.entities)
               m == [l EXCEPT !.entities = Tail(@), !.columns = ent.columns,
                              !.observed = @ \o ent.columns,
                              !.owner = [x \in Column |-> IF Owns(ent, x) THEN ent.uid ELSE @[x]]]
           IN  Tracks(m, b)
<1> DEFINE ent == Head(l.entities)
           m == [l EXCEPT !.entities = Tail(@), !.columns = ent.columns,
                          !.observed = @ \o ent.columns,
                          !.owner = [x \in Column |-> IF Owns(ent, x) THEN ent.uid ELSE @[x]]]
           k == Passed(l, b)
<1>1. /\ b.entities \in Seq(ObservedEntity)
      /\ l.entities \in Seq(ObservedEntity)
      /\ l.observed \in Seq(Observation)
      /\ ent \in ObservedEntity
  BY TailRange DEF ParsedBundle, Pending
<1>2. ent.columns \in Seq(Observation)
  BY <1>1 DEF ObservedEntity
<1>3. /\ m.entities = Tail(l.entities)
      /\ m.observed = l.observed \o ent.columns
      /\ \A x \in Column : m.owner[x] = IF Owns(ent, x) THEN ent.uid ELSE l.owner[x]
  BY DEF Pending
<1>4. /\ Len(l.entities) \in Nat /\ Len(l.entities) > 0
      /\ Len(Tail(l.entities)) = Len(l.entities) - 1
      /\ \A j \in 1..(Len(l.entities) - 1) : Tail(l.entities)[j] = l.entities[j + 1]
      /\ ent = l.entities[1]
      /\ Len(b.entities) \in Nat /\ DOMAIN b.entities = 1..Len(b.entities)
  BY <1>1
<1> HIDE DEF m, ent
<1>5. Passed(m, b) = k + 1 /\ k \in Nat
  <2>1. Len(m.entities) = Len(l.entities) - 1
    BY <1>3, <1>4
  <2>2. k = Len(b.entities) - Len(l.entities) /\ k \in Nat
    BY DEF Passed, Tracks
  <2>3. QED BY <1>4, <2>1, <2>2 DEF Passed
<1>6. ent = b.entities[k + 1] /\ k + 1 \in 1..Len(b.entities)
  <2>1. 1 \in 1..Len(l.entities)
    BY <1>4
  <2>2. l.entities[1] = b.entities[k + 1]
    BY <2>1 DEF Tracks
  <2>3. k = Len(b.entities) - Len(l.entities)
    BY DEF Passed
  <2>4. \A n, i, j \in Nat : n = i - j /\ j > 0 => n + 1 \in 1..i
    OBVIOUS
  <2>5. k + 1 \in 1..Len(b.entities)
    BY <1>4, <1>5, <2>3, <2>4
  <2>6. QED BY <1>4, <2>2, <2>5
<1>7. ASSUME NEW j \in 1..Len(m.entities) PROVE m.entities[j] = b.entities[Passed(m, b) + j]
  <2>1. j \in 1..(Len(l.entities) - 1) /\ j + 1 \in 1..Len(l.entities)
    BY <1>3, <1>4
  <2>2. m.entities[j] = l.entities[j + 1]
    BY <1>3, <1>4, <2>1
  <2>3. l.entities[j + 1] = b.entities[k + (j + 1)]
    BY <2>1 DEF Tracks
  <2>4. k + (j + 1) = Passed(m, b) + j
    BY <1>5
  <2>5. QED BY <2>2, <2>3, <2>4
<1>8. ASSUME NEW x \in Column PROVE OwnerAfter(b, k + 1, x, m.owner[x])
  <2>1. CASE Owns(ent, x)
    <3>1. m.owner[x] = b.entities[k + 1].uid /\ Owns(b.entities[k + 1], x)
      BY <1>3, <1>6, <2>1
    <3>2. k + 1 \in 1..(k + 1) /\ ((k + 1) + 1)..(k + 1) = {}
      BY <1>5
    <3>3. QED BY <3>1, <3>2 DEF OwnerAfter
  <2>2. CASE ~Owns(ent, x)
    <3>1. m.owner[x] = l.owner[x] /\ ~Owns(b.entities[k + 1], x)
      BY <1>3, <1>6, <2>2
    <3>2. OwnerAfter(b, k, x, l.owner[x])
      BY DEF Tracks
    <3>3. CASE l.owner[x] = NoEntity /\ \A j \in 1..k : ~Owns(b.entities[j], x)
      BY <1>5, <3>1, <3>3 DEF OwnerAfter
    <3>4. CASE \E j \in 1..k : /\ l.owner[x] = b.entities[j].uid
                               /\ Owns(b.entities[j], x)
                               /\ \A i \in (j + 1)..k : ~Owns(b.entities[i], x)
      <4>1. PICK j \in 1..k : /\ l.owner[x] = b.entities[j].uid
                              /\ Owns(b.entities[j], x)
                              /\ \A i \in (j + 1)..k : ~Owns(b.entities[i], x)
        BY <3>4
      <4>2. j \in 1..(k + 1) /\ \A i \in (j + 1)..(k + 1) : i \in (j + 1)..k \/ i = k + 1
        BY <1>5
      <4>3. QED BY <3>1, <4>1, <4>2 DEF OwnerAfter
    <3>5. QED BY <3>2, <3>3, <3>4 DEF OwnerAfter
  <2>3. QED BY <2>1, <2>2
<1>9. ASSUME NEW o \in Range(m.observed)
      PROVE  o \in Range(b.columns) \/ \E e \in Range(b.entities) : o \in Range(e.columns)
  <2>1. ent \in Range(b.entities)
    BY <1>4, <1>6 DEF Range
  <2>2. o \in Range(l.observed) \/ o \in Range(ent.columns)
    BY <1>1, <1>2, <1>3, ConcatRange
  <2>3. QED BY <2>1, <2>2 DEF Tracks
<1>10. Tracks(m, b)
  BY <1>5, <1>7, <1>8, <1>9 DEF Tracks
<1>11. QED BY <1>10 DEF m, ent

\* The other steps of a load leave its owners alone.
LEMMA SameOwnersTrack ==
    ASSUME NEW b, NEW l, NEW m, Tracks(l, b),
           m.entities = l.entities, m.owner = l.owner, Range(m.observed) \subseteq Range(l.observed)
    PROVE  Tracks(m, b)
BY DEF Tracks, Passed

\* A process is loading after a step of its own only if the step was one of the
\* load's, or began it.
LEMMA LoadBegins ==
    ASSUME TypeOK, NEW c \in Client, Step(c), pc'[c] = "load"
    PROVE  \/ UpsertDocument(c) \/ WriteLink(c) \/ UpsertColumn(c) \/ UpsertEntity(c)
           \/ Relate(c) \/ LookUpAlias(c) \/ Suggest(c)
           \/ Fetch(c)
<1> USE DEF TypeOK, PacksTypeOK, At, Goto
<1>1. CASE Request(c)
  BY <1>1 DEF Request, LoadPack, BeginLoadPack, Answer, ConfirmLink, DefineMetric, Ingest,
              StartRun, packVars
<1>2. CASE LoadPackStep(c) \/ ConfirmStep(c)
  BY <1>2 DEF LoadPackStep, UpsertMetric, UpsertBenchmark, EndLoadPack, ConfirmStep,
              ReadAliases, WriteAliases
<1>3. CASE RejectRelation(c) \/ Fail(c) \/ Crash(c)
  BY <1>3 DEF RejectRelation, Fail, Crash, AbandonCall
<1>4. CASE MarkDone(c) \/ Skip(c) \/ FinishRun(c)
  BY <1>4 DEF MarkDone, Skip, FinishRun, packVars
<1>5. QED BY <1>1, <1>2, <1>3, <1>4 DEF Step, Work, RunStep, LoadStep

\* A step of c that leaves c loading leaves its owners known.
LEMMA OwnTracks ==
    ASSUME TypeOK, LoadTracks, NEW c \in Client, Step(c), pc'[c] = "load"
    PROVE  Tracks(load[c], Bundle[Current(c)])'
<1> USE DEF TypeOK, PipelineTypeOK
<1>1. CASE UpsertDocument(c) \/ WriteLink(c) \/ UpsertColumn(c) \/ UpsertEntity(c)
             \/ Relate(c) \/ LookUpAlias(c) \/ Suggest(c)
  <2>1. pc[c] = "load" /\ rest' = rest
    BY <1>1 DEF UpsertDocument, WriteLink, UpsertColumn, UpsertEntity, Relate, LookUpAlias,
                Suggest, Resolving, RelationsWritten, EntitiesWritten, DocumentsWritten, At
  <2>2. Current(c) \in Item
    BY <2>1, TailRange DEF Current
  <2>3. PICK b \in ParsedBundle : b = Bundle[Current(c)]
    BY <2>2, PipelineAssumption
  <2>4. PICK l \in Pending : l = load[c]
    OBVIOUS
  <2>5. Tracks(l, b)
    BY <2>1, <2>3, <2>4 DEF LoadTracks
  <2>6. Tracks(load'[c], b)
    <3>1. CASE UpsertDocument(c)
      <4>1. /\ load'[c].entities = l.entities /\ load'[c].owner = l.owner
            /\ load'[c].observed = l.observed
        BY <2>4, <3>1 DEF UpsertDocument, SetLoad, Pending
      <4>2. QED BY <2>5, <4>1, SameOwnersTrack
    <3>2. CASE WriteLink(c) \/ UpsertColumn(c) \/ Relate(c)
      <4>1. /\ load'[c].entities = l.entities /\ load'[c].owner = l.owner
            /\ load'[c].observed = l.observed
        BY <2>4, <3>2 DEF WriteLink, UpsertColumn, Relate, SetLoad, Pending
      <4>2. QED BY <2>5, <4>1, SameOwnersTrack
    <3>3. CASE UpsertEntity(c)
      <4>1. l.entities # <<>>
        BY <2>4, <3>3 DEF UpsertEntity
      <4>2. load'[c] = LET ent == Head(l.entities)
                       IN  [l EXCEPT !.entities = Tail(@), !.columns = ent.columns,
                              !.observed = @ \o ent.columns,
                              !.owner = [x \in Column |-> IF Owns(ent, x) THEN ent.uid ELSE @[x]]]
        BY <2>4, <3>3 DEF UpsertEntity, SetLoad
      <4>3. QED BY <2>5, <4>1, <4>2, EntityTracks
    <3>4. ASSUME NEW tier, NEW m, NEW links, Resolved(c, tier, m, links), Resolving(c)
          PROVE  Tracks(load'[c], b)
      <4>1. /\ load'[c].entities = l.entities /\ load'[c].owner = l.owner
            /\ load'[c].observed = Tail(l.observed)
        BY <2>4, <3>4 DEF Resolved, SetLoad, Pending
      <4>2. Range(Tail(l.observed)) \subseteq Range(l.observed)
        <5>1. l.observed \in Seq(Observation) /\ l.observed # <<>>
          BY <2>4, <3>4 DEF Resolving, Pending
        <5>2. QED BY <5>1, TailRange
      <4>3. QED BY <2>5, <4>1, <4>2, SameOwnersTrack
    <3>5. ASSUME SetLoad(c, [load[c] EXCEPT !.missed = TRUE]) PROVE Tracks(load'[c], b)
      <4>1. /\ load'[c].entities = l.entities /\ load'[c].owner = l.owner
            /\ load'[c].observed = l.observed
        BY <2>4, <3>5 DEF SetLoad, Pending
      <4>2. QED BY <2>5, <4>1, SameOwnersTrack
    <3>6. CASE LookUpAlias(c)
      BY <3>4, <3>5, <3>6 DEF LookUpAlias
    <3>7. CASE Suggest(c)
      BY <3>4, <3>7 DEF Suggest
    <3>8. QED BY <1>1, <3>1, <3>2, <3>3, <3>6, <3>7
  <2>7. b = Bundle[Current(c)']
    BY <2>1, <2>3 DEF Current
  <2>8. QED BY <2>6, <2>7
<1>2. CASE Fetch(c)
  <2>1. Current(c) \in Item /\ rest' = rest
    BY <1>2, TailRange DEF Fetch, Current
  <2>2. PICK b \in ParsedBundle : b = Bundle[Current(c)]
    BY <2>1, PipelineAssumption
  <2>3. load'[c] = NewLoad(b)
    BY <1>2, <2>2 DEF Fetch, SetLoad
  <2>4. b = Bundle[Current(c)']
    BY <2>1, <2>2 DEF Current
  <2>5. QED BY <2>3, <2>4, NewLoadTracks
<1>3. QED BY <1>1, <1>2, LoadBegins

\* No step of any process makes a load lose track.
LEMMA LoadTracksNext == TypeOK /\ LoadTracks /\ [Next]_vars => LoadTracks'
<1> SUFFICES ASSUME TypeOK, LoadTracks, [Next]_vars PROVE LoadTracks'
  OBVIOUS
<1>1. CASE UNCHANGED vars
  BY <1>1 DEF vars, packVars, pipelineVars, LoadTracks, Current
<1>2. ASSUME NEW c \in Client, Step(c), NEW d \in Client, pc'[d] = "load"
      PROVE  Tracks(load[d], Bundle[Current(d)])'
  <2>1. CASE d = c
    BY <1>2, <2>1, OwnTracks
  <2>2. CASE d # c
    BY <1>2, <2>2, OthersUnmoved DEF LoadTracks, Current
  <2>3. QED BY <2>1, <2>2
<1>3. QED BY <1>1, <1>2 DEF Next, Step, LoadTracks

\* What the resolving loop knows of the column it is at: the column is in the
\* graph, and so is its owner, which is the one the bundle gives it.
LEMMA ResolvedColumn ==
    ASSUME Inv, LoadTracks, NEW c \in Client, Resolving(c)
    PROVE  LET x == Head(load[c].observed).column
               b == Bundle[Current(c)]
           IN  /\ x \in Column /\ Current(c) \in Item
               /\ ColumnNode(x) \in nodes
               /\ OwnersOf(b, x) = {load[c].owner[x]} \ {NoEntity}
               /\ \A e \in OwnersOf(b, x) : EntityNode(e) \in nodes
<1> USE DEF Inv, TypeOK, PipelineTypeOK
<1> DEFINE o == Head(load[c].observed)
           x == o.column
           b == Bundle[Current(c)]
           n == Len(b.entities)
<1>1. /\ pc[c] = "load" /\ rest[c] # <<>> /\ load[c].observed # <<>>
      /\ load[c].columns = <<>> /\ load[c].entities = <<>>
  BY DEF Resolving, RelationsWritten, EntitiesWritten, DocumentsWritten, At
<1>2. Current(c) \in Item
  BY <1>1, TailRange DEF Current
<1>3. b \in ParsedBundle /\ b.entities \in Seq(ObservedEntity)
  BY <1>2, PipelineAssumption DEF ParsedBundle
<1>4. o \in Observation /\ o \in Range(load[c].observed)
  BY <1>1, TailRange DEF Pending
<1>5. x \in Column
  BY <1>4 DEF Observation
<1>6. Keeps(c, b) /\ Tracks(load[c], b)
  BY <1>1 DEF LoadKeepsAll, LoadTracks
<1>7. ColumnNode(x) \in nodes
  BY <1>1, <1>4, <1>6, EmptyRange DEF Tracks, Keeps, ColumnsReach, EntitiesReach
<1>8. \A e \in Range(b.entities) : EntityNode(e.uid) \in nodes
  BY <1>1, <1>6, EntitiesPresent
<1>9. OwnerAfter(b, n, x, load[c].owner[x])
  <2>1. Passed(load[c], b) = n
    BY <1>1, <1>3 DEF Passed
  <2>2. QED BY <1>5, <1>6, <2>1 DEF Tracks
<1>10. DOMAIN b.entities = 1..n /\ n \in Nat /\ \A j \in 1..n : b.entities[j].uid \in Entity
  <2>1. DOMAIN b.entities = 1..n /\ n \in Nat /\ \A j \in 1..n : b.entities[j] \in ObservedEntity
    BY <1>3
  <2>2. QED BY <2>1 DEF ObservedEntity
<1> HIDE DEF n, b, x, o
<1>11. OwnersOf(b, x) = {load[c].owner[x]} \ {NoEntity}
  <2>1. CASE load[c].owner[x] = NoEntity /\ \A j \in 1..n : ~Owns(b.entities[j], x)
    BY <1>10, <2>1 DEF OwnersOf
  <2>2. CASE \E j \in 1..n : /\ load[c].owner[x] = b.entities[j].uid
                             /\ Owns(b.entities[j], x)
                             /\ \A i \in (j + 1)..n : ~Owns(b.entities[i], x)
    <3>1. PICK j \in 1..n : /\ load[c].owner[x] = b.entities[j].uid
                            /\ Owns(b.entities[j], x)
                            /\ \A i \in (j + 1)..n : ~Owns(b.entities[i], x)
      BY <2>2
    <3>2. load[c].owner[x] # NoEntity
      BY <1>10, <3>1, PipelineAssumption
    <3>3. \A i \in 1..n : i > j => ~Owns(b.entities[i], x)
      BY <1>10, <3>1
    <3>4. \A i \in 1..n : Owns(b.entities[i], x) /\ (\A k \in 1..n : k > i => ~Owns(b.entities[k], x))
                            => i = j
      BY <1>10, <3>1, <3>3
    <3>5. OwnersOf(b, x) = {b.entities[j].uid}
      BY <1>10, <3>1, <3>3, <3>4 DEF OwnersOf
    <3>6. QED BY <3>1, <3>2, <3>5
  <2>3. QED BY <1>9, <2>1, <2>2 DEF OwnerAfter
<1>12. \A e \in OwnersOf(b, x) : EntityNode(e) \in nodes
  BY <1>8 DEF OwnersOf, Range
<1>13. QED BY <1>2, <1>5, <1>7, <1>11, <1>12 DEF x, o, b

(***************************************************************************)
(* Why a link is written.                                                  *)
(***************************************************************************)
Justified(x, m) == <<x, m>> \in accepted \/ NameOf[x] \in RulesOf(m)

\* Some column of e measures m, or is about to, the link being the first of s.
Through(m, e, s) ==
    \E i \in Item, x \in Column :
        /\ e \in OwnersOf(Bundle[i], x)
        /\ {ColumnNode(x), MetricNode(m)} \subseteq nodes
        /\ Measures(x, m) \in edges \/ (s # <<>> /\ s[1] = Measures(x, m))

\* The j-th of the links s that wait is justified, counting on those before it.
LinkSound(s, j) ==
    /\ \A x \in Column, m \in Metric :
         s[j] = Measures(x, m) =>
            Justified(x, m) /\ {ColumnNode(x), MetricNode(m)} \subseteq nodes
    /\ \A m \in Metric, e \in Entity :
         s[j] = AppliesTo(m, e) => Through(m, e, IF j = 2 THEN s ELSE <<>>)

LinksSound(s) == \A j \in 1..Len(s) : LinkSound(s, j)
LinksWait == \A c \in Client : LinksSound(load[c].links)

EdgesSound ==
    /\ \A x \in Column, m \in Metric : Measures(x, m) \in edges => Justified(x, m)
    /\ \A m \in Metric, e \in Entity : AppliesTo(m, e) \in edges => Through(m, e, <<>>)

\* Links of different kinds, or between different nodes, differ.
LEMMA LinksDiffer ==
    /\ \A x, y, m, n : Measures(x, m) = Measures(y, n) => x = y /\ m = n
    /\ \A m, n, e, f : AppliesTo(m, e) = AppliesTo(n, f) => m = n /\ e = f
    /\ \A x, m, n, e : Measures(x, m) # AppliesTo(n, e)
    /\ \A d, e, x, m : Describes(d, e) # Measures(x, m) /\ DefinedIn(e, d) # Measures(x, m)
    /\ \A d, e, m, f : Describes(d, e) # AppliesTo(m, f) /\ DefinedIn(e, d) # AppliesTo(m, f)
    /\ \A r, x, m : Relates(r) # Measures(x, m)
    /\ \A r, m, e : Relates(r) # AppliesTo(m, e)
BY DEF Measures, AppliesTo, Describes, DefinedIn, Relates, SpineEdge, ColumnNode, MetricNode,
       EntityNode, DocumentNode

\* What waits stays justified while the graph and the rules grow.
LEMMA SoundFrame ==
    ASSUME nodes \subseteq nodes', edges \subseteq edges', accepted \subseteq accepted',
           \A m : RulesOf(m) \subseteq RulesOf(m)'
    PROVE  /\ \A x, m : Justified(x, m) => Justified(x, m)'
           /\ \A m, e, s : Through(m, e, s) => Through(m, e, s)'
           /\ \A s : LinksSound(s) => LinksSound(s)'
<1>1. ASSUME NEW x, NEW m, Justified(x, m) PROVE Justified(x, m)'
  BY <1>1 DEF Justified
<1>2. ASSUME NEW m, NEW e, NEW s, Through(m, e, s) PROVE Through(m, e, s)'
  BY <1>2 DEF Through
<1>3. ASSUME NEW s, NEW j, LinkSound(s, j) PROVE LinkSound(s, j)'
  BY <1>1, <1>2, <1>3 DEF LinkSound
<1>4. ASSUME NEW s, LinksSound(s) PROVE LinksSound(s)'
  BY <1>3, <1>4 DEF LinksSound
<1>5. QED BY <1>1, <1>2, <1>4

\* A link that is written makes those behind it count on the graph alone.
LEMMA WrittenSound ==
    ASSUME NEW s \in Seq(EdgeId), s # <<>>, LinksSound(s), UpsertEdge(Head(s)),
           nodes' = nodes, UNCHANGED <<accepted, learned>>
    PROVE  LinksSound(Tail(s))'
<1>1. /\ Len(s) \in Nat /\ Len(s) > 0 /\ Len(Tail(s)) = Len(s) - 1
      /\ \A j \in 1..(Len(s) - 1) : Tail(s)[j] = s[j + 1]
      /\ Head(s) = s[1]
  OBVIOUS
<1>2. PICK t : t = Tail(s)
  OBVIOUS
<1>3. edges \subseteq edges' /\ \A m : RulesOf(m)' = RulesOf(m)
  BY DEF UpsertEdge, RulesOf, SeedsOf
<1>4. ASSUME NEW j \in 1..Len(t) PROVE LinkSound(t, j)'
  <2>1. LinkSound(s, j + 1) /\ t[j] = s[j + 1] /\ j # 0 /\ LinkSound(s, 1)
    BY <1>1, <1>2 DEF LinksSound
  <2>2. ASSUME NEW x \in Column, NEW m \in Metric, t[j] = Measures(x, m)
        PROVE  Justified(x, m)' /\ {ColumnNode(x), MetricNode(m)} \subseteq nodes'
    BY <1>3, <2>1, <2>2 DEF LinkSound, Justified
  <2>3. ASSUME NEW m \in Metric, NEW e \in Entity, t[j] = AppliesTo(m, e)
        PROVE  Through(m, e, <<>>)'
    <3>1. Through(m, e, IF j + 1 = 2 THEN s ELSE <<>>)
      BY <2>1, <2>3 DEF LinkSound
    <3>2. PICK i \in Item, x \in Column :
             /\ e \in OwnersOf(Bundle[i], x)
             /\ {ColumnNode(x), MetricNode(m)} \subseteq nodes
             /\ Measures(x, m) \in edges \/ s[1] = Measures(x, m)
      BY <3>1 DEF Through
    <3>3. Measures(x, m) \in edges'
      <4>1. CASE Measures(x, m) \in edges
        BY <1>3, <4>1
      <4>2. CASE s[1] = Measures(x, m)
        BY <1>1, <3>2, <4>2 DEF UpsertEdge, Stored, Measures, SpineEdge
      <4>3. QED BY <3>2, <4>1, <4>2
    <3>4. QED BY <3>2, <3>3 DEF Through
  <2>4. \A m \in Metric, e \in Entity : t[j] = AppliesTo(m, e) =>
             Through(m, e, IF j = 2 THEN t ELSE <<>>)'
    BY <2>3 DEF Through
  <2>5. QED BY <2>2, <2>4 DEF LinkSound
<1>5. LinksSound(t)'
  BY <1>4 DEF LinksSound
<1>6. QED BY <1>2, <1>5

\* The links of an auto-linked column, the one that measures it first.
LEMMA MetricLinksSound ==
    ASSUME Inv, RulesKnown, LoadTracks, NEW c \in Client, Resolving(c), NEW m \in Metric,
           Hit(NameOf[Head(load[c].observed).column], m)
    PROVE  LinksSound(MetricLinks(c, Head(load[c].observed).column, m))
<1> DEFINE x == Head(load[c].observed).column
           b == Bundle[Current(c)]
           s == MetricLinks(c, x, m)
<1>1. /\ x \in Column /\ Current(c) \in Item /\ ColumnNode(x) \in nodes
      /\ OwnersOf(b, x) = {load[c].owner[x]} \ {NoEntity}
  BY ResolvedColumn
<1>2. MetricNode(m) \in nodes /\ NameOf[x] \in RulesOf(m)
  BY DEF Hit, Claimants, Catalog, RulesKnown
<1>3. /\ s[1] = Measures(x, m)
      /\ Len(s) \in {1, 2}
      /\ Len(s) = 2 => load[c].owner[x] # NoEntity /\ s[2] = AppliesTo(m, load[c].owner[x])
      /\ s # <<>>
  BY DEF MetricLinks
<1> HIDE DEF x, b, s
<1>4. LinkSound(s, 1)
  BY <1>1, <1>2, <1>3, LinksDiffer DEF LinkSound, Justified
<1>5. ASSUME Len(s) = 2 PROVE LinkSound(s, 2)
  <2>1. s[2] = AppliesTo(m, load[c].owner[x]) /\ load[c].owner[x] \in OwnersOf(b, x)
    BY <1>1, <1>3, <1>5
  <2>2. Through(m, load[c].owner[x], s)
    BY <1>1, <1>2, <1>3, <2>1 DEF Through, b
  <2>3. QED BY <2>1, <2>2, LinksDiffer DEF LinkSound
<1>6. \A j \in 1..Len(s) : j = 1 \/ (j = 2 /\ Len(s) = 2)
  <2>1. \A n \in {1, 2} : \A j \in 1..n : j = 1 \/ (j = 2 /\ n = 2)
    OBVIOUS
  <2>2. QED BY <1>3, <2>1
<1>7. LinksSound(s)
  BY <1>4, <1>5, <1>6 DEF LinksSound
<1>8. QED BY <1>7 DEF s, x

\* A step leaves what waits justified.
LEMMA LinksWaitNext ==
    ASSUME Inv, Inv', RulesKnown, LoadTracks, LinksWait, [Next]_vars
    PROVE  LinksWait'
<1> USE DEF Inv
<1>1. /\ nodes \subseteq nodes' /\ edges \subseteq edges' /\ accepted \subseteq accepted'
      /\ \A m : RulesOf(m) \subseteq RulesOf(m)'
  BY GraphGrows, RulesGrow
<1>2. ASSUME NEW d \in Client, load'[d].links = load[d].links PROVE LinksSound(load[d].links)'
  <2>1. PICK s : s = load[d].links
    OBVIOUS
  <2>2. LinksSound(s)'
    BY <1>1, <2>1, SoundFrame DEF LinksWait
  <2>3. QED BY <1>2, <2>1, <2>2
<1>3. ASSUME NEW c \in Client, Step(c) PROVE LinksSound(load[c].links)'
  <2>1. CASE load'[c].links = load[c].links
    BY <1>2, <2>1
  <2>2. CASE WriteLink(c) /\ load'[c].links = Tail(load[c].links)
    <3>1. PICK s \in Seq(EdgeId) : s = load[c].links
      BY LoadFields
    <3>2. s # <<>> /\ UpsertEdge(Head(s)) /\ nodes' = nodes /\ UNCHANGED <<accepted, learned>>
      BY <2>2, <3>1 DEF WriteLink, funnelVars
    <3>3. LinksSound(s)
      BY <3>1 DEF LinksWait
    <3>4. LinksSound(Tail(s))'
      BY <3>2, <3>3, WrittenSound
    <3>5. QED BY <2>2, <3>1, <3>4
  <2>3. CASE UpsertDocument(c) /\ load'[c].links = DocumentLinks(Head(load[c].documents))
    <3>1. PICK d \in ObservedDocument : d = Head(load[c].documents)
      BY <2>3, LoadFields, TailRange DEF UpsertDocument
    <3>2. PICK s \in Seq(EdgeId) : s = DocumentLinks(d)
      BY LinksTyped
    <3>3. \A j \in 1..Len(s) : s[j] \in Range(s)
      BY DEF Range
    <3>4. \A j \in 1..Len(s) : \A x, m, e : s[j] # Measures(x, m) /\ s[j] # AppliesTo(m, e)
      BY <3>2, <3>3, DocumentLinksAre, LinksDiffer
    <3>5. LinksSound(s)'
      BY <3>4 DEF LinksSound, LinkSound
    <3>6. QED BY <2>3, <3>1, <3>2, <3>5
  <2>4. CASE /\ LookUpAlias(c)
             /\ \E m \in Metric :
                  LET x == Head(load[c].observed).column
                  IN  /\ Hit(NameOf[x], m)
                      /\ Resolved(c, "AUTO_LINKED", m, MetricLinks(c, x, m))
                      /\ load'[c].links = MetricLinks(c, x, m)
    <3>1. PICK m \in Metric : /\ Hit(NameOf[Head(load[c].observed).column], m)
                              /\ load'[c].links = MetricLinks(c, Head(load[c].observed).column, m)
      BY <2>4
    <3>2. PICK s : s = MetricLinks(c, Head(load[c].observed).column, m)
      OBVIOUS
    <3>3. LinksSound(s)
      BY <2>4, <3>1, <3>2, MetricLinksSound DEF LookUpAlias
    <3>4. LinksSound(s)'
      BY <1>1, <3>3, SoundFrame
    <3>5. QED BY <3>1, <3>2, <3>4
  <2>5. CASE load'[c].links = <<>>
    BY <2>5 DEF LinksSound
  <2>6. QED BY <1>3, <2>1, <2>2, <2>3, <2>4, <2>5, LinksMove
<1>4. CASE UNCHANGED vars
  BY <1>2, <1>4 DEF vars, pipelineVars, LinksWait
<1>5. ASSUME NEW c \in Client, Step(c) PROVE LinksWait'
  <2>1. ASSUME NEW d \in Client PROVE LinksSound(load[d].links)'
    <3>1. CASE d = c
      BY <1>3, <1>5, <3>1
    <3>2. CASE d # c
      BY <1>2, <1>5, <3>2, OthersUnmoved
    <3>3. QED BY <3>1, <3>2
  <2>2. QED BY <2>1 DEF LinksWait
<1>6. QED BY <1>4, <1>5 DEF Next, Step

\* The steps that write an edge.
LEMMA EdgesMove ==
    ASSUME TypeOK, NEW c \in Client, Step(c), NEW e \in edges' \ edges
    PROVE  \/ \E x, m : e = Measures(x, m) /\ <<x, m>> \in accepted'
           \/ WriteLink(c) /\ e = Head(load[c].links)
           \/ \E r : e = Relates(r)
<1>1. CASE Request(c)
  BY <1>1 DEF Request, LoadPack, BeginLoadPack, Answer, ConfirmLink, DefineMetric, Ingest,
              StartRun, UpsertEdge, graphVars
<1>2. CASE LoadPackStep(c) \/ ConfirmStep(c)
  BY <1>2 DEF LoadPackStep, UpsertMetric, UpsertBenchmark, EndLoadPack, ConfirmStep,
              ReadAliases, WriteAliases, graphVars
<1>3. CASE Fail(c) \/ Crash(c) \/ RejectRelation(c) \/ MarkDone(c) \/ Skip(c) \/ Fetch(c)
             \/ FinishRun(c)
  BY <1>3 DEF Fail, Crash, RejectRelation, MarkDone, Skip, Fetch, FinishRun, graphVars
<1>4. CASE UpsertDocument(c) \/ UpsertColumn(c) \/ UpsertEntity(c) \/ LookUpAlias(c) \/ Suggest(c)
  BY <1>4 DEF UpsertDocument, UpsertColumn, UpsertEntity, LookUpAlias, Suggest, graphVars
<1>5. CASE WriteLink(c) \/ Relate(c)
  BY <1>5 DEF WriteLink, Relate, UpsertEdge
<1>6. QED BY <1>1, <1>2, <1>3, <1>4, <1>5 DEF Step, Work, RunStep, LoadStep

\* Every edge of the graph keeps its reason.
LEMMA EdgesSoundNext ==
    ASSUME TypeOK, LinksWait, EdgesSound, [Next]_vars
    PROVE  EdgesSound'
<1>1. /\ nodes \subseteq nodes' /\ edges \subseteq edges' /\ accepted \subseteq accepted'
      /\ \A m : RulesOf(m) \subseteq RulesOf(m)'
  BY GraphGrows, RulesGrow
<1>2. /\ \A x, m : Justified(x, m) => Justified(x, m)'
      /\ \A m, e : Through(m, e, <<>>) => Through(m, e, <<>>)'
  BY <1>1, SoundFrame
<1>3. ASSUME edges' = edges PROVE EdgesSound'
  BY <1>2, <1>3 DEF EdgesSound
<1>4. ASSUME NEW c \in Client, Step(c) PROVE EdgesSound'
  <2>1. ASSUME WriteLink(c) PROVE LinkSound(load[c].links, 1)
    <3>1. load[c].links \in Seq(EdgeId) /\ load[c].links # <<>>
      BY <2>1, LoadFields DEF WriteLink
    <3>2. 1 \in 1..Len(load[c].links)
      BY <3>1
    <3>3. QED BY <3>2 DEF LinksWait, LinksSound
  <2>2. ASSUME WriteLink(c) PROVE Head(load[c].links) = load[c].links[1]
    BY <2>2, LoadFields DEF WriteLink
  <2>3. ASSUME NEW x \in Column, NEW m \in Metric, Measures(x, m) \in edges' \ edges
        PROVE  Justified(x, m)'
    <3>1. CASE \E y, n : Measures(x, m) = Measures(y, n) /\ <<y, n>> \in accepted'
      BY <3>1, LinksDiffer DEF Justified
    <3>2. CASE WriteLink(c) /\ Measures(x, m) = Head(load[c].links)
      BY <1>2, <2>1, <2>2, <3>2 DEF LinkSound
    <3>3. QED BY <1>4, <2>3, <3>1, <3>2, EdgesMove, LinksDiffer
  <2>4. ASSUME NEW m \in Metric, NEW e \in Entity, AppliesTo(m, e) \in edges' \ edges
        PROVE  Through(m, e, <<>>)'
    <3>1. CASE WriteLink(c) /\ AppliesTo(m, e) = Head(load[c].links)
      <4>1. Through(m, e, IF 1 = 2 THEN load[c].links ELSE <<>>)
        BY <2>1, <2>2, <3>1 DEF LinkSound
      <4>2. QED BY <1>2, <4>1
    <3>2. PICK l \in edges' \ edges : l = AppliesTo(m, e)
      BY <2>4
    <3>3. \/ \E x, n : l = Measures(x, n) /\ <<x, n>> \in accepted'
          \/ WriteLink(c) /\ l = Head(load[c].links)
          \/ \E r : l = Relates(r)
      BY <1>4, EdgesMove
    <3>4. WriteLink(c) /\ l = Head(load[c].links)
      BY <3>2, <3>3, LinksDiffer
    <3>5. QED BY <3>1, <3>2, <3>4
  <2>5. QED BY <1>2, <2>3, <2>4 DEF EdgesSound
<1>5. QED BY <1>3, <1>4 DEF Next, Step, vars, graphVars

LinkInv == Inv /\ RulesKnown /\ LoadTracks /\ LinksWait /\ EdgesSound

\* Nothing is linked, and nobody is loading.
LEMMA LinkInvInit == Init => LinkInv
<1> SUFFICES ASSUME Init PROVE LinkInv
  OBVIOUS
<1> USE DEF Init, PacksInit, PipelineInit, FunnelInit, GraphInit
<1>1. Inv
  BY InvInit
<1>2. RulesKnown
  BY EmptyRange DEF RulesKnown, NothingLeft
<1>3. LoadTracks
  BY DEF LoadTracks
<1>4. LinksWait
  <2>1. \A c \in Client : Len(load[c].links) = 0
    BY DEF NoLoad, NewLoad
  <2>2. QED BY <2>1 DEF LinksWait, LinksSound
<1>5. EdgesSound
  BY DEF EdgesSound
<1>6. QED BY <1>1, <1>2, <1>3, <1>4, <1>5 DEF LinkInv

\* Every step keeps it.
LEMMA LinkInvNext == LinkInv /\ [Next]_vars => LinkInv'
<1> SUFFICES ASSUME LinkInv, [Next]_vars PROVE LinkInv'
  OBVIOUS
<1>1. Inv /\ RulesKnown /\ LoadTracks /\ LinksWait /\ EdgesSound /\ TypeOK
  BY DEF LinkInv, Inv
<1>2. Inv' /\ TypeOK'
  BY <1>1, InvNext DEF Inv
<1>3. RulesKnown'
  BY <1>1, <1>2, RulesKnownNext
<1>4. LoadTracks'
  BY <1>1, LoadTracksNext
<1>5. LinksWait'
  BY <1>1, <1>2, LinksWaitNext
<1>6. EdgesSound'
  BY <1>1, EdgesSoundNext
<1>7. QED BY <1>2, <1>3, <1>4, <1>5, <1>6 DEF LinkInv

\* For every instance: however calls interleave and fail, no column measures a
\* metric but by a rule or a human's word, and no metric applies to an entity but
\* through a column.
THEOREM LinksAreJustified == Spec => []LinksJustified
<1>1. LinkInv => LinksJustified
  <2> SUFFICES ASSUME LinkInv PROVE LinksJustified
    OBVIOUS
  <2>1. ASSUME NEW x \in Column, NEW m \in Metric, Measures(x, m) \in edges
        PROVE  <<x, m>> \in accepted \/ NameOf[x] \in RulesOf(m)
    BY <2>1 DEF LinkInv, EdgesSound, Justified
  <2>2. ASSUME NEW m \in Metric, NEW e \in Entity, AppliesTo(m, e) \in edges
        PROVE  \E i \in Item, x \in Column : /\ e \in OwnersOf(Bundle[i], x)
                                             /\ m \in ResolvedMetrics(x)
    <3>1. Through(m, e, <<>>)
      BY <2>2 DEF LinkInv, EdgesSound
    <3>2. PICK i \in Item, x \in Column :
             /\ e \in OwnersOf(Bundle[i], x)
             /\ {ColumnNode(x), MetricNode(m)} \subseteq nodes
             /\ Measures(x, m) \in edges
      BY <3>1 DEF Through
    <3>3. m \in ResolvedMetrics(x)
      BY <3>2 DEF ResolvedMetrics, OutNeighbors, Measures, SpineEdge
    <3>4. QED BY <3>2, <3>3
  <2>3. QED BY <2>1, <2>2 DEF LinksJustified
<1>2. QED BY <1>1, LinkInvInit, LinkInvNext, PTL DEF Spec

(***************************************************************************)
(* A link is only written with its outcome.                                *)
(***************************************************************************)
\* A MEASURES edge that waits belongs to an outcome of the load it waits in.
Announced(c) ==
    \A x \in Column, m \in Metric :
        Measures(x, m) \in Range(load[c].links) =>
            Resolution(Current(c), x, "AUTO_LINKED", m) \in Range(load[c].resolutions)

\* A step of the process itself keeps it so.
LEMMA OwnAnnounced ==
    ASSUME TypeOK, TypeOK', NEW c \in Client, Step(c), Announced(c)
    PROVE  Announced(c)'
<1>1. PICK l \in Pending : l = load[c] /\ load \in [Client -> Pending]
  BY DEF TypeOK, PipelineTypeOK
<1>2. \A tier, m, links : Resolved(c, tier, m, links) =>
        /\ Range(load'[c].resolutions) = Range(load[c].resolutions)
             \cup {Resolution(Current(c), Head(load[c].observed).column, tier, m)}
        /\ load'[c].links = links
  BY OneOutcome
<1>3. ASSUME Range(load'[c].links) = {} PROVE Announced(c)'
  BY <1>3 DEF Announced
<1>4. CASE pc'[c] # "load"
  <2>1. load'[c].links = <<>>
    BY <1>4 DEF NoLoad, NewLoad, TypeOK, PipelineTypeOK
  <2>2. QED BY <1>3, <2>1, EmptyRange
<1>5. CASE UpsertDocument(c)
  <2>1. PICK d \in ObservedDocument : d = Head(load[c].documents)
    BY <1>5, LoadFields, TailRange DEF UpsertDocument
  <2>2. load'[c].links = DocumentLinks(d)
    BY <1>1, <1>5, <2>1 DEF UpsertDocument, SetLoad, Pending
  <2>3. ASSUME NEW e \in Range(DocumentLinks(d)), NEW x, NEW m PROVE e # Measures(x, m)
    BY DocumentLinksAre, LinksDiffer
  <2>4. QED BY <2>2, <2>3 DEF Announced
<1>6. CASE WriteLink(c)
  <2>1. load'[c].links = Tail(load[c].links)
    BY <1>1, <1>6 DEF WriteLink, SetLoad, Pending
  <2>2. Range(load'[c].links) \subseteq Range(load[c].links)
    BY <1>6, <2>1, LoadFields, TailRange DEF WriteLink
  <2>3. load'[c].resolutions = load[c].resolutions /\ Current(c)' = Current(c)
    BY <1>6, WritesResolveNothing DEF Current
  <2>4. QED BY <2>2, <2>3 DEF Announced
<1>7. CASE UpsertColumn(c) \/ UpsertEntity(c) \/ Relate(c)
  <2>1. load[c].links = <<>>
    BY <1>7 DEF UpsertColumn, UpsertEntity, Relate, EntitiesWritten, DocumentsWritten
  <2>2. load'[c].links = load[c].links \/ load'[c].links = <<>>
    <3>1. CASE UpsertColumn(c) \/ Relate(c)
      BY <1>1, <3>1 DEF UpsertColumn, Relate, SetLoad, Pending
    <3>2. CASE UpsertEntity(c)
      <4>1. PICK ent : ent = Head(l.entities)
        OBVIOUS
      <4>2. load'[c] = [l EXCEPT !.entities = Tail(@), !.columns = ent.columns,
                                 !.observed = @ \o ent.columns,
                                 !.owner = [x \in Column |-> IF Owns(ent, x) THEN ent.uid ELSE @[x]]]
        BY <1>1, <3>2, <4>1 DEF UpsertEntity, SetLoad
      <4>3. load'[c].links = l.links
        BY <4>2 DEF Pending
      <4>4. QED BY <1>1, <4>3
    <3>3. QED BY <1>7, <3>1, <3>2
  <2>3. QED BY <1>3, <2>1, <2>2, EmptyRange
<1>8. CASE LookUpAlias(c) \/ Suggest(c)
  <2> DEFINE x == Head(load[c].observed).column
  <2>1. load[c].links = <<>> /\ Current(c)' = Current(c)
    BY <1>8 DEF LookUpAlias, Suggest, Resolving, RelationsWritten, EntitiesWritten,
                DocumentsWritten, Current
  <2>2. ASSUME NEW m, Resolved(c, "AUTO_LINKED", m, MetricLinks(c, x, m)) PROVE Announced(c)'
    <3>1. /\ load'[c].links = MetricLinks(c, x, m)
          /\ Resolution(Current(c), x, "AUTO_LINKED", m) \in Range(load'[c].resolutions)
      BY <1>2, <2>2
    <3> HIDE DEF x
    <3>2. ASSUME NEW e \in Range(MetricLinks(c, x, m)), NEW y, NEW n, e = Measures(y, n)
          PROVE  y = x /\ n = m
      BY <3>2, MetricLinksAre, LinksDiffer
    <3>3. QED BY <2>1, <3>1, <3>2 DEF Announced
  <2>3. ASSUME NEW tier, NEW m, Resolved(c, tier, m, <<>>) PROVE Announced(c)'
    BY <1>2, <1>3, <2>3, EmptyRange
  <2>4. CASE SetLoad(c, [load[c] EXCEPT !.missed = TRUE])
    <3>1. load'[c].links = <<>>
      BY <1>1, <2>1, <2>4 DEF SetLoad, Pending
    <3>2. QED BY <1>3, <3>1, EmptyRange
  <2>5. QED BY <1>8, <2>2, <2>3, <2>4 DEF LookUpAlias, Suggest
<1>9. CASE Fetch(c)
  BY <1>3, <1>9, NoOutcomesYet DEF Fetch
<1>10. QED BY <1>4, <1>5, <1>6, <1>7, <1>8, <1>9, LoadBegins

\* The step that writes a link nobody has accepted is that of the load that reports it.
LEMMA LinkAnnounced ==
    ASSUME TypeOK, NEW c \in Client, Step(c), Announced(c), NEW x \in Column, NEW m \in Metric,
           Measures(x, m) \in edges' \ edges, <<x, m>> \notin accepted'
    PROVE  /\ load'[c] # load[c]
           /\ Resolution(Current(c), x, "AUTO_LINKED", m) \in Range(load[c].resolutions)
<1>1. WriteLink(c) /\ Measures(x, m) = Head(load[c].links)
  <2>1. PICK e \in edges' \ edges : e = Measures(x, m)
    OBVIOUS
  <2>2. \/ \E y, n : e = Measures(y, n) /\ <<y, n>> \in accepted'
        \/ WriteLink(c) /\ e = Head(load[c].links)
        \/ \E r : e = Relates(r)
    BY EdgesMove
  <2>3. CASE \E y, n : e = Measures(y, n) /\ <<y, n>> \in accepted'
    <3>1. PICK y, n : Measures(x, m) = Measures(y, n) /\ <<y, n>> \in accepted'
      BY <2>1, <2>3
    <3>2. y = x /\ n = m
      BY <3>1, LinksDiffer
    <3>3. QED BY <3>1, <3>2
  <2>4. CASE \E r : e = Relates(r)
    BY <2>1, <2>4, LinksDiffer
  <2>5. QED BY <2>1, <2>2, <2>3, <2>4
<1>2. PICK s \in Seq(EdgeId) : s = load[c].links /\ s # <<>>
  BY <1>1, LoadFields DEF WriteLink
<1>3. load'[c].links = Tail(s)
  BY <1>1, <1>2 DEF WriteLink, SetLoad, Pending, TypeOK, PipelineTypeOK
<1>4. Tail(s) # s /\ Head(s) \in Range(s)
  BY <1>2, TailDiffers, TailRange
<1>5. Measures(x, m) \in Range(load[c].links) /\ load'[c].links # load[c].links
  BY <1>1, <1>2, <1>3, <1>4
<1>6. Resolution(Current(c), x, "AUTO_LINKED", m) \in Range(load[c].resolutions)
  BY <1>5 DEF Announced
<1>7. QED BY <1>5, <1>6

\* For every instance: whatever another process changes between the two reads of the
\* catalog, no MEASURES edge appears but for a human's word or an outcome reported
\* as linked; a suggestion, at any score, is left to a human.
THEOREM SuggestionsWait == Spec => LinkedOnlyAsReported
<1> DEFINE All == \A c \in Client : Announced(c)
<1>1. Init => All
  <2>1. Init => \A c \in Client : load[c].links = <<>>
    BY DEF Init, PipelineInit, NoLoad, NewLoad
  <2>2. QED BY <2>1, EmptyRange DEF Announced
<1>2. TypeOK /\ TypeOK' /\ All /\ [Next]_vars => All'
  <2> SUFFICES ASSUME TypeOK, TypeOK', All, [Next]_vars, NEW d \in Client PROVE Announced(d)'
    OBVIOUS
  <2>1. CASE UNCHANGED vars
    BY <2>1 DEF vars, pipelineVars, Announced, Current
  <2>2. ASSUME NEW c \in Client, Step(c) PROVE Announced(d)'
    BY <2>2, OwnAnnounced, OthersUnmoved DEF Announced, Current
  <2>3. QED BY <2>1, <2>2 DEF Next, Step
<1>3. TypeOK /\ All /\ [Next]_vars =>
        [\A x \in Column, m \in Metric : Measures(x, m) \in edges' \ edges =>
           \/ <<x, m>> \in accepted'
           \/ \E c \in Client : \E r \in Range(load[c].resolutions) :
                load'[c] # load[c] /\ r = Resolution(Current(c), x, "AUTO_LINKED", m)]_vars
  <2> SUFFICES ASSUME TypeOK, All, NEW c \in Client, Step(c)
               PROVE  \A x \in Column, m \in Metric : Measures(x, m) \in edges' \ edges =>
                        \/ <<x, m>> \in accepted'
                        \/ /\ load'[c] # load[c]
                           /\ Resolution(Current(c), x, "AUTO_LINKED", m)
                                \in Range(load[c].resolutions)
    BY DEF Next, Step, vars, graphVars
  <2>1. QED BY LinkAnnounced
<1> HIDE DEF All
<1>4. QED BY <1>1, <1>2, <1>3, InitTyped, NextTyped, PTL DEF Spec, LinkedOnlyAsReported

(***************************************************************************)
(* What is reported can be read back.                                      *)
(***************************************************************************)
LinksOf(r) == {Measures(r.column, r.metric)}
                \cup {AppliesTo(r.metric, e) : e \in OwnersOf(Bundle[r.item], r.column)}
EndsOf(r) == {ColumnNode(r.column), MetricNode(r.metric)}
                \cup {EntityNode(e) : e \in OwnersOf(Bundle[r.item], r.column)}

\* The nodes ns and the edges es hold what an outcome promises.
Holds(r, ns, es) ==
    r.tier = "AUTO_LINKED" => r.metric \in Metric /\ LinksOf(r) \subseteq es /\ EndsOf(r) \subseteq ns

\* A link is in the graph, or waits for the step that writes it.
Linked(d) ==
    /\ \A r \in delivered[d] \cup Range(report[d]) : Holds(r, nodes, edges)
    /\ \A r \in Range(load[d].resolutions) : Holds(r, nodes, edges \cup Range(load[d].links))

\* A pair has its two members.
LEMMA RangeOfTwo ==
    ASSUME NEW a, NEW b
    PROVE  a \in Range(<<a, b>>) /\ b \in Range(<<a, b>>)
<1>1. DOMAIN <<a, b>> = 1..2 /\ <<a, b>>[1] = a /\ <<a, b>>[2] = b
  OBVIOUS
<1>2. QED BY <1>1 DEF Range

\* What an auto-linked column promises: its links wait, between nodes that are there.
LEMMA AutoLinkHolds ==
    ASSUME Inv, LoadTracks, NEW c \in Client, Resolving(c), NEW m \in Metric,
           Hit(NameOf[Head(load[c].observed).column], m), NEW es
    PROVE  LET x == Head(load[c].observed).column
           IN  Holds(Resolution(Current(c), x, "AUTO_LINKED", m), nodes,
                     es \cup Range(MetricLinks(c, x, m)))
<1> DEFINE x == Head(load[c].observed).column
           b == Bundle[Current(c)]
           s == MetricLinks(c, x, m)
           r == Resolution(Current(c), x, "AUTO_LINKED", m)
<1> SUFFICES Holds(r, nodes, es \cup Range(s))
  OBVIOUS
<1>1. /\ ColumnNode(x) \in nodes
      /\ OwnersOf(b, x) = {load[c].owner[x]} \ {NoEntity}
      /\ \A e \in OwnersOf(b, x) : EntityNode(e) \in nodes
  BY ResolvedColumn
<1>2. MetricNode(m) \in nodes
  BY DEF Hit, Claimants, Catalog
<1>3. r.column = x /\ r.metric = m /\ r.item = Current(c)
  BY DEF Resolution
<1>4. CASE load[c].owner[x] = NoEntity
  <2>1. s = <<Measures(x, m)>> /\ Measures(x, m) \in Range(s)
    BY <1>4 DEF MetricLinks, Range
  <2> HIDE DEF x, b, s, r
  <2>2. OwnersOf(b, x) = {}
    BY <1>1, <1>4
  <2>3. QED BY <1>1, <1>2, <1>3, <2>1, <2>2 DEF Holds, LinksOf, EndsOf, b
<1>5. CASE load[c].owner[x] # NoEntity
  <2>1. s = <<Measures(x, m), AppliesTo(m, load[c].owner[x])>>
    BY <1>5 DEF MetricLinks
  <2>2. Measures(x, m) \in Range(s) /\ AppliesTo(m, load[c].owner[x]) \in Range(s)
    BY <2>1, RangeOfTwo
  <2> HIDE DEF x, b, s, r
  <2>3. OwnersOf(b, x) = {load[c].owner[x]}
    BY <1>1, <1>5
  <2>4. LinksOf(r) \subseteq Range(s) /\ EndsOf(r) \subseteq nodes
    BY <1>1, <1>2, <1>3, <2>2, <2>3 DEF LinksOf, EndsOf, b
  <2>5. QED BY <1>3, <2>4 DEF Holds
<1>6. QED BY <1>4, <1>5

\* A link an outcome promises is written when its turn comes: its ends are there.
LEMMA PromiseWritten ==
    ASSUME NEW s \in Seq(EdgeId), s # <<>>, UpsertEdge(Head(s)), nodes' = nodes,
           NEW r, Holds(r, nodes, edges \cup Range(s))
    PROVE  Holds(r, nodes', edges' \cup Range(Tail(s)))
<1>1. Range(s) = {Head(s)} \cup Range(Tail(s))
  BY TailRange
<1>2. edges \subseteq edges' /\ (Stored(Head(s)) => Head(s) \in edges')
  BY DEF UpsertEdge
<1>3. ASSUME r.tier = "AUTO_LINKED", Head(s) \in LinksOf(r) PROVE Stored(Head(s))
  <2>1. \A l \in LinksOf(r) : l.src \in EndsOf(r) /\ l.dst \in EndsOf(r)
    BY DEF LinksOf, EndsOf, Measures, AppliesTo, SpineEdge
  <2>2. QED BY <1>3, <2>1 DEF Holds, Stored
<1>4. QED BY <1>1, <1>2, <1>3 DEF Holds

\* A step of the process itself keeps what it has reported linked.
LEMMA OwnLinked ==
    ASSUME Inv, TypeOK', LoadTracks, NEW c \in Client, Step(c), [Next]_vars, Linked(c)
    PROVE  Linked(c)'
<1>1. /\ nodes \subseteq nodes' /\ edges \subseteq edges'
      /\ \A tier, m, links : Resolved(c, tier, m, links) =>
           /\ Range(load'[c].resolutions) = Range(load[c].resolutions)
                \cup {Resolution(Current(c), Head(load[c].observed).column, tier, m)}
           /\ load'[c].links = links
  BY GraphGrows, OneOutcome DEF Inv
<1> USE DEF Inv, TypeOK, FunnelTypeOK, PipelineTypeOK
<1>2. ASSUME report'[c] = report[c], delivered'[c] = delivered[c],
             load'[c].resolutions = load[c].resolutions,
             load'[c].links = load[c].links \/ Range(load[c].links) = {}
      PROVE  Linked(c)'
  BY <1>1, <1>2 DEF Linked, Holds
<1>3. CASE Request(c)
  BY <1>2, <1>3 DEF Request, LoadPack, Answer, ConfirmLink, DefineMetric, Ingest, StartRun,
                    pipelineVars
<1>4. ASSUME UNCHANGED pipelineVars PROVE Linked(c)'
  BY <1>2, <1>4 DEF pipelineVars
<1>5. CASE RejectRelation(c) \/ Fail(c)
  <2>1. AbandonCall(c) /\ delivered' = delivered
    BY <1>5 DEF RejectRelation, Fail
  <2>2. QED BY <1>1, <2>1, NoOutcomesYet DEF Linked, Holds
<1>6. CASE Crash(c)
  <2>1. AbandonCall(c) /\ delivered'[c] = {}
    BY <1>6 DEF Crash
  <2>2. QED BY <2>1, NoOutcomesYet DEF Linked
<1>7. CASE WriteLink(c)
  <2>1. PICK s \in Seq(EdgeId) : s = load[c].links
    BY LoadFields
  <2>2. s # <<>> /\ UpsertEdge(Head(s)) /\ nodes' = nodes /\ load'[c].links = Tail(s)
    BY <1>7, <2>1 DEF WriteLink, SetLoad, Pending
  <2>3. \A r \in Range(load[c].resolutions) : Holds(r, nodes', edges' \cup Range(load'[c].links))
    BY <2>1, <2>2, PromiseWritten DEF Linked
  <2>4. /\ load'[c].resolutions = load[c].resolutions
        /\ report' = report /\ delivered' = delivered
    BY <1>7, WritesResolveNothing
  <2>5. QED BY <1>1, <2>3, <2>4 DEF Linked, Holds
<1>8. CASE UpsertDocument(c)
  <2>1. load[c].links = <<>>
    BY <1>8 DEF UpsertDocument
  <2>2. QED BY <1>2, <1>8, <2>1, EmptyRange, WritesResolveNothing
<1>9. CASE UpsertColumn(c) \/ UpsertEntity(c) \/ Relate(c)
  <2>1. load[c].links = <<>>
    BY <1>9 DEF UpsertColumn, UpsertEntity, Relate, EntitiesWritten, DocumentsWritten
  <2>2. QED BY <1>2, <1>9, <2>1, EmptyRange, WritesResolveNothing
<1>10. ASSUME Resolving(c) PROVE Range(load[c].links) = {}
  BY <1>10, EmptyRange DEF Resolving, RelationsWritten, EntitiesWritten, DocumentsWritten
<1>11. ASSUME NEW tier, NEW m, NEW links, Resolved(c, tier, m, links), Resolving(c),
              report' = report, delivered' = delivered,
              Holds(Resolution(Current(c), Head(load[c].observed).column, tier, m),
                    nodes, edges \cup Range(links))
       PROVE  Linked(c)'
  <2> DEFINE r == Resolution(Current(c), Head(load[c].observed).column, tier, m)
  <2>1. /\ Range(load'[c].resolutions) = Range(load[c].resolutions) \cup {r}
        /\ load'[c].links = links
    BY <1>1, <1>11
  <2>2. Holds(r, nodes, edges \cup Range(links))
    BY <1>11
  <2> HIDE DEF r
  <2>3. \A q \in Range(load[c].resolutions) \cup {r} : Holds(q, nodes', edges' \cup Range(links))
    BY <1>1, <1>10, <1>11, <2>2 DEF Linked, Holds
  <2>4. QED BY <1>1, <1>11, <2>1, <2>3 DEF Linked, Holds
<1>12. ASSUME NEW tier, tier # "AUTO_LINKED", NEW m, NEW x, NEW es
       PROVE  Holds(Resolution(Current(c), x, tier, m), nodes, es)
  BY <1>12 DEF Holds, Resolution
<1>13. CASE LookUpAlias(c)
  <2> DEFINE x == Head(load[c].observed).column
  <2>1. Resolving(c) /\ report' = report /\ delivered' = delivered
    BY <1>13 DEF LookUpAlias
  <2>2. ASSUME NEW m \in Metric, Hit(NameOf[x], m),
               Resolved(c, "AUTO_LINKED", m, MetricLinks(c, x, m))
        PROVE  Linked(c)'
    BY <1>11, <2>1, <2>2, AutoLinkHolds
  <2>3. CASE Resolved(c, "DOCUMENTED", NoMetric, <<>>)
    BY <1>11, <1>12, <2>1, <2>3
  <2>4. CASE SetLoad(c, [load[c] EXCEPT !.missed = TRUE])
    <3>1. load'[c].resolutions = load[c].resolutions
      BY <2>4 DEF SetLoad, Pending
    <3>2. QED BY <1>2, <1>10, <2>1, <3>1
  <2>5. QED BY <1>13, <2>2, <2>3, <2>4 DEF LookUpAlias
<1>14. CASE Suggest(c)
  <2>1. Resolving(c) /\ report' = report /\ delivered' = delivered
    BY <1>14 DEF Suggest
  <2>2. QED BY <1>11, <1>12, <1>14, <2>1 DEF Suggest
<1>15. CASE MarkDone(c)
  <2>1. delivered' = delivered /\ Range(load[c].links) = {}
    BY <1>15, EmptyRange
       DEF MarkDone, Loaded, RelationsWritten, EntitiesWritten, DocumentsWritten
  <2>2. report'[c] = report[c] \o load[c].resolutions /\ Range(load'[c].resolutions) = {}
    BY <1>15, NoOutcomesYet DEF MarkDone
  <2>3. report[c] \in Seq(Outcome) /\ load[c].resolutions \in Seq(Outcome)
    BY DEF Pending
  <2>4. Range(report'[c]) = Range(report[c]) \cup Range(load[c].resolutions)
    BY <2>2, <2>3, ConcatRange
  <2>5. \A r \in Range(load[c].resolutions) : Holds(r, nodes, edges)
    BY <2>1 DEF Linked
  <2>6. QED BY <1>1, <2>1, <2>2, <2>4, <2>5 DEF Linked, Holds
<1>16. CASE FinishRun(c)
  <2>1. load' = load
    BY <1>16 DEF FinishRun
  <2>2. delivered'[c] = delivered[c] \cup Range(report[c]) /\ Range(report'[c]) = {}
    BY <1>16, EmptyRange DEF FinishRun
  <2>3. QED BY <1>1, <2>1, <2>2 DEF Linked, Holds
<1>17. CASE Fetch(c)
  <2>1. report' = report /\ delivered' = delivered
    BY <1>17 DEF Fetch
  <2>2. Range(load'[c].resolutions) = {}
    BY <1>17, NoOutcomesYet DEF Fetch
  <2>3. QED BY <1>1, <2>1, <2>2 DEF Linked, Holds
<1>18. CASE Skip(c)
  BY <1>2, <1>18 DEF Skip
<1>19. CASE Work(c)
  BY <1>4, <1>5, <1>7, <1>8, <1>9, <1>13, <1>14, <1>15, <1>16, <1>17, <1>18, <1>19
     DEF Work, RunStep, LoadStep
<1>20. QED BY <1>3, <1>5, <1>6, <1>19 DEF Step

\* No step of any process breaks what another has reported.
LEMMA LinkedNext ==
    LinkInv /\ LinkInv' /\ (\A c \in Client : Linked(c)) /\ [Next]_vars
      => \A c \in Client : Linked(c)'
<1> SUFFICES ASSUME LinkInv, LinkInv', \A c \in Client : Linked(c), [Next]_vars,
                    NEW d \in Client
             PROVE  Linked(d)'
  OBVIOUS
<1>1. Inv /\ TypeOK /\ TypeOK' /\ LoadTracks /\ nodes \subseteq nodes' /\ edges \subseteq edges'
  BY GraphGrows DEF LinkInv, Inv
<1>2. CASE UNCHANGED vars
  BY <1>2 DEF vars, graphVars, pipelineVars, Linked
<1>3. ASSUME NEW c \in Client, Step(c) PROVE Linked(d)'
  <2>1. CASE d = c
    BY <1>1, <1>3, <2>1, OwnLinked
  <2>2. CASE d # c
    <3>1. load'[d] = load[d] /\ report'[d] = report[d] /\ delivered'[d] = delivered[d]
      BY <1>1, <1>3, <2>2, OthersUnmoved, OthersOutcomes
    <3>2. QED BY <1>1, <3>1 DEF Linked, Holds
  <2>3. QED BY <2>1, <2>2
<1>4. QED BY <1>2, <1>3 DEF Next, Step

\* For every instance: whatever fails or runs beside it, a column reported as linked
\* leads to its metric and through it to its owner.
THEOREM LinkedCanBeRead == Spec => []LinkedAsReported
<1> DEFINE Reported == \A c \in Client : Linked(c)
<1>1. LinkInv /\ Reported => LinkedAsReported
  <2> SUFFICES ASSUME LinkInv, NEW c \in Client, Linked(c),
                      NEW r \in delivered[c] \cup Range(report[c]), r.tier = "AUTO_LINKED"
               PROVE  /\ r.metric \in ResolvedMetrics(r.column)
                      /\ OwnersOf(Bundle[r.item], r.column)
                           \subseteq ResolvedEntities(r.column, r.metric)
    BY DEF LinkedAsReported
  <2>1. r.metric \in Metric /\ LinksOf(r) \subseteq edges /\ EndsOf(r) \subseteq nodes
    BY DEF Linked, Holds
  <2>2. r.metric \in ResolvedMetrics(r.column)
    <3>1. Measures(r.column, r.metric) \in edges
      BY <2>1 DEF LinksOf
    <3>2. ColumnNode(r.column) \in nodes /\ MetricNode(r.metric) \in nodes
      BY <2>1 DEF EndsOf
    <3>3. QED BY <2>1, <3>1, <3>2 DEF ResolvedMetrics, OutNeighbors, Measures, SpineEdge
  <2>3. OwnersOf(Bundle[r.item], r.column) \subseteq Entity
    <3>1. r \in Outcome
      <4>1. delivered[c] \subseteq Outcome /\ report[c] \in Seq(Outcome)
        BY DEF LinkInv, Inv, TypeOK, PipelineTypeOK
      <4>2. Range(report[c]) \subseteq Outcome
        BY <4>1 DEF Range
      <4>3. QED BY <4>1, <4>2
    <3>2. Bundle[r.item].entities \in Seq(ObservedEntity)
      BY <3>1, PipelineAssumption DEF Outcome, ParsedBundle
    <3>3. PICK s \in Seq(ObservedEntity) : s = Bundle[r.item].entities
      BY <3>2
    <3>4. \A i \in DOMAIN s : s[i] \in ObservedEntity
      OBVIOUS
    <3>5. \A i \in DOMAIN s : s[i].uid \in Entity
      BY <3>4 DEF ObservedEntity
    <3>6. QED BY <3>3, <3>5 DEF OwnersOf
  <2>4. ASSUME NEW e \in OwnersOf(Bundle[r.item], r.column)
        PROVE  e \in ResolvedEntities(r.column, r.metric)
    <3>1. AppliesTo(r.metric, e) \in edges /\ EntityNode(e) \in nodes
      BY <2>1, <2>4 DEF LinksOf, EndsOf
    <3>2. QED BY <2>2, <2>3, <2>4, <3>1 DEF ResolvedEntities, OutNeighbors, AppliesTo, SpineEdge
  <2>5. QED BY <2>2, <2>4
<1>2. Init => Reported
  <2>1. Init => \A c \in Client : /\ delivered[c] = {} /\ report[c] = <<>>
                                  /\ load[c].resolutions = <<>>
    BY DEF Init, PipelineInit, NoLoad, NewLoad
  <2>2. QED BY <2>1, EmptyRange DEF Linked
<1>3. LinkInv /\ LinkInv' /\ Reported /\ [Next]_vars => Reported'
  BY LinkedNext
<1>4. QED BY <1>1, <1>2, <1>3, LinkInvInit, LinkInvNext, PTL DEF Spec

(***************************************************************************)
(* The write-back of one process.  What a confirmation has read stays the  *)
(* whole list until it writes it back: nobody else is there to change it.  *)
(***************************************************************************)
OneProcess == \A c, d \in Client : c = d

ReadIsWhole ==
    \A c \in Client : pc[c] = "learn" => aliases[confirming[c].metric] \subseteq confirming[c].read

\* A step that leaves the lists, the history and what has been read alone.
LEMMA NothingLearned ==
    ASSUME OneProcess, NEW c \in Client, ConfirmedStays, ReadIsWhole,
           aliases' = aliases, learned' = learned,
           pc'[c] = "learn" => pc[c] = "learn" /\ confirming'[c] = confirming[c]
    PROVE  ConfirmedStays' /\ ReadIsWhole'
<1>1. ConfirmedStays'
  BY DEF ConfirmedStays, SeedsOf
<1>2. \A d \in Client : d = c
  BY DEF OneProcess
<1>3. QED BY <1>1, <1>2 DEF ReadIsWhole

\* A pack's definition without aliases leaves the list; one with aliases is for a
\* metric that is out of the question.
LEMMA SeedingSpares ==
    ASSUME TypeOK, RulesKnown, NEW c \in Client, UpsertMetric(c),
           NEW m \in Metric, SeedsOf(m) = {}
    PROVE  aliases'[m] = aliases[m]
<1> USE DEF TypeOK, GraphTypeOK, PacksTypeOK
<1>1. PICK def : def = Head(catalog[c].metrics)
  OBVIOUS
<1>2. def \in MetricDef /\ def \in Defined
  BY <1>1, TailRange DEF UpsertMetric, RulesKnown
<1>3. aliases' = [aliases EXCEPT ![def.metric] = SeededAliases(def)]
  BY <1>1 DEF UpsertMetric, PutAliases
<1>4. CASE m = def.metric
  <2>1. def.aliases \subseteq SeedsOf(m)
    BY <1>2, <1>4 DEF Defined, SeedsOf
  <2>2. SeededAliases(def) = aliases[m]
    BY <1>4, <2>1 DEF SeededAliases
  <2>3. QED BY <1>3, <1>4, <2>2
<1>5. CASE m # def.metric
  BY <1>3, <1>5
<1>6. QED BY <1>4, <1>5

\* So seeding undoes no confirmation.
LEMMA SeedingKeeps ==
    ASSUME TypeOK, RulesKnown, OneProcess, NEW c \in Client, ConfirmedStays, UpsertMetric(c),
           learned' = learned, pc'[c] = "pack"
    PROVE  ConfirmedStays' /\ ReadIsWhole'
<1>1. ConfirmedStays'
  BY SeedingSpares DEF ConfirmedStays, SeedsOf
<1>2. \A d \in Client : pc'[d] = "pack"
  BY DEF OneProcess
<1>3. QED BY <1>1, <1>2 DEF ReadIsWhole

\* The list written back has the new name, and every name the list had.
LEMMA WriteBackGrows ==
    ASSUME TypeOK, NEW c \in Client, ReadIsWhole, WriteAliases(c)
    PROVE  /\ \A m \in Metric : aliases[m] \subseteq aliases'[m]
           /\ NameOf[confirming[c].column] \in aliases'[confirming[c].metric]
<1> USE DEF TypeOK, GraphTypeOK, PacksTypeOK, FunnelTypeOK, At, Goto
<1> DEFINE conf == confirming[c]
<1>1. /\ pc[c] = "learn"
      /\ conf \in Confirmation
      /\ aliases' = [aliases EXCEPT ![conf.metric] = conf.read \cup {NameOf[conf.column]}]
  BY DEF WriteAliases, PutAliases
<1>2. conf.metric \in Metric /\ aliases[conf.metric] \subseteq conf.read
  BY <1>1 DEF Confirmation, ReadIsWhole
<1>3. QED BY <1>1, <1>2

\* So writing back undoes no confirmation.
LEMMA WriteBackKeeps ==
    ASSUME TypeOK, OneProcess, NEW c \in Client, ConfirmedStays, ReadIsWhole, WriteAliases(c)
    PROVE  ConfirmedStays' /\ ReadIsWhole'
<1> USE DEF TypeOK, GraphTypeOK, PacksTypeOK, FunnelTypeOK, At, Goto
<1> DEFINE conf == confirming[c]
<1>1. pc'[c] = "idle" /\ learned' = learned \cup {<<conf.column, conf.metric>>}
  BY DEF WriteAliases
<1>2. \A m \in Metric : aliases[m] \subseteq aliases'[m]
  BY WriteBackGrows
<1>3. NameOf[conf.column] \in aliases'[conf.metric]
  BY WriteBackGrows
<1>4. ASSUME NEW x \in Column, NEW m \in Metric, <<x, m>> \in learned', SeedsOf(m) = {}
      PROVE  NameOf[x] \in aliases'[m]
  <2>1. CASE <<x, m>> \in learned
    BY <1>2, <1>4, <2>1 DEF ConfirmedStays
  <2>2. CASE x = conf.column /\ m = conf.metric
    BY <1>3, <2>2
  <2>3. QED BY <1>1, <1>4, <2>1, <2>2
<1>5. ConfirmedStays'
  BY <1>4 DEF ConfirmedStays, SeedsOf
<1>6. \A d \in Client : pc'[d] = "idle"
  BY <1>1 DEF OneProcess
<1>7. QED BY <1>5, <1>6 DEF ReadIsWhole

\* Every step keeps both.
LEMMA ConfirmedNext ==
    ASSUME OneProcess, TypeOK, RulesKnown, ConfirmedStays, ReadIsWhole, NEW c \in Client, Step(c)
    PROVE  ConfirmedStays' /\ ReadIsWhole'
<1> USE DEF TypeOK, GraphTypeOK, PacksTypeOK, FunnelTypeOK, PipelineTypeOK, At, Goto
<1>1. CASE Request(c)
  <2>1. aliases' = aliases /\ learned' = learned /\ pc'[c] # "learn"
    BY <1>1 DEF Request, LoadPack, BeginLoadPack, Answer, ConfirmLink, DefineMetric, Ingest,
                StartRun, graphVars, packVars, funnelVars
  <2>2. QED BY <2>1, NothingLearned
<1>2. CASE LoadPackStep(c) /\ UNCHANGED <<funnelVars, pipelineVars, failures>>
  <2>1. CASE UpsertMetric(c)
    <3>1. learned' = learned /\ pc'[c] = "pack"
      BY <1>2, <2>1 DEF UpsertMetric, funnelVars
    <3>2. QED BY <2>1, <3>1, SeedingKeeps
  <2>2. CASE UpsertBenchmark(c) \/ EndLoadPack(c)
    <3>1. aliases' = aliases /\ learned' = learned /\ pc'[c] # "learn"
      BY <1>2, <2>2 DEF UpsertBenchmark, EndLoadPack, graphVars, funnelVars
    <3>2. QED BY <3>1, NothingLearned
  <2>3. QED BY <1>2, <2>1, <2>2 DEF LoadPackStep
<1>3. CASE ReadAliases(c)
  <2>1. /\ aliases' = aliases /\ learned' = learned
        /\ confirming'[c] = [confirming[c] EXCEPT !.read = aliases[confirming[c].metric]]
        /\ confirming[c] \in Confirmation
    BY <1>3 DEF ReadAliases, graphVars
  <2>2. /\ confirming'[c].metric = confirming[c].metric
        /\ confirming'[c].read = aliases[confirming[c].metric]
    BY <2>1 DEF Confirmation
  <2>3. ConfirmedStays'
    BY <2>1 DEF ConfirmedStays, SeedsOf
  <2>4. \A d \in Client : d = c
    BY DEF OneProcess
  <2>5. QED BY <2>1, <2>2, <2>3, <2>4 DEF ReadIsWhole
<1>4. CASE WriteAliases(c)
  BY <1>4, WriteBackKeeps
<1>5. CASE Fail(c) \/ Crash(c) \/ RejectRelation(c)
  <2>1. aliases' = aliases /\ learned' = learned /\ pc'[c] # "learn"
    BY <1>5 DEF Fail, Crash, RejectRelation, AbandonCall, graphVars
  <2>2. QED BY <2>1, NothingLearned
<1>6. CASE \/ UpsertDocument(c) \/ WriteLink(c) \/ UpsertColumn(c) \/ UpsertEntity(c)
           \/ Relate(c) \/ LookUpAlias(c) \/ Suggest(c)
  <2>1. aliases' = aliases /\ learned' = learned /\ pc' = pc /\ confirming' = confirming
    BY <1>6 DEF UpsertDocument, WriteLink, UpsertColumn, UpsertEntity, Relate, LookUpAlias,
                Suggest, graphVars, packVars, funnelVars
  <2>2. QED BY <2>1, NothingLearned
<1>7. CASE Skip(c) \/ Fetch(c) \/ MarkDone(c) \/ FinishRun(c)
  <2>1. /\ aliases' = aliases /\ learned' = learned /\ confirming' = confirming
        /\ pc'[c] = pc[c] \/ pc'[c] # "learn"
    BY <1>7 DEF Skip, Fetch, MarkDone, FinishRun, graphVars, packVars, funnelVars
  <2>2. QED BY <2>1, NothingLearned
<1>8. CASE Work(c)
  BY <1>2, <1>3, <1>4, <1>5, <1>6, <1>7, <1>8 DEF Work, RunStep, LoadStep, ConfirmStep
<1>9. QED BY <1>1, <1>5, <1>8 DEF Step

\* The same for the next-state relation.
LEMMA ConfirmedAll ==
    ASSUME OneProcess
    PROVE  ConfirmedStays /\ ReadIsWhole /\ LinkInv /\ [Next]_vars
             => (ConfirmedStays /\ ReadIsWhole)'
<1> SUFFICES ASSUME ConfirmedStays, ReadIsWhole, LinkInv, [Next]_vars
             PROVE  ConfirmedStays' /\ ReadIsWhole'
  OBVIOUS
<1>1. CASE UNCHANGED vars
  BY <1>1 DEF vars, graphVars, packVars, funnelVars, ConfirmedStays, ReadIsWhole, SeedsOf
<1>2. ASSUME NEW c \in Client, Step(c) PROVE ConfirmedStays' /\ ReadIsWhole'
  BY <1>2, ConfirmedNext DEF LinkInv, Inv
<1>3. QED BY <1>1, <1>2 DEF Next, Step

\* For every instance with one process, on either store, through any exceptions and
\* restarts: a confirmed name stays a rule of its metric.
THEOREM ConfirmationsStay ==
    ASSUME OneProcess
    PROVE  Spec => []ConfirmedStays
<1>1. Init => ConfirmedStays /\ ReadIsWhole
  BY DEF Init, FunnelInit, PacksInit, ConfirmedStays, ReadIsWhole
<1>2. ConfirmedStays /\ ReadIsWhole /\ LinkInv /\ [Next]_vars => (ConfirmedStays /\ ReadIsWhole)'
  BY ConfirmedAll
<1>3. QED BY <1>1, <1>2, LinkInvInit, LinkInvNext, PTL DEF Spec

\* The list of a metric that no pack lists aliases for loses no alias.
ListsGrow ==
    [][\A m \in Metric : SeedsOf(m) = {} => aliases[m] \subseteq aliases'[m]]_vars

\* Only the two writers of a metric's alias list change one.
LEMMA AliasesMove ==
    ASSUME NEW c \in Client, Step(c)
    PROVE  aliases' = aliases \/ UpsertMetric(c) \/ WriteAliases(c)
<1>1. CASE Request(c)
  BY <1>1 DEF Request, LoadPack, BeginLoadPack, Answer, ConfirmLink, DefineMetric, Ingest,
              StartRun, graphVars
<1>2. CASE UpsertBenchmark(c) \/ EndLoadPack(c) \/ ReadAliases(c)
  BY <1>2 DEF UpsertBenchmark, EndLoadPack, ReadAliases, graphVars
<1>3. CASE Fail(c) \/ Crash(c) \/ RejectRelation(c)
  BY <1>3 DEF Fail, Crash, RejectRelation, graphVars
<1>4. CASE \/ UpsertDocument(c) \/ WriteLink(c) \/ UpsertColumn(c) \/ UpsertEntity(c)
           \/ Relate(c) \/ LookUpAlias(c) \/ Suggest(c)
  BY <1>4 DEF UpsertDocument, WriteLink, UpsertColumn, UpsertEntity, Relate, LookUpAlias,
              Suggest, graphVars
<1>5. CASE Skip(c) \/ Fetch(c) \/ MarkDone(c) \/ FinishRun(c)
  BY <1>5 DEF Skip, Fetch, MarkDone, FinishRun, graphVars
<1>6. QED BY <1>1, <1>2, <1>3, <1>4, <1>5
          DEF Step, Work, LoadPackStep, ConfirmStep, RunStep, LoadStep

\* For every instance with one process: the rule set grows, as loader.py:17-18 says,
\* for each metric whose aliases come from human answers only.
THEOREM LearnedListsGrow ==
    ASSUME OneProcess
    PROVE  Spec => ListsGrow
<1>1. Init => ConfirmedStays /\ ReadIsWhole
  BY DEF Init, FunnelInit, PacksInit, ConfirmedStays, ReadIsWhole
<1>2. ConfirmedStays /\ ReadIsWhole /\ LinkInv /\ [Next]_vars => (ConfirmedStays /\ ReadIsWhole)'
  BY ConfirmedAll
<1>3. ReadIsWhole /\ LinkInv /\ [Next]_vars =>
        [\A m \in Metric : SeedsOf(m) = {} => aliases[m] \subseteq aliases'[m]]_vars
  <2> SUFFICES ASSUME ReadIsWhole, TypeOK, RulesKnown, NEW c \in Client, Step(c),
                      NEW m \in Metric, SeedsOf(m) = {}
               PROVE  aliases[m] \subseteq aliases'[m]
    BY DEF LinkInv, Inv, Next, Step
  <2>1. CASE UpsertMetric(c)
    BY <2>1, SeedingSpares
  <2>2. CASE WriteAliases(c)
    BY <2>2, WriteBackGrows
  <2>3. QED BY <2>1, <2>2, AliasesMove
<1>4. QED BY <1>1, <1>2, <1>3, LinkInvInit, LinkInvNext, PTL DEF Spec, ListsGrow
==============================================================================
