---------------------------- MODULE OutcomeProofs ----------------------------
(***************************************************************************)
(* What reaches a human, and what a pack lets a process write.             *)
(* An escalation goes to the queue with the step that records its outcome, *)
(* and the queue of a process dies only with its reports.  An edge waiting *)
(* to be written is always one of the spine; the others are written by the *)
(* step that checks their type.                                            *)
(***************************************************************************)
EXTENDS LoadProofs

\* A queue that grows keeps its members.
LEMMA AppendRange ==
    ASSUME NEW S, NEW s \in Seq(S), NEW x \in S
    PROVE  Range(Append(s, x)) = Range(s) \cup {x}
<1>1. /\ Len(s) \in Nat
      /\ DOMAIN s = 1..Len(s)
      /\ DOMAIN Append(s, x) = 1..(Len(s) + 1)
      /\ \A i \in 1..Len(s) : Append(s, x)[i] = s[i]
      /\ Append(s, x)[Len(s) + 1] = x
  OBVIOUS
<1>2. ASSUME NEW y \in Range(Append(s, x)) PROVE y \in Range(s) \cup {x}
  <2>1. PICK i \in 1..(Len(s) + 1) : y = Append(s, x)[i]
    BY <1>1 DEF Range
  <2>2. CASE i = Len(s) + 1
    BY <1>1, <2>1, <2>2
  <2>3. CASE i # Len(s) + 1
    <3>1. i \in 1..Len(s)
      BY <1>1, <2>3
    <3>2. QED BY <1>1, <2>1, <3>1 DEF Range
  <2>4. QED BY <2>2, <2>3
<1>3. ASSUME NEW y \in Range(s) PROVE y \in Range(Append(s, x))
  <2>1. PICK i \in 1..Len(s) : y = s[i]
    BY <1>1, <1>3 DEF Range
  <2>2. i \in 1..(Len(s) + 1)
    BY <1>1
  <2>3. QED BY <1>1, <2>1, <2>2 DEF Range
<1>4. x \in Range(Append(s, x))
  <2>1. Len(s) + 1 \in 1..(Len(s) + 1)
    BY <1>1
  <2>2. QED BY <1>1, <2>1 DEF Range
<1>5. QED BY <1>2, <1>3, <1>4

\* Serving a queue changes it.
LEMMA TailDiffers ==
    ASSUME NEW S, NEW s \in Seq(S), s # <<>>
    PROVE  Tail(s) # s
<1>1. Len(s) \in Nat /\ Len(s) > 0
  OBVIOUS
<1>2. Len(Tail(s)) = Len(s) - 1
  BY <1>1
<1>3. \A n \in Nat : n - 1 # n
  OBVIOUS
<1>4. Len(s) - 1 # Len(s)
  BY <1>1, <1>3
<1>5. QED BY <1>2, <1>4

\* Two queues joined hold what both did.
LEMMA ConcatRange ==
    ASSUME NEW S, NEW s \in Seq(S), NEW t \in Seq(S)
    PROVE  Range(s \o t) = Range(s) \cup Range(t)
<1>1. /\ Len(s) \in Nat /\ Len(t) \in Nat
      /\ DOMAIN s = 1..Len(s) /\ DOMAIN t = 1..Len(t)
      /\ DOMAIN (s \o t) = 1..(Len(s) + Len(t))
      /\ \A i \in 1..(Len(s) + Len(t)) :
            (s \o t)[i] = IF i <= Len(s) THEN s[i] ELSE t[i - Len(s)]
  OBVIOUS
<1>2. ASSUME NEW y \in Range(s \o t) PROVE y \in Range(s) \cup Range(t)
  <2>1. PICK i \in 1..(Len(s) + Len(t)) : y = (s \o t)[i]
    BY <1>1 DEF Range
  <2>2. CASE i <= Len(s)
    BY <1>1, <2>1, <2>2 DEF Range
  <2>3. CASE i > Len(s)
    <3>1. i - Len(s) \in 1..Len(t) /\ y = t[i - Len(s)]
      BY <1>1, <2>1, <2>3
    <3>2. QED BY <1>1, <3>1 DEF Range
  <2>4. QED BY <1>1, <2>2, <2>3
<1>3. ASSUME NEW y \in Range(s) PROVE y \in Range(s \o t)
  <2>1. PICK i \in 1..Len(s) : y = s[i]
    BY <1>1, <1>3 DEF Range
  <2>2. i \in 1..(Len(s) + Len(t)) /\ i <= Len(s)
    BY <1>1
  <2>3. QED BY <1>1, <2>1, <2>2 DEF Range
<1>4. ASSUME NEW y \in Range(t) PROVE y \in Range(s \o t)
  <2>1. PICK i \in 1..Len(t) : y = t[i]
    BY <1>1, <1>4 DEF Range
  <2>2. /\ i + Len(s) \in 1..(Len(s) + Len(t))
        /\ ~(i + Len(s) <= Len(s)) /\ (i + Len(s)) - Len(s) = i
    BY <1>1
  <2>3. QED BY <1>1, <2>1, <2>2 DEF Range
<1>5. QED BY <1>2, <1>3, <1>4

(***************************************************************************)
(* Which steps move outcomes.                                              *)
(***************************************************************************)
\* A step of one process touches no outcome of another.
LEMMA OthersOutcomes ==
    ASSUME TypeOK, NEW c \in Client, Step(c), NEW d \in Client, d # c
    PROVE  queue'[d] = queue[d] /\ report'[d] = report[d] /\ delivered'[d] = delivered[d]
<1> USE DEF TypeOK, FunnelTypeOK, PipelineTypeOK
<1>1. CASE Request(c)
  BY <1>1 DEF Request, LoadPack, Answer, ConfirmLink, DefineMetric, Ingest, StartRun,
              funnelVars, pipelineVars
<1>2. ASSUME UNCHANGED pipelineVars, UNCHANGED funnelVars \/ ConfirmStep(c)
      PROVE  queue'[d] = queue[d] /\ report'[d] = report[d] /\ delivered'[d] = delivered[d]
  BY <1>2 DEF ConfirmStep, ReadAliases, WriteAliases, pipelineVars, funnelVars
<1>3. CASE Fail(c) \/ Crash(c) \/ RejectRelation(c)
  BY <1>3 DEF Fail, Crash, RejectRelation, AbandonCall
<1>4. CASE UpsertDocument(c) \/ WriteLink(c) \/ UpsertColumn(c) \/ UpsertEntity(c) \/ Relate(c)
  BY <1>4 DEF UpsertDocument, WriteLink, UpsertColumn, UpsertEntity, Relate, funnelVars
<1>5. CASE LookUpAlias(c) \/ Suggest(c)
  BY <1>5 DEF LookUpAlias, Suggest, Enqueue, funnelVars
<1>6. CASE MarkDone(c) \/ Skip(c) \/ Fetch(c) \/ FinishRun(c)
  BY <1>6 DEF MarkDone, Skip, Fetch, FinishRun, funnelVars
<1>7. CASE Work(c)
  BY <1>2, <1>3, <1>4, <1>5, <1>6, <1>7 DEF Work, RunStep, LoadStep
<1>8. QED BY <1>1, <1>3, <1>7 DEF Step

\* The writing loops resolve nothing.
LEMMA WritesResolveNothing ==
    ASSUME TypeOK, NEW c \in Client,
           UpsertDocument(c) \/ WriteLink(c) \/ UpsertColumn(c) \/ UpsertEntity(c) \/ Relate(c)
    PROVE  /\ load'[c].resolutions = load[c].resolutions
           /\ UNCHANGED <<packVars, funnelVars, rest, report, delivered>>
<1> USE DEF SetLoad, TypeOK, PipelineTypeOK
<1>1. /\ load[c] \in Pending
      /\ UNCHANGED <<packVars, funnelVars, rest, report, delivered>>
  BY DEF UpsertDocument, WriteLink, UpsertColumn, UpsertEntity, Relate
<1>2. CASE UpsertDocument(c)
  BY <1>1, <1>2 DEF UpsertDocument, Pending
<1>3. CASE WriteLink(c) \/ UpsertColumn(c) \/ Relate(c)
  BY <1>1, <1>3 DEF WriteLink, UpsertColumn, Relate, Pending
<1>4. CASE UpsertEntity(c)
  BY <1>1, <1>4 DEF UpsertEntity, Pending
<1>5. QED BY <1>1, <1>2, <1>3, <1>4

\* A call that is abandoned, or a load that begins, has no outcome yet.
LEMMA NoOutcomesYet ==
    ASSUME TypeOK, NEW c \in Client
    PROVE  /\ AbandonCall(c) => /\ Range(load'[c].resolutions) = {}
                                /\ Range(load'[c].links) = {}
                                /\ Range(report'[c]) = {}
           /\ SetLoad(c, NoLoad) => /\ Range(load'[c].resolutions) = {}
                                    /\ Range(load'[c].links) = {}
           /\ \A b : SetLoad(c, NewLoad(b)) => /\ Range(load'[c].resolutions) = {}
                                               /\ Range(load'[c].links) = {}
BY EmptyRange DEF AbandonCall, SetLoad, NoLoad, NewLoad, TypeOK, PipelineTypeOK

\* A resolved column leaves one outcome behind.
LEMMA OneOutcome ==
    ASSUME TypeOK, TypeOK', NEW c \in Client, NEW tier, NEW m, NEW links,
           Resolved(c, tier, m, links)
    PROVE  /\ Range(load'[c].resolutions) = Range(load[c].resolutions)
                \cup {Resolution(Current(c), Head(load[c].observed).column, tier, m)}
           /\ load'[c].links = links
           /\ load'[c].owner = load[c].owner
<1> DEFINE r == Resolution(Current(c), Head(load[c].observed).column, tier, m)
<1>1. load[c] \in Pending /\ load'[c] \in Pending
  BY DEF TypeOK, PipelineTypeOK
<1>2. /\ load'[c].resolutions = Append(load[c].resolutions, r)
      /\ load'[c].links = links
      /\ load'[c].owner = load[c].owner
  BY <1>1 DEF Resolved, SetLoad, TypeOK, PipelineTypeOK, Pending
<1>3. load[c].resolutions \in Seq(Outcome) /\ load'[c].resolutions \in Seq(Outcome)
  BY <1>1 DEF Pending
<1>4. load[c].resolutions \in Seq(Outcome \cup {r})
  BY <1>3
<1>5. QED BY <1>2, <1>4, AppendRange

(***************************************************************************)
(* Escalations.                                                            *)
(***************************************************************************)
Filed(d) ==
    \A r \in delivered[d] \cup Range(report[d]) \cup Range(load[d].resolutions) :
        r.tier = "ESCALATED" => r \in Range(queue[d])

\* A step of the process itself keeps its escalations in its queue.
LEMMA OwnFiled ==
    ASSUME TypeOK, TypeOK', NEW c \in Client, Step(c), Filed(c)
    PROVE  Filed(c)'
<1> USE DEF TypeOK, FunnelTypeOK, PipelineTypeOK
<1>1. ASSUME queue'[c] = queue[c], report'[c] = report[c], delivered'[c] = delivered[c],
             load'[c].resolutions = load[c].resolutions
      PROVE  Filed(c)'
  BY <1>1 DEF Filed
<1>2. CASE Request(c)
  BY <1>1, <1>2 DEF Request, LoadPack, Answer, ConfirmLink, DefineMetric, Ingest, StartRun,
                    funnelVars, pipelineVars
<1>3. ASSUME UNCHANGED pipelineVars, UNCHANGED funnelVars \/ ConfirmStep(c)
      PROVE  Filed(c)'
  BY <1>1, <1>3 DEF ConfirmStep, ReadAliases, WriteAliases, pipelineVars, funnelVars
<1>4. CASE RejectRelation(c) \/ Fail(c)
  <2>1. AbandonCall(c) /\ queue' = queue /\ delivered' = delivered
    BY <1>4 DEF RejectRelation, Fail
  <2>2. QED BY <2>1, NoOutcomesYet DEF Filed
<1>5. CASE Crash(c)
  <2>1. AbandonCall(c) /\ delivered'[c] = {}
    BY <1>5 DEF Crash
  <2>2. QED BY <2>1, NoOutcomesYet DEF Filed
<1>6. CASE UpsertDocument(c) \/ WriteLink(c) \/ UpsertColumn(c) \/ UpsertEntity(c) \/ Relate(c)
  BY <1>1, <1>6, WritesResolveNothing DEF funnelVars
<1>7. CASE LookUpAlias(c)
  <2>1. queue' = queue /\ report' = report /\ delivered' = delivered
    BY <1>7 DEF LookUpAlias, funnelVars
  <2>2. ASSUME NEW tier, tier # "ESCALATED", NEW m, NEW links, Resolved(c, tier, m, links)
        PROVE  Filed(c)'
    <3> DEFINE r == Resolution(Current(c), Head(load[c].observed).column, tier, m)
    <3>1. r.tier # "ESCALATED"
      BY <2>2 DEF Resolution
    <3>2. Range(load'[c].resolutions) = Range(load[c].resolutions) \cup {r}
      BY <2>2, OneOutcome
    <3> HIDE DEF r
    <3>3. QED BY <2>1, <3>1, <3>2 DEF Filed
  <2>3. CASE SetLoad(c, [load[c] EXCEPT !.missed = TRUE])
    <3>1. load'[c].resolutions = load[c].resolutions
      BY <2>3 DEF SetLoad, Pending
    <3>2. QED BY <1>1, <2>1, <3>1
  <2>4. QED BY <1>7, <2>2, <2>3 DEF LookUpAlias
<1>8. CASE Suggest(c)
  <2> DEFINE x == Head(load[c].observed).column
  <2>1. report' = report /\ delivered' = delivered
    BY <1>8 DEF Suggest
  <2>2. ASSUME NEW m, Resolved(c, "SUGGESTED", m, <<>>), queue' = queue
        PROVE  Filed(c)'
    <3> DEFINE r == Resolution(Current(c), x, "SUGGESTED", m)
    <3>1. r.tier # "ESCALATED"
      BY DEF Resolution
    <3>2. Range(load'[c].resolutions) = Range(load[c].resolutions) \cup {r}
      BY <2>2, OneOutcome
    <3> HIDE DEF r
    <3>3. QED BY <2>1, <2>2, <3>1, <3>2 DEF Filed
  <2>3. ASSUME Resolved(c, "ESCALATED", NoMetric, <<>>),
               Enqueue(c, Resolution(Current(c), x, "ESCALATED", NoMetric))
        PROVE  Filed(c)'
    <3> DEFINE r == Resolution(Current(c), x, "ESCALATED", NoMetric)
    <3>1. queue[c] \in Seq(Outcome \cup {r}) /\ queue'[c] = Append(queue[c], r)
      BY <2>3 DEF Enqueue
    <3>2. Range(queue'[c]) = Range(queue[c]) \cup {r}
      BY <3>1, AppendRange
    <3> HIDE DEF r
    <3>3. Range(load'[c].resolutions) = Range(load[c].resolutions) \cup {r}
      BY <2>3, OneOutcome DEF r
    <3>4. QED BY <2>1, <3>2, <3>3 DEF Filed
  <2>4. QED BY <1>8, <2>2, <2>3 DEF Suggest
<1>9. CASE MarkDone(c)
  <2>1. queue' = queue /\ delivered' = delivered
    BY <1>9 DEF MarkDone, funnelVars
  <2>2. report'[c] = report[c] \o load[c].resolutions /\ Range(load'[c].resolutions) = {}
    BY <1>9, NoOutcomesYet DEF MarkDone
  <2>3. report[c] \in Seq(Outcome) /\ load[c].resolutions \in Seq(Outcome)
    BY DEF Pending
  <2>4. Range(report'[c]) = Range(report[c]) \cup Range(load[c].resolutions)
    BY <2>2, <2>3, ConcatRange
  <2>5. QED BY <2>1, <2>2, <2>4 DEF Filed
<1>10. CASE FinishRun(c)
  <2>1. queue' = queue /\ load' = load
    BY <1>10 DEF FinishRun, funnelVars
  <2>2. delivered'[c] = delivered[c] \cup Range(report[c]) /\ Range(report'[c]) = {}
    BY <1>10, EmptyRange DEF FinishRun
  <2>3. QED BY <2>1, <2>2 DEF Filed
<1>11. CASE Fetch(c)
  <2>1. queue' = queue /\ report' = report /\ delivered' = delivered
    BY <1>11 DEF Fetch, funnelVars
  <2>2. Range(load'[c].resolutions) = {}
    BY <1>11, NoOutcomesYet DEF Fetch
  <2>3. QED BY <2>1, <2>2 DEF Filed
<1>12. CASE Skip(c)
  BY <1>1, <1>12 DEF Skip, funnelVars
<1>13. CASE Work(c)
  BY <1>3, <1>4, <1>6, <1>7, <1>8, <1>9, <1>10, <1>11, <1>12, <1>13
     DEF Work, RunStep, LoadStep
<1>14. QED BY <1>2, <1>4, <1>5, <1>13 DEF Step

\* For every instance: whatever crashes or is cut short, an outcome a process has
\* told someone to decide is in the queue it would be decided from.
THEOREM EscalationsKept == Spec => []EscalatedIsQueued
<1>1. EscalatedIsQueued <=> \A c \in Client : Filed(c)
  BY DEF EscalatedIsQueued, Filed
<1>2. Init => EscalatedIsQueued
  BY EmptyRange DEF Init, FunnelInit, PipelineInit, NoLoad, NewLoad, EscalatedIsQueued
<1>3. TypeOK /\ TypeOK' /\ EscalatedIsQueued /\ [Next]_vars => EscalatedIsQueued'
  <2> SUFFICES ASSUME TypeOK, TypeOK', EscalatedIsQueued, [Next]_vars, NEW d \in Client
               PROVE  Filed(d)'
    BY DEF EscalatedIsQueued, Filed
  <2>1. Filed(d)
    BY <1>1
  <2>2. CASE UNCHANGED vars
    BY <2>1, <2>2 DEF vars, funnelVars, pipelineVars, Filed
  <2>3. ASSUME NEW c \in Client, Step(c) PROVE Filed(d)'
    <3>1. CASE d = c
      BY <2>1, <2>3, <3>1, OwnFiled
    <3>2. CASE d # c
      BY <2>1, <2>3, <3>2, OthersUnmoved, OthersOutcomes DEF Filed
    <3>3. QED BY <3>1, <3>2
  <2>4. QED BY <2>2, <2>3 DEF Next, Step
<1>4. QED BY <1>2, <1>3, InitTyped, NextTyped, PTL DEF Spec

(***************************************************************************)
(* The edges a load has still to write.                                    *)
(***************************************************************************)
\* The ways a step of a process changes them.
LEMMA LinksMove ==
    ASSUME TypeOK, TypeOK', NEW c \in Client, Step(c)
    PROVE  \/ load'[c].links = load[c].links
           \/ WriteLink(c) /\ load'[c].links = Tail(load[c].links)
           \/ UpsertDocument(c) /\ load'[c].links = DocumentLinks(Head(load[c].documents))
           \/ /\ LookUpAlias(c)
              /\ \E m \in Metric :
                   LET x == Head(load[c].observed).column
                   IN  /\ Hit(NameOf[x], m)
                       /\ Resolved(c, "AUTO_LINKED", m, MetricLinks(c, x, m))
                       /\ load'[c].links = MetricLinks(c, x, m)
           \/ load'[c].links = <<>>
<1> USE DEF TypeOK, PipelineTypeOK
<1>1. load[c] \in Pending
  OBVIOUS
<1>2. CASE Request(c) \/ Skip(c) \/ FinishRun(c)
  BY <1>2 DEF Request, LoadPack, Answer, Ingest, StartRun, Skip, FinishRun, pipelineVars
<1>3. ASSUME UNCHANGED pipelineVars PROVE load'[c].links = load[c].links
  BY <1>3 DEF pipelineVars
<1>4. CASE Fail(c) \/ Crash(c) \/ RejectRelation(c) \/ MarkDone(c) \/ Fetch(c)
  BY <1>4 DEF Fail, Crash, RejectRelation, MarkDone, Fetch, AbandonCall, SetLoad, NoLoad, NewLoad
<1>5. CASE WriteLink(c)
  BY <1>1, <1>5 DEF WriteLink, SetLoad, Pending
<1>6. CASE UpsertDocument(c)
  BY <1>1, <1>6 DEF UpsertDocument, SetLoad, Pending
<1>7. CASE UpsertColumn(c) \/ Relate(c)
  BY <1>1, <1>7 DEF UpsertColumn, Relate, SetLoad, Pending
<1>8. CASE UpsertEntity(c)
  BY <1>1, <1>8 DEF UpsertEntity, SetLoad, Pending
<1>9. CASE Suggest(c)
  BY <1>9, OneOutcome DEF Suggest
<1>10. CASE LookUpAlias(c)
  <2> DEFINE o == Head(load[c].observed)
  <2>1. CASE \E m \in Metric : /\ Hit(NameOf[o.column], m)
                               /\ Resolved(c, "AUTO_LINKED", m, MetricLinks(c, o.column, m))
    <3>1. PICK m \in Metric : /\ Hit(NameOf[o.column], m)
                              /\ Resolved(c, "AUTO_LINKED", m, MetricLinks(c, o.column, m))
      BY <2>1
    <3>2. load'[c].links = MetricLinks(c, o.column, m)
      BY <3>1, OneOutcome
    <3>3. QED BY <1>10, <3>1, <3>2
  <2>2. CASE Resolved(c, "DOCUMENTED", NoMetric, <<>>)
    BY <2>2, OneOutcome
  <2>3. CASE SetLoad(c, [load[c] EXCEPT !.missed = TRUE])
    BY <1>1, <2>3 DEF SetLoad, Pending
  <2>4. QED BY <1>10, <2>1, <2>2, <2>3 DEF LookUpAlias
<1>11. CASE Work(c)
  BY <1>2, <1>3, <1>4, <1>5, <1>6, <1>7, <1>8, <1>9, <1>10, <1>11 DEF Work, RunStep, LoadStep
<1>12. QED BY <1>2, <1>4, <1>11 DEF Step

SpineLinks == \A c \in Client : \A e \in Range(load[c].links) : e.rel \in Spine

\* What a document links to.
LEMMA DocumentLinksAre ==
    ASSUME NEW d \in ObservedDocument, NEW e \in Range(DocumentLinks(d))
    PROVE  \/ \E y \in Entity : e = Describes(d.uri, y)
           \/ \E m \in Metric : e = DefinedIn(m, d.uri)
<1> DEFINE describes == [i \in 1..Len(d.describes) |-> Describes(d.uri, d.describes[i])]
           defines == [i \in 1..Len(d.defines) |-> DefinedIn(d.defines[i], d.uri)]
           S == {Describes(d.uri, y) : y \in Entity} \cup {DefinedIn(m, d.uri) : m \in Metric}
<1>1. d.describes \in Seq(Entity) /\ d.defines \in Seq(Metric)
  BY DEF ObservedDocument
<1>2. describes \in Seq(S) /\ defines \in Seq(S)
  BY <1>1
<1>3. Range(describes) \subseteq S /\ Range(defines) \subseteq S
  <2>1. \A s \in Seq(S) : \A i \in DOMAIN s : s[i] \in S
    OBVIOUS
  <2> HIDE DEF S, describes, defines
  <2>2. QED BY <1>2, <2>1 DEF Range
<1>4. Range(DocumentLinks(d)) = Range(describes) \cup Range(defines)
  BY <1>2, ConcatRange DEF DocumentLinks
<1>5. QED BY <1>3, <1>4

\* What an auto-linked column links to.
LEMMA MetricLinksAre ==
    ASSUME NEW c \in Client, NEW x, NEW m, NEW e \in Range(MetricLinks(c, x, m))
    PROVE  \/ e = Measures(x, m)
           \/ load[c].owner[x] # NoEntity /\ e = AppliesTo(m, load[c].owner[x])
BY DEF MetricLinks, Range

\* Links stay within the spine.
LEMMA SpineLinksNext == TypeOK /\ TypeOK' /\ SpineLinks /\ [Next]_vars => SpineLinks'
<1> SUFFICES ASSUME TypeOK, TypeOK', SpineLinks, [Next]_vars,
                    NEW d \in Client, NEW e \in Range(load'[d].links)
             PROVE  e.rel \in Spine
  BY DEF SpineLinks
<1>1. CASE UNCHANGED vars
  BY <1>1 DEF vars, pipelineVars, SpineLinks
<1>2. ASSUME NEW c \in Client, Step(c) PROVE e.rel \in Spine
  <2>1. CASE load'[d].links = load[d].links
    BY <2>1 DEF SpineLinks
  <2>2. CASE d # c
    BY <1>2, <2>1, <2>2, OthersUnmoved
  <2>3. CASE d = c /\ WriteLink(c) /\ load'[c].links = Tail(load[c].links)
    <3>1. Range(Tail(load[c].links)) \subseteq Range(load[c].links)
      BY <2>3, LoadFields, TailRange DEF WriteLink
    <3>2. QED BY <2>3, <3>1 DEF SpineLinks
  <2>4. CASE d = c /\ UpsertDocument(c) /\ load'[c].links = DocumentLinks(Head(load[c].documents))
    <3>1. Head(load[c].documents) \in ObservedDocument
      BY <2>4, LoadFields, TailRange DEF UpsertDocument
    <3>2. QED BY <2>4, <3>1, DocumentLinksAre DEF Describes, DefinedIn, SpineEdge, Spine
  <2>5. CASE d = c /\ \E x, m : load'[c].links = MetricLinks(c, x, m)
    BY <2>5, MetricLinksAre DEF Measures, AppliesTo, SpineEdge, Spine
  <2>6. CASE load'[d].links = <<>>
    BY <2>6, EmptyRange
  <2>7. QED BY <1>2, <2>1, <2>2, <2>3, <2>4, <2>5, <2>6, LinksMove
<1>3. QED BY <1>1, <1>2 DEF Next, Step

(***************************************************************************)
(* The allow-lists.                                                        *)
(***************************************************************************)
\* No pack's edge type is one of the core.
PackTypesNew == RelationType \cap (Spine \cup {"RELATED_TO"}) = {}

\* A label is written by the entity loop, and only if the packs of that process
\* allow it.
LEMMA LabelsAllowed ==
    ASSUME TypeOK, NEW c \in Client, Step(c), NEW e \in Entity, NEW s \in labels'[e] \ labels[e]
    PROVE  load'[c] # load[c] /\ s \in subtypes[c]
<1> USE DEF TypeOK, GraphTypeOK, PipelineTypeOK
<1>1. UpsertEntity(c)
  <2>1. CASE Request(c)
    BY <2>1 DEF Request, LoadPack, BeginLoadPack, Answer, ConfirmLink, DefineMetric, Ingest,
                StartRun, graphVars
  <2>2. CASE LoadPackStep(c) \/ ConfirmStep(c)
    BY <2>2 DEF LoadPackStep, UpsertMetric, UpsertBenchmark, EndLoadPack, ConfirmStep,
                ReadAliases, WriteAliases, graphVars
  <2>3. CASE Fail(c) \/ Crash(c) \/ RejectRelation(c) \/ MarkDone(c) \/ Skip(c) \/ Fetch(c)
               \/ FinishRun(c)
    BY <2>3 DEF Fail, Crash, RejectRelation, MarkDone, Skip, Fetch, FinishRun, graphVars
  <2>4. CASE UpsertDocument(c) \/ WriteLink(c) \/ UpsertColumn(c) \/ Relate(c)
               \/ LookUpAlias(c) \/ Suggest(c)
    BY <2>4 DEF UpsertDocument, WriteLink, UpsertColumn, Relate, LookUpAlias, Suggest, graphVars
  <2>5. QED BY <2>1, <2>2, <2>3, <2>4 DEF Step, Work, RunStep, LoadStep
<1> DEFINE ent == Head(load[c].entities)
<1>2. ent \in ObservedEntity /\ load[c].entities # <<>>
  BY <1>1, LoadFields, TailRange DEF UpsertEntity
<1>3. s \in PickSubtype(c, ent.candidate_labels)
  BY <1>1, <1>2 DEF UpsertEntity, AddLabels, ObservedEntity
<1>4. s \in subtypes[c]
  BY <1>3 DEF PickSubtype
<1>5. load'[c].entities = Tail(load[c].entities)
  BY <1>1 DEF UpsertEntity, SetLoad, Pending
<1>6. Tail(load[c].entities) # load[c].entities
  BY <1>2, LoadFields, TailDiffers
<1>7. QED BY <1>4, <1>5, <1>6

\* A pack's edge type is written by the relation loop alone.
LEMMA TypesAllowed ==
    ASSUME TypeOK, SpineLinks, PackTypesNew, NEW c \in Client, Step(c),
           NEW e \in edges' \ edges, e.rel \in RelationType
    PROVE  load'[c] # load[c] /\ e.rel \in edgeTypes[c]
<1> USE DEF TypeOK, PipelineTypeOK
<1>1. e.rel \notin Spine /\ e.rel # "RELATED_TO"
  BY DEF PackTypesNew
<1>2. Relate(c)
  <2>1. CASE Request(c)
    <3>1. PICK x, m : edges' \subseteq edges \cup {Measures(x, m)}
      BY <2>1 DEF Request, LoadPack, BeginLoadPack, Answer, ConfirmLink, DefineMetric, Ingest,
                  StartRun, UpsertEdge, graphVars
    <3>2. QED BY <1>1, <3>1 DEF Measures, SpineEdge, Spine
  <2>2. CASE LoadPackStep(c) \/ ConfirmStep(c)
    BY <2>2 DEF LoadPackStep, UpsertMetric, UpsertBenchmark, EndLoadPack, ConfirmStep,
                ReadAliases, WriteAliases, graphVars
  <2>3. CASE Fail(c) \/ Crash(c) \/ RejectRelation(c) \/ MarkDone(c) \/ Skip(c) \/ Fetch(c)
               \/ FinishRun(c)
    BY <2>3 DEF Fail, Crash, RejectRelation, MarkDone, Skip, Fetch, FinishRun, graphVars
  <2>4. CASE UpsertDocument(c) \/ UpsertColumn(c) \/ UpsertEntity(c) \/ LookUpAlias(c) \/ Suggest(c)
    BY <2>4 DEF UpsertDocument, UpsertColumn, UpsertEntity, LookUpAlias, Suggest, graphVars
  <2>5. CASE WriteLink(c)
    <3>1. Head(load[c].links) \in Range(load[c].links)
      BY <2>5, LoadFields, TailRange DEF WriteLink
    <3>2. e = Head(load[c].links)
      BY <2>5 DEF WriteLink, UpsertEdge
    <3>3. QED BY <1>1, <3>1, <3>2 DEF SpineLinks
  <2>6. QED BY <2>1, <2>2, <2>3, <2>4, <2>5 DEF Step, Work, RunStep, LoadStep
<1>3. e.rel = Head(load[c].relations).type /\ Allowed(c, Head(load[c].relations).type)
  BY <1>2 DEF Relate, UpsertEdge, Relates
<1>4. load'[c].relations = Tail(load[c].relations) /\ load[c].relations # <<>>
  BY <1>2 DEF Relate, SetLoad, Pending
<1>5. Tail(load[c].relations) # load[c].relations
  BY <1>4, LoadFields, TailDiffers
<1>6. QED BY <1>1, <1>3, <1>4, <1>5 DEF Allowed

\* For every instance whose pack edge types are not the core's own: a subtype or a
\* specialised edge is the work of a process that has itself loaded a pack for it.
THEOREM AllowListsHold ==
    ASSUME PackTypesNew
    PROVE  Spec => OnlyAllowListed
<1>1. TypeOK /\ SpineLinks /\ [Next]_vars =>
        [/\ \A e \in Entity, s \in Subtype :
              s \in labels'[e] \ labels[e] =>
                  \E c \in Client : load'[c] # load[c] /\ s \in subtypes[c]
         /\ \A e \in edges' \ edges :
              e.rel \in RelationType =>
                  \E c \in Client : load'[c] # load[c] /\ e.rel \in edgeTypes[c]]_vars
  <2> SUFFICES ASSUME TypeOK, SpineLinks, NEW c \in Client, Step(c)
               PROVE  /\ \A e \in Entity, s \in Subtype :
                           s \in labels'[e] \ labels[e] => load'[c] # load[c] /\ s \in subtypes[c]
                      /\ \A e \in edges' \ edges :
                           e.rel \in RelationType => load'[c] # load[c] /\ e.rel \in edgeTypes[c]
    BY DEF Next, Step
  <2>1. QED BY LabelsAllowed, TypesAllowed
<1>2. Init => SpineLinks
  BY EmptyRange DEF Init, PipelineInit, NoLoad, NewLoad, SpineLinks
<1>3. TypeOK /\ TypeOK' /\ SpineLinks /\ [Next]_vars => SpineLinks'
  BY SpineLinksNext
<1>4. QED BY <1>1, <1>2, <1>3, InitTyped, NextTyped, PTL DEF Spec, OnlyAllowListed
==============================================================================
